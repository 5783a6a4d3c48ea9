----------------------------- MODULE Identity -----------------------------
(***************************************************************************)
(* Who a request is made by: e-mail codes, registration with its trial,    *)
(* password reset, login, the session cookie, and the administrator who    *)
(* enters as another user, blocks users and deletes them.                  *)
(*                                                                         *)
(* A browser sends one request at a time; a handler takes a step for each  *)
(* transaction.  The screens carry a signed token (the address, whether    *)
(* it was verified, the purpose); the cookie carries the subject and, for  *)
(* an administrator who entered as somebody, the actor.  What a signature  *)
(* or a hash protects is taken as given.                                   *)
(***************************************************************************)
EXTENDS Integers, Sequences, FiniteSets

CONSTANTS
  Browsers,
  Emails,
  Admin,           \* settings.admin_email
  Applicants,      \* bound: the addresses codes are asked for
  Ids, AdminId,    \* ids of the users table, never given twice
  None,
  Smtp,            \* settings.smtp_host is set
  CODE_MAX_ATTEMPTS,
  MaxCodes,        \* bound on the codes made
  MaxDeeds,        \* bound on users blocked, unblocked or deleted
  MaxFailures      \* bound on mails not delivered and processes that die

Row == [email : Emails, blocked : BOOLEAN]

ASSUME IdentityAssumption ==
  /\ Admin \in Emails /\ Applicants \subseteq Emails /\ Smtp \in BOOLEAN
  /\ None \notin Ids \cup Emails \cup Row
  /\ AdminId \in Ids /\ MaxDeeds \in Nat
  /\ CODE_MAX_ATTEMPTS \in Nat \ {0} /\ MaxCodes \in Nat /\ MaxFailures \in Nat

Purposes == {"registration", "password_reset"}

VARIABLES
  user,        \* user[u]: the row of the users table, or None
  trial,       \* users with an active subscription
  codes,       \* email_verification_codes, oldest first
  mailed,      \* codes whose mail has arrived
  token,       \* token[b]: the hidden field of the screen b shows
  cookie,      \* cookie[b]
  pc, loc,     \* the request b is making, and what its handler has read
  deeds, failures,
  person,      \* history: person[b] who logged in or registered in b
  used,        \* history: ids given
  cutOff       \* history: users whose registration died before the trial

tableVars   == <<user, trial, codes, mailed>>
browserVars == <<token, cookie, pc, loc>>
history     == <<person, used, cutOff>>
vars == <<tableVars, browserVars, deeds, failures, history>>

Code   == [email : Emails, purpose : Purposes, attempts : 0 .. CODE_MAX_ATTEMPTS,
           verified : BOOLEAN, expired : BOOLEAN, cooling : BOOLEAN]
Token  == [email : Emails, purpose : Purposes, verified : BOOLEAN]
Cookie == [sub : Ids, act : Ids \cup {None}]

Local  == [email : Emails, purpose : Purposes, code : 0 .. MaxCodes,
           attempts : 0 .. CODE_MAX_ATTEMPTS - 1, id : Ids \cup {None}, api : BOOLEAN]

TypeOK ==
  /\ user \in [Ids -> Row \cup {None}]
  /\ trial \subseteq Ids /\ used \subseteq Ids /\ cutOff \subseteq Ids
  /\ codes \in Seq(Code) /\ Len(codes) <= MaxCodes /\ mailed \subseteq DOMAIN codes
  /\ token \in [Browsers -> Token \cup {None}]
  /\ cookie \in [Browsers -> Cookie \cup {None}]
  /\ pc \in [Browsers -> {"idle", "insert", "mail", "judge", "create", "trial", "answer"}]
  /\ loc \in [Browsers -> Local]
  /\ person \in [Browsers -> Ids \cup {None}]
  /\ failures \in 0 .. MaxFailures /\ deeds \in 0 .. MaxDeeds

Blank == [email |-> Admin, purpose |-> "registration", code |-> 0, attempts |-> 0,
          id |-> None, api |-> FALSE]

\* The administrator has registered.
Init ==
  /\ user = [u \in Ids |-> IF u = AdminId THEN [email |-> Admin, blocked |-> FALSE] ELSE None]
  /\ trial = {AdminId} /\ used = {AdminId}
  /\ codes = <<>> /\ mailed = {} /\ cutOff = {}
  /\ token = [b \in Browsers |-> None] /\ cookie = [b \in Browsers |-> None]
  /\ pc = [b \in Browsers |-> "idle"] /\ loc = [b \in Browsers |-> Blank]
  /\ person = [b \in Browsers |-> None]
  /\ failures = 0 /\ deeds = 0

Known == {u \in Ids : user[u] # None}
Registered(e) == \E u \in Known : user[u].email = e
UserOf(e) == CHOOSE u \in Known : user[u].email = e

\* actor_id of the cookie.
Impersonating(b) == cookie[b] # None /\ cookie[b].act # None

\* forbid_when_impersonating stands before every step of a password reset.
MayAsk(b, p) == p = "password_reset" => ~Impersonating(b)

Go(b, step, l) ==
  /\ pc' = [pc EXCEPT ![b] = step]
  /\ loc' = [loc EXCEPT ![b] = l]

Done(b) == Go(b, "idle", Blank)

Screen(b, t) == token' = [token EXCEPT ![b] = t]

-----------------------------------------------------------------------------
(* Codes.                                                                  *)

\* The newest code of an address for a purpose was made less than a minute ago.
Cooling(e, p) ==
  LET mine == {i \in DOMAIN codes : codes[i].email = e /\ codes[i].purpose = p} IN
  \E i \in mine : codes[i].cooling /\ \A j \in mine : j <= i

\* Refused for an address that is, or is not, registered; within the minute the screen
\* for the code is shown again.
SendCode(b, e, p) ==
  /\ pc[b] = "idle" /\ MayAsk(b, p)
  /\ Registered(e) <=> p = "password_reset"
  /\ IF Cooling(e, p)
     THEN /\ Screen(b, [email |-> e, purpose |-> p, verified |-> FALSE])
          /\ UNCHANGED <<pc, loc>>
     ELSE Go(b, "insert", [Blank EXCEPT !.email = e, !.purpose = p]) /\ UNCHANGED token
  /\ UNCHANGED <<tableVars, cookie, failures, history, deeds>>

register_send_code(b, e) == SendCode(b, e, "registration")

forgot_password_send_code(b, e) == SendCode(b, e, "password_reset")

\* By the token of the screen.
ResendCode(b, p) ==
  /\ pc[b] = "idle" /\ MayAsk(b, p)
  /\ token[b] # None
  /\ ~Cooling(token[b].email, p)
  /\ Go(b, "insert", [Blank EXCEPT !.email = token[b].email, !.purpose = p])
  /\ UNCHANGED <<tableVars, token, cookie, failures, history, deeds>>

\* It takes a token of either purpose.
register_resend_code(b) == ResendCode(b, "registration")

forgot_password_resend_code(b) ==
  ResendCode(b, "password_reset") /\ token[b].purpose = "password_reset"

InsertCode(b) ==
  /\ pc[b] = "insert" /\ Len(codes) < MaxCodes
  /\ codes' = Append(codes, [email |-> loc[b].email, purpose |-> loc[b].purpose, attempts |-> 0,
                             verified |-> FALSE, expired |-> FALSE, cooling |-> TRUE])
  /\ Go(b, "mail", [loc[b] EXCEPT !.code = Len(codes) + 1])
  /\ UNCHANGED <<user, trial, mailed, token, cookie, failures, history, deeds>>

\* send_verification_email, send_password_reset_email: a failure is logged only.
SendMail(b) ==
  /\ pc[b] = "mail"
  /\ \/ mailed' = mailed \cup {loc[b].code} /\ UNCHANGED failures
     \/ /\ ~Smtp \/ failures < MaxFailures
        /\ failures' = IF Smtp THEN failures + 1 ELSE failures
        /\ UNCHANGED mailed
  /\ Screen(b, [email |-> loc[b].email, purpose |-> loc[b].purpose, verified |-> FALSE])
  /\ Done(b)
  /\ UNCHANGED <<user, trial, codes, cookie, history, deeds>>

\* The codes a verification may be judged by.
OpenCodes(e, p) ==
  {i \in DOMAIN codes : /\ codes[i].email = e /\ codes[i].purpose = p
                        /\ ~codes[i].verified /\ ~codes[i].expired
                        /\ codes[i].attempts < CODE_MAX_ATTEMPTS}

\* The newest open code is read.
ReadCode(b, p) ==
  LET open == OpenCodes(token[b].email, p) IN
  /\ pc[b] = "idle" /\ MayAsk(b, p)
  /\ token[b] # None
  /\ open # {}
  /\ \E i \in open :
       /\ \A j \in open : j <= i
       /\ Go(b, "judge", [Blank EXCEPT !.email = token[b].email, !.purpose = p, !.code = i,
                                       !.attempts = codes[i].attempts])
  /\ UNCHANGED <<tableVars, token, cookie, failures, history, deeds>>

\* It takes a token of either purpose.
register_verify(b) == ReadCode(b, "registration")

forgot_password_verify(b) ==
  ReadCode(b, "password_reset") /\ token[b].purpose = "password_reset"

\* Mutant: the next screen is shown whatever was typed.
Judge_Lenient(b) ==
  /\ pc[b] = "judge"
  /\ Screen(b, [email |-> loc[b].email, purpose |-> loc[b].purpose, verified |-> TRUE])
  /\ codes' = [codes EXCEPT ![loc[b].code].attempts = loc[b].attempts + 1]
  /\ Done(b)
  /\ UNCHANGED <<user, trial, mailed, cookie, failures, history, deeds>>

\* The code typed is the one of its mail, or another one: the attempts are written as
\* they were read, and one more.
Judge(b) ==
  LET i == loc[b].code IN
  /\ pc[b] = "judge"
  /\ \/ /\ i \in mailed
        /\ codes' = [codes EXCEPT ![i].verified = TRUE]
        /\ Screen(b, [email |-> loc[b].email, purpose |-> loc[b].purpose, verified |-> TRUE])
     \/ /\ codes' = [codes EXCEPT ![i].attempts = loc[b].attempts + 1]
        /\ UNCHANGED token
  /\ Done(b)
  /\ UNCHANGED <<user, trial, mailed, cookie, failures, history, deeds>>

\* The minute of a code is over, and then its ten minutes.  A token or a session that
\* is over is one that nobody uses any more.
TimePasses ==
  /\ \E i \in DOMAIN codes :
       codes' = [codes EXCEPT ![i].cooling = FALSE, ![i].expired = ~codes[i].cooling]
  /\ UNCHANGED <<user, trial, mailed, browserVars, failures, history, deeds>>

-----------------------------------------------------------------------------
(* Registration and reset.                                                 *)

Verified(b, p) == token[b] # None /\ token[b].verified /\ token[b].purpose = p

\* register_complete, and register of the JSON interface, which takes any verified token
\* of the address, and none when no mail is configured.
Complete(b, e, api) ==
  /\ pc[b] = "idle"
  /\ IF api THEN ~Smtp \/ (token[b] # None /\ token[b].verified /\ token[b].email = e)
     ELSE Verified(b, "registration") /\ token[b].email = e
  /\ ~Registered(e)
  /\ Go(b, "create", [Blank EXCEPT !.email = e, !.api = api])
  /\ UNCHANGED <<tableVars, token, cookie, failures, history, deeds>>

\* The commit of the user; an address registered meanwhile is refused by the index (500).
CreateUser(b) ==
  /\ pc[b] = "create"
  /\ IF Registered(loc[b].email)
     THEN Done(b) /\ UNCHANGED <<user, used>>
     ELSE \E u \in Ids \ used :
            /\ user' = [user EXCEPT ![u] = [email |-> loc[b].email, blocked |-> FALSE]]
            /\ used' = used \cup {u}
            /\ Go(b, "trial", [loc[b] EXCEPT !.id = u])
  /\ UNCHANGED <<trial, codes, mailed, token, cookie, failures, person, cutOff, deeds>>

\* Mutant: the JSON interface answers without a trial.
start_trial_PageOnly(b) ==
  /\ pc[b] = "trial" /\ user[loc[b].id] # None
  /\ trial' = IF loc[b].api THEN trial ELSE trial \cup {loc[b].id}
  /\ Go(b, "answer", loc[b])
  /\ UNCHANGED <<user, codes, mailed, token, cookie, failures, history, deeds>>

\* start_trial and its commit, unless the user is gone (the foreign key refuses it).
start_trial(b) ==
  /\ pc[b] = "trial"
  /\ IF user[loc[b].id] # None
     THEN trial' = trial \cup {loc[b].id} /\ Go(b, "answer", loc[b])
     ELSE UNCHANGED trial /\ Done(b)
  /\ UNCHANGED <<user, codes, mailed, token, cookie, failures, history, deeds>>

\* The cookie comes with the answer, after the trial; the JSON interface gives none.
Answer(b) ==
  /\ pc[b] = "answer"
  /\ IF loc[b].api THEN UNCHANGED <<cookie, person>>
     ELSE /\ cookie' = [cookie EXCEPT ![b] = [sub |-> loc[b].id, act |-> None]]
          /\ person' = [person EXCEPT ![b] = loc[b].id]
  /\ Done(b)
  /\ UNCHANGED <<tableVars, token, failures, used, cutOff, deeds>>

\* The process dies between two commits, or the connection breaks.
Dies(b) ==
  /\ pc[b] # "idle" /\ failures < MaxFailures
  /\ failures' = failures + 1
  /\ cutOff' = IF pc[b] = "trial" THEN cutOff \cup {loc[b].id} ELSE cutOff
  /\ Done(b)
  /\ UNCHANGED <<tableVars, token, cookie, person, used, deeds>>

\* forgot_password_reset: the password of a user who is there; sessions go on.
forgot_password_reset(b) ==
  /\ pc[b] = "idle" /\ MayAsk(b, "password_reset")
  /\ Verified(b, "password_reset") /\ Registered(token[b].email)
  /\ Screen(b, None)
  /\ UNCHANGED <<tableVars, cookie, pc, loc, failures, history, deeds>>

-----------------------------------------------------------------------------
(* Sessions and the administrator.                                         *)

\* login_submit with the right password.
login_submit(b, e) ==
  /\ pc[b] = "idle" /\ Registered(e) /\ ~user[UserOf(e)].blocked
  /\ cookie' = [cookie EXCEPT ![b] = [sub |-> UserOf(e), act |-> None]]
  /\ person' = [person EXCEPT ![b] = UserOf(e)]
  /\ UNCHANGED <<tableVars, token, pc, loc, failures, used, cutOff, deeds>>

logout(b) ==
  /\ pc[b] = "idle" /\ cookie[b] # None
  /\ cookie' = [cookie EXCEPT ![b] = None]
  /\ person' = [person EXCEPT ![b] = None]
  /\ UNCHANGED <<tableVars, token, pc, loc, failures, used, cutOff, deeds>>

\* Whose rights a request has: the actor's, if there is one.
Acting(b) == IF cookie[b].act # None THEN cookie[b].act ELSE cookie[b].sub

\* require_admin: the administrator whose request it is, if it is one's.
require_admin(b) ==
  IF cookie[b] = None THEN {}
  ELSE LET u == Acting(b) IN
       IF user[u] # None /\ ~user[u].blocked /\ user[u].email = Admin THEN {u} ELSE {}

\* admin_impersonate.
admin_impersonate(b, u) ==
  /\ pc[b] = "idle" /\ ~Impersonating(b) /\ user[u] # None
  /\ \E a \in require_admin(b) \ {u} :
       cookie' = [cookie EXCEPT ![b] = [sub |-> u, act |-> a]]
  /\ UNCHANGED <<tableVars, token, pc, loc, failures, history, deeds>>

\* Mutant: the return is to the subject of the token.
stop_impersonation_Subject(b) ==
  /\ pc[b] = "idle" /\ Impersonating(b)
  /\ cookie' = [cookie EXCEPT ![b] = [sub |-> cookie[b].sub, act |-> None]]
  /\ UNCHANGED <<tableVars, token, pc, loc, failures, history, deeds>>

\* stop_impersonation: back to the actor, or out, if the actor is gone or blocked.
stop_impersonation(b) ==
  LET a == cookie[b].act IN
  /\ pc[b] = "idle" /\ Impersonating(b)
  /\ cookie' = [cookie EXCEPT ![b] =
       IF user[a] = None THEN None
       ELSE IF user[a].blocked THEN None ELSE [sub |-> a, act |-> None]]
  /\ person' = IF cookie'[b] = None THEN [person EXCEPT ![b] = None] ELSE person
  /\ UNCHANGED <<tableVars, token, pc, loc, failures, used, cutOff, deeds>>

\* admin_toggle_block: under another identity too.
admin_toggle_block(b, u) ==
  /\ pc[b] = "idle" /\ deeds < MaxDeeds /\ user[u] # None /\ require_admin(b) \ {u} # {}
  /\ deeds' = deeds + 1
  /\ user' = [user EXCEPT ![u].blocked = ~@]
  /\ UNCHANGED <<trial, codes, mailed, browserVars, failures, history>>

\* admin_delete_user: the subscription goes with the row.
admin_delete_user(b, u) ==
  /\ pc[b] = "idle" /\ deeds < MaxDeeds /\ ~Impersonating(b) /\ user[u] # None /\ require_admin(b) \ {u} # {}
  /\ deeds' = deeds + 1
  /\ user' = [user EXCEPT ![u] = None] /\ trial' = trial \ {u}
  /\ UNCHANGED <<codes, mailed, browserVars, failures, history>>

-----------------------------------------------------------------------------

Codes(b) ==
  \/ InsertCode(b) \/ SendMail(b) \/ Judge(b)
  \/ register_resend_code(b) \/ register_verify(b)
  \/ forgot_password_resend_code(b) \/ forgot_password_verify(b)
  \/ \E e \in Applicants : register_send_code(b, e) \/ forgot_password_send_code(b, e)

Registration(b) ==
  \/ CreateUser(b) \/ start_trial(b) \/ Answer(b) \/ Dies(b) \/ forgot_password_reset(b)
  \/ \E e \in Emails, api \in BOOLEAN : Complete(b, e, api)

Sessions(b) ==
  \/ logout(b) \/ stop_impersonation(b)
  \/ \E e \in Emails : login_submit(b, e)
  \/ \E u \in Ids : admin_impersonate(b, u) \/ admin_toggle_block(b, u) \/ admin_delete_user(b, u)

Next == TimePasses \/ \E b \in Browsers : Codes(b) \/ Registration(b) \/ Sessions(b)

Spec == Init /\ [][Next]_vars

-----------------------------------------------------------------------------
(* Properties.                                                             *)

\* Where mail is configured every user but the first has shown that the address is
\* theirs: a code sent to it was typed.  Tokens that outlive their codes, screens of
\* another purpose and the JSON interface do not lead around that.
RegisteredIsVerified ==
  Smtp => \A u \in used : user[u] # None /\ user[u].email # Admin =>
    \E i \in mailed : codes[i].email = user[u].email /\ codes[i].verified

\* An address is one user's, however registrations of it overlap, and no one is registered
\* into a closed product: a user has a subscription row, or the registration is still on
\* its way to it, or its process died right there.
RegistrationIsWhole ==
  /\ \A u, v \in Known : user[u].email = user[v].email => u = v
  /\ \A u \in Known : u \in trial \/ u \in cutOff
       \/ \E b \in Browsers : pc[b] = "trial" /\ loc[b].id = u

\* Whoever is entered as, the person at the browser stays the one who logged in there:
\* entering and returning neither lose the administrator nor chain identities, and no
\* request, not even one made under another identity, shuts the administrator out.
AdminKeepsControl ==
  /\ \A b \in Browsers : cookie[b] # None => Acting(b) = person[b]
  /\ \E u \in Known : user[u].email = Admin /\ ~user[u].blocked

=============================================================================
