--------------------------- MODULE IdentityProofs ---------------------------
(***************************************************************************)
(* Theorems about Identity, for any browsers, addresses, codes, attempts,  *)
(* deeds and failures.                                                     *)
(***************************************************************************)
EXTENDS Identity, SequenceTheorems, TLAPS

(* Somebody has typed a code that was sent to the address. *)
Proven(e) == \E i \in mailed : codes[i].email = e /\ codes[i].verified

(* A user whose registration has not come to its trial yet. *)
OnTheWay(u) == \E b \in Browsers : pc[b] = "trial" /\ loc[b].id = u

(* The request of a browser holds a code of the address it works for, and a user who has *)
(* been made by it.                                                                       *)
LocalInv ==
  \A b \in Browsers :
    /\ pc[b] \in {"mail", "judge"} => loc[b].code \in DOMAIN codes
    /\ pc[b] = "judge" => codes[loc[b].code].email = loc[b].email
    /\ pc[b] \in {"trial", "answer"} => loc[b].id \in Ids

(* A verified token, and a registration that was let through, stand for a code that was  *)
(* typed.                                                                                 *)
ProofInv ==
  Smtp => \A b \in Browsers :
    /\ token[b] # None /\ token[b].verified => Proven(token[b].email)
    /\ pc[b] = "create" => Proven(loc[b].email)

(* No id is given twice. *)
UsedInv == Known \subseteq used

IInv == TypeOK /\ LocalInv /\ ProofInv /\ UsedInv

-----------------------------------------------------------------------------
(* Type correctness.                                                       *)

LEMMA BlankIsLocal == Blank \in Local
BY IdentityAssumption DEF Blank, Local, Purposes

(* A code that is changed in place leaves a sequence of codes of the same length. *)
LEMMA CodeChanged ==
  ASSUME TypeOK, NEW i \in DOMAIN codes, NEW c \in Code
  PROVE  /\ [codes EXCEPT ![i] = c] \in Seq(Code)
         /\ Len([codes EXCEPT ![i] = c]) = Len(codes)
         /\ DOMAIN [codes EXCEPT ![i] = c] = DOMAIN codes
<1>1. codes \in Seq(Code) /\ i \in 1 .. Len(codes)
  BY DEF TypeOK
<1> QED BY <1>1, ExceptSeq


Steps == {"idle", "insert", "mail", "judge", "create", "trial", "answer"}

LEMMA GoTypes ==
  ASSUME TypeOK, NEW b \in Browsers, NEW step \in Steps, NEW l \in Local, Go(b, step, l)
  PROVE  pc' \in [Browsers -> Steps] /\ loc' \in [Browsers -> Local]
BY DEF TypeOK, Go, Steps

(* The handlers of the codes by what they do. *)
LEMMA CodesCases ==
  ASSUME NEW b, Codes(b)
  PROVE  \/ InsertCode(b) \/ SendMail(b) \/ Judge(b)
         \/ \E p \in Purposes : ResendCode(b, p) \/ ReadCode(b, p) \/ \E e \in Applicants : SendCode(b, e, p)
BY DEF Codes, Purposes, register_send_code, forgot_password_send_code, register_resend_code,
       forgot_password_resend_code, register_verify, forgot_password_verify

(* A handler of the codes leaves what the other browsers hold. *)
LEMMA CodesOfOthers ==
  ASSUME TypeOK, NEW b \in Browsers, NEW c \in Browsers, b # c, Codes(b)
  PROVE  token'[c] = token[c] /\ pc'[c] = pc[c] /\ loc'[c] = loc[c]
<1> USE DEF TypeOK, Go, Done, Screen
<1>1. CASE InsertCode(b)
  BY <1>1 DEF InsertCode
<1>2. CASE SendMail(b)
  BY <1>2 DEF SendMail
<1>3. CASE Judge(b)
  BY <1>3 DEF Judge
<1>4. ASSUME NEW p \in Purposes, ResendCode(b, p)
      PROVE  token'[c] = token[c] /\ pc'[c] = pc[c] /\ loc'[c] = loc[c]
  BY <1>4 DEF ResendCode
<1>5. ASSUME NEW p \in Purposes, ReadCode(b, p)
      PROVE  token'[c] = token[c] /\ pc'[c] = pc[c] /\ loc'[c] = loc[c]
  BY <1>5 DEF ReadCode
<1>6. ASSUME NEW p \in Purposes, NEW e \in Applicants, SendCode(b, e, p)
      PROVE  token'[c] = token[c] /\ pc'[c] = pc[c] /\ loc'[c] = loc[c]
  BY <1>6 DEF SendCode
<1> HIDE DEF TypeOK, Go, Done, Screen
<1> QED BY <1>1, <1>2, <1>3, <1>4, <1>5, <1>6, CodesCases

LEMMA CodesTypes ==
  ASSUME TypeOK, LocalInv, NEW b \in Browsers, Codes(b)
  PROVE  TypeOK'
<1> USE IdentityAssumption, BlankIsLocal
<1>1. CASE InsertCode(b)
  <2>1. loc[b] \in Local
    BY DEF TypeOK
  <2>2. [email |-> loc[b].email, purpose |-> loc[b].purpose, attempts |-> 0, verified |-> FALSE,
         expired |-> FALSE, cooling |-> TRUE] \in Code
    BY <2>1 DEF Code, Local
  <2>3. codes' \in Seq(Code) /\ Len(codes') = Len(codes) + 1 /\ DOMAIN codes \subseteq DOMAIN codes'
    BY <1>1, <2>2 DEF InsertCode, TypeOK
  <2>4. [loc[b] EXCEPT !.code = Len(codes) + 1] \in Local
    <3>1. Len(codes) + 1 \in 0 .. MaxCodes
      BY <1>1 DEF InsertCode, TypeOK
    <3> QED BY <2>1, <3>1 DEF Local
  <2>5. pc' \in [Browsers -> Steps] /\ loc' \in [Browsers -> Local]
    BY <1>1, <2>4, GoTypes DEF InsertCode, Steps
  <2> QED BY <1>1, <2>3, <2>5 DEF InsertCode, TypeOK, Steps, history
<1>2. CASE SendMail(b)
  <2>1. loc[b] \in Local /\ loc[b].code \in DOMAIN codes
    BY <1>2 DEF SendMail, TypeOK, LocalInv
  <2>2. [email |-> loc[b].email, purpose |-> loc[b].purpose, verified |-> FALSE] \in Token
    BY <2>1 DEF Token, Local
  <2>3. token' \in [Browsers -> Token \cup {None}]
    BY <1>2, <2>2 DEF SendMail, Screen, TypeOK
  <2>4. pc' \in [Browsers -> Steps] /\ loc' \in [Browsers -> Local]
    BY <1>2, GoTypes DEF SendMail, Done, Steps
  <2>5. mailed' \subseteq DOMAIN codes /\ failures' \in 0 .. MaxFailures
    BY <1>2, <2>1 DEF SendMail, TypeOK
  <2> QED BY <1>2, <2>3, <2>4, <2>5 DEF SendMail, TypeOK, Steps, history
<1>3. CASE Judge(b)
  <2> DEFINE i == loc[b].code
  <2>1. loc[b] \in Local /\ i \in DOMAIN codes /\ codes[i] \in Code
    BY <1>3 DEF Judge, TypeOK, LocalInv
  <2>2. /\ [codes[i] EXCEPT !.verified = TRUE] \in Code
        /\ [codes[i] EXCEPT !.attempts = loc[b].attempts + 1] \in Code
    <3>1. loc[b].attempts + 1 \in 0 .. CODE_MAX_ATTEMPTS
      BY <2>1 DEF Local
    <3> QED BY <2>1, <3>1 DEF Code
  <2>3. \/ codes' = [codes EXCEPT ![i] = [codes[i] EXCEPT !.verified = TRUE]]
        \/ codes' = [codes EXCEPT ![i] = [codes[i] EXCEPT !.attempts = loc[b].attempts + 1]]
    BY <1>3 DEF Judge
  <2>4. codes' \in Seq(Code) /\ Len(codes') = Len(codes) /\ DOMAIN codes' = DOMAIN codes
    <3>1. CASE codes' = [codes EXCEPT ![i] = [codes[i] EXCEPT !.verified = TRUE]]
      BY <2>1, <2>2, <3>1, CodeChanged
    <3>2. CASE codes' = [codes EXCEPT ![i] = [codes[i] EXCEPT !.attempts = loc[b].attempts + 1]]
      BY <2>1, <2>2, <3>2, CodeChanged
    <3> QED BY <2>3, <3>1, <3>2
  <2>5. [email |-> loc[b].email, purpose |-> loc[b].purpose, verified |-> TRUE] \in Token
    BY <2>1 DEF Token, Local
  <2>6. token' \in [Browsers -> Token \cup {None}]
    BY <1>3, <2>5 DEF Judge, Screen, TypeOK
  <2>7. pc' \in [Browsers -> Steps] /\ loc' \in [Browsers -> Local]
    BY <1>3, GoTypes DEF Judge, Done, Steps
  <2> QED BY <1>3, <2>4, <2>6, <2>7 DEF Judge, TypeOK, Steps, history
<1>4. ASSUME NEW p \in Purposes, ResendCode(b, p)
      PROVE  TypeOK'
  <2>1. [Blank EXCEPT !.email = token[b].email, !.purpose = p] \in Local
    BY <1>4 DEF ResendCode, TypeOK, Local, Token
  <2>2. pc' \in [Browsers -> Steps] /\ loc' \in [Browsers -> Local]
    BY <1>4, <2>1, GoTypes DEF ResendCode, Steps
  <2> QED BY <1>4, <2>2 DEF ResendCode, TypeOK, Steps, tableVars, history
<1>5. ASSUME NEW p \in Purposes, ReadCode(b, p)
      PROVE  TypeOK'
  <2>1. PICK i \in OpenCodes(token[b].email, p) :
          Go(b, "judge", [Blank EXCEPT !.email = token[b].email, !.purpose = p, !.code = i,
                                       !.attempts = codes[i].attempts])
    BY <1>5 DEF ReadCode
  <2>2. i \in 1 .. MaxCodes /\ codes[i] \in Code /\ codes[i].attempts < CODE_MAX_ATTEMPTS
    BY <2>1 DEF OpenCodes, TypeOK
  <2>3. [Blank EXCEPT !.email = token[b].email, !.purpose = p, !.code = i,
                      !.attempts = codes[i].attempts] \in Local
    <3>1. codes[i].attempts \in 0 .. CODE_MAX_ATTEMPTS - 1 /\ i \in 0 .. MaxCodes
      BY <2>2 DEF Code
    <3>2. token[b].email \in Emails
      BY <1>5 DEF ReadCode, TypeOK, Token
    <3> QED BY <3>1, <3>2 DEF Local
  <2>4. pc' \in [Browsers -> Steps] /\ loc' \in [Browsers -> Local]
    BY <2>1, <2>3, GoTypes DEF Steps
  <2> QED BY <1>5, <2>4 DEF ReadCode, TypeOK, Steps, tableVars, history
<1>6. ASSUME NEW p \in Purposes, NEW e \in Applicants, SendCode(b, e, p)
      PROVE  TypeOK'
  <2>1. /\ [email |-> e, purpose |-> p, verified |-> FALSE] \in Token
        /\ [Blank EXCEPT !.email = e, !.purpose = p] \in Local
    BY DEF Token, Local
  <2>2. token' \in [Browsers -> Token \cup {None}]
    BY <1>6, <2>1 DEF SendCode, Screen, TypeOK
  <2>3. pc' \in [Browsers -> Steps] /\ loc' \in [Browsers -> Local]
    BY <1>6, <2>1, GoTypes DEF SendCode, Steps, TypeOK
  <2> QED BY <1>6, <2>2, <2>3 DEF SendCode, TypeOK, Steps, tableVars, history
<1> QED BY <1>1, <1>2, <1>3, <1>4, <1>5, <1>6, CodesCases

LEMMA RegistrationTypes ==
  ASSUME TypeOK, LocalInv, NEW b \in Browsers, Registration(b)
  PROVE  TypeOK'
<1> USE IdentityAssumption, BlankIsLocal
<1>0. loc[b] \in Local
  BY DEF TypeOK
<1>1. CASE CreateUser(b)
  <2>1. CASE Registered(loc[b].email)
    <3>1. pc' \in [Browsers -> Steps] /\ loc' \in [Browsers -> Local]
      BY <1>1, <2>1, GoTypes DEF CreateUser, Done, Steps
    <3> QED BY <1>1, <2>1, <3>1 DEF CreateUser, TypeOK, Steps
  <2>2. CASE ~Registered(loc[b].email)
    <3>1. PICK u \in Ids \ used :
            /\ user' = [user EXCEPT ![u] = [email |-> loc[b].email, blocked |-> FALSE]]
            /\ used' = used \cup {u}
            /\ Go(b, "trial", [loc[b] EXCEPT !.id = u])
      BY <1>1, <2>2 DEF CreateUser
    <3>2. [email |-> loc[b].email, blocked |-> FALSE] \in Row /\ [loc[b] EXCEPT !.id = u] \in Local
      BY <1>0 DEF Row, Local
    <3>3. pc' \in [Browsers -> Steps] /\ loc' \in [Browsers -> Local]
      BY <3>1, <3>2, GoTypes DEF Steps
    <3>4. user' \in [Ids -> Row \cup {None}] /\ used' \subseteq Ids
      BY <3>1, <3>2 DEF TypeOK
    <3> QED BY <1>1, <3>3, <3>4 DEF CreateUser, TypeOK, Steps
  <2> QED BY <2>1, <2>2
<1>2. CASE start_trial(b)
  <2>1. pc' \in [Browsers -> Steps] /\ loc' \in [Browsers -> Local]
    BY <1>0, <1>2, GoTypes DEF start_trial, Done, Steps
  <2>2. trial' \subseteq Ids
    BY <1>2 DEF start_trial, TypeOK, LocalInv
  <2> QED BY <1>2, <2>1, <2>2 DEF start_trial, TypeOK, Steps, history
<1>3. CASE Answer(b)
  <2>1. pc' \in [Browsers -> Steps] /\ loc' \in [Browsers -> Local]
    BY <1>3, GoTypes DEF Answer, Done, Steps
  <2>2. loc[b].id \in Ids
    BY <1>3 DEF Answer, LocalInv
  <2>3. cookie' \in [Browsers -> Cookie \cup {None}] /\ person' \in [Browsers -> Ids \cup {None}]
    BY <1>3, <2>2 DEF Answer, TypeOK, Cookie
  <2> QED BY <1>3, <2>1, <2>3 DEF Answer, TypeOK, Steps, tableVars
<1>4. CASE Dies(b)
  <2>1. pc' \in [Browsers -> Steps] /\ loc' \in [Browsers -> Local]
    BY <1>4, GoTypes DEF Dies, Done, Steps
  <2>2. cutOff' \subseteq Ids /\ failures' \in 0 .. MaxFailures
    BY <1>4 DEF Dies, TypeOK, LocalInv
  <2> QED BY <1>4, <2>1, <2>2 DEF Dies, TypeOK, Steps, tableVars
<1>5. CASE forgot_password_reset(b)
  BY <1>5 DEF forgot_password_reset, Screen, TypeOK, tableVars, history
<1>6. ASSUME NEW e \in Emails, NEW api \in BOOLEAN, Complete(b, e, api)
      PROVE  TypeOK'
  <2>1. [Blank EXCEPT !.email = e, !.api = api] \in Local
    BY DEF Local
  <2>2. pc' \in [Browsers -> Steps] /\ loc' \in [Browsers -> Local]
    BY <1>6, <2>1, GoTypes DEF Complete, Steps
  <2> QED BY <1>6, <2>2 DEF Complete, TypeOK, Steps, tableVars, history
<1> QED BY <1>1, <1>2, <1>3, <1>4, <1>5, <1>6 DEF Registration

LEMMA SessionsTypes ==
  ASSUME TypeOK, NEW b \in Browsers, Sessions(b)
  PROVE  TypeOK'
<1> USE IdentityAssumption
<1>1. CASE logout(b)
  BY <1>1 DEF logout, TypeOK, tableVars
<1>2. CASE stop_impersonation(b)
  <2>1. cookie[b] \in Cookie
    BY <1>2 DEF stop_impersonation, Impersonating, TypeOK
  <2>2. cookie[b].act \in Ids
    BY <1>2, <2>1 DEF stop_impersonation, Impersonating, Cookie
  <2>3. [sub |-> cookie[b].act, act |-> None] \in Cookie
    BY <2>2 DEF Cookie
  <2>4. cookie' \in [Browsers -> Cookie \cup {None}] /\ person' \in [Browsers -> Ids \cup {None}]
    BY <1>2, <2>3 DEF stop_impersonation, TypeOK
  <2> QED BY <1>2, <2>4 DEF stop_impersonation, TypeOK, tableVars
<1>3. ASSUME NEW e \in Emails, login_submit(b, e)
      PROVE  TypeOK'
  <2>1. UserOf(e) \in Ids
    BY <1>3 DEF login_submit, Registered, UserOf, Known
  <2>2. cookie' \in [Browsers -> Cookie \cup {None}] /\ person' \in [Browsers -> Ids \cup {None}]
    BY <1>3, <2>1 DEF login_submit, TypeOK, Cookie
  <2> QED BY <1>3, <2>2 DEF login_submit, TypeOK, tableVars
<1>4. ASSUME NEW u \in Ids, admin_impersonate(b, u)
      PROVE  TypeOK'
  <2>1. PICK a \in require_admin(b) \ {u} :
          cookie' = [cookie EXCEPT ![b] = [sub |-> u, act |-> a]]
    BY <1>4 DEF admin_impersonate
  <2>2. cookie[b] \in Cookie /\ a = Acting(b)
    BY <2>1 DEF require_admin, TypeOK
  <2>3. a \in Ids
    BY <2>2 DEF Acting, Cookie
  <2>4. cookie' \in [Browsers -> Cookie \cup {None}]
    BY <2>1, <2>3 DEF TypeOK, Cookie
  <2> QED BY <1>4, <2>4 DEF admin_impersonate, TypeOK, tableVars, history
<1>5. ASSUME NEW u \in Ids, admin_toggle_block(b, u)
      PROVE  TypeOK'
  <2>1. user[u] \in Row
    BY <1>5 DEF admin_toggle_block, TypeOK
  <2>2. [user[u] EXCEPT !.blocked = ~user[u].blocked] \in Row
    BY <2>1 DEF Row
  <2>3. user' \in [Ids -> Row \cup {None}] /\ deeds' \in 0 .. MaxDeeds
    BY <1>5, <2>2 DEF admin_toggle_block, TypeOK
  <2> QED BY <1>5, <2>3 DEF admin_toggle_block, TypeOK, browserVars, history
<1>6. ASSUME NEW u \in Ids, admin_delete_user(b, u)
      PROVE  TypeOK'
  <2>1. user' \in [Ids -> Row \cup {None}] /\ trial' \subseteq Ids /\ deeds' \in 0 .. MaxDeeds
    BY <1>6 DEF admin_delete_user, TypeOK
  <2> QED BY <1>6, <2>1 DEF admin_delete_user, TypeOK, browserVars, history
<1> QED BY <1>1, <1>2, <1>3, <1>4, <1>5, <1>6 DEF Sessions

(* A code grows old without changing what it is. *)
LEMMA TimePassesTypes ==
  ASSUME TypeOK, TimePasses
  PROVE  /\ TypeOK'
         /\ DOMAIN codes' = DOMAIN codes
         /\ \A j \in DOMAIN codes : /\ codes'[j].email = codes[j].email
                                    /\ codes'[j].verified = codes[j].verified
<1>1. PICK i \in DOMAIN codes :
        codes' = [codes EXCEPT ![i] = [codes[i] EXCEPT !.cooling = FALSE,
                                                       !.expired = ~codes[i].cooling]]
  BY DEF TimePasses
<1>2. codes[i] \in Code
  BY DEF TypeOK
<1>3. [codes[i] EXCEPT !.cooling = FALSE, !.expired = ~codes[i].cooling] \in Code
  BY <1>2 DEF Code
<1>4. codes' \in Seq(Code) /\ Len(codes') = Len(codes) /\ DOMAIN codes' = DOMAIN codes
  BY <1>1, <1>3, CodeChanged
<1>5. TypeOK'
  BY <1>4 DEF TimePasses, TypeOK, browserVars, history
<1>6. \A j \in DOMAIN codes : codes'[j].email = codes[j].email /\ codes'[j].verified = codes[j].verified
  BY <1>1, <1>2 DEF Code, TypeOK
<1> QED BY <1>4, <1>5, <1>6

LEMMA InitHolds == Init => IInv
<1> SUFFICES ASSUME Init PROVE IInv
  OBVIOUS
<1> USE IdentityAssumption
<1>1. TypeOK
  <2>1. user \in [Ids -> Row \cup {None}]
    BY DEF Init, Row
  <2>2. codes \in Seq(Code) /\ Len(codes) <= MaxCodes /\ mailed \subseteq DOMAIN codes
    BY DEF Init
  <2>3. loc \in [Browsers -> Local]
    BY BlankIsLocal DEF Init
  <2>4. /\ token \in [Browsers -> Token \cup {None}] /\ cookie \in [Browsers -> Cookie \cup {None}]
        /\ pc \in [Browsers -> Steps] /\ person \in [Browsers -> Ids \cup {None}]
    BY DEF Init, Steps
  <2>5. /\ trial \subseteq Ids /\ used \subseteq Ids /\ cutOff \subseteq Ids
        /\ failures \in 0 .. MaxFailures /\ deeds \in 0 .. MaxDeeds
    BY DEF Init
  <2> QED BY <2>1, <2>2, <2>3, <2>4, <2>5 DEF TypeOK, Steps
<1>2. LocalInv /\ ProofInv
  BY DEF Init, LocalInv, ProofInv
<1>3. UsedInv
  BY DEF Init, UsedInv, Known
<1> QED BY <1>1, <1>2, <1>3 DEF IInv

-----------------------------------------------------------------------------
(* The inductive invariant.                                                *)

(* Codes are only added and verified, and mails only arrive. *)
CodesGrow ==
  /\ DOMAIN codes \subseteq DOMAIN codes' /\ mailed \subseteq mailed'
  /\ \A i \in DOMAIN codes : /\ codes'[i].email = codes[i].email
                             /\ codes[i].verified => codes'[i].verified

LEMMA CodesGrowInStep == IInv /\ [Next]_vars => CodesGrow
<1> SUFFICES ASSUME IInv, [Next]_vars PROVE CodesGrow
  OBVIOUS
<1>0. TypeOK /\ LocalInv
  BY DEF IInv
<1>1. CASE UNCHANGED <<codes, mailed>>
  BY <1>1 DEF CodesGrow
<1>2. CASE TimePasses
  BY <1>0, <1>2, TimePassesTypes DEF CodesGrow, TimePasses
<1>3. ASSUME NEW b \in Browsers, InsertCode(b) PROVE CodesGrow
  BY <1>0, <1>3 DEF InsertCode, CodesGrow, TypeOK
<1>4. ASSUME NEW b \in Browsers, SendMail(b) PROVE CodesGrow
  BY <1>0, <1>4 DEF SendMail, CodesGrow
<1>5. ASSUME NEW b \in Browsers, Judge(b) PROVE CodesGrow
  <2>1. loc[b].code \in DOMAIN codes /\ codes[loc[b].code] \in Code
    BY <1>0, <1>5 DEF Judge, LocalInv, TypeOK
  <2>2. \/ codes' = [codes EXCEPT ![loc[b].code] = [codes[loc[b].code] EXCEPT !.verified = TRUE]]
        \/ codes' = [codes EXCEPT ![loc[b].code] =
                       [codes[loc[b].code] EXCEPT !.attempts = loc[b].attempts + 1]]
    BY <1>5 DEF Judge
  <2>3. ASSUME NEW j \in DOMAIN codes
        PROVE  codes'[j].email = codes[j].email /\ (codes[j].verified => codes'[j].verified)
    BY <2>1, <2>2 DEF Code
  <2>4. DOMAIN codes \subseteq DOMAIN codes'
    BY <2>2
  <2>5. mailed \subseteq mailed'
    BY <1>5 DEF Judge
  <2> QED BY <2>3, <2>4, <2>5 DEF CodesGrow
<1>6. ASSUME NEW b \in Browsers, Next, ~InsertCode(b), ~SendMail(b), ~Judge(b),
             Codes(b) \/ Registration(b) \/ Sessions(b)
      PROVE  UNCHANGED <<codes, mailed>>
  BY <1>6, CodesCases DEF Registration, Sessions, ResendCode, ReadCode, SendCode, CreateUser, start_trial,
     Answer, Dies, forgot_password_reset, Complete, logout, stop_impersonation, login_submit,
     admin_impersonate, admin_toggle_block, admin_delete_user, tableVars
<1>7. CASE UNCHANGED vars
  BY <1>7 DEF vars, tableVars, CodesGrow
<1> QED BY <1>1, <1>2, <1>3, <1>4, <1>5, <1>6, <1>7 DEF Next

(* The address is proven after the step. *)
ProvenNext(e) == \E i \in mailed' : codes'[i].email = e /\ codes'[i].verified

(* What is proven of an address stays proven. *)
LEMMA ProvenStays ==
  ASSUME TypeOK, CodesGrow, NEW e, Proven(e)
  PROVE  ProvenNext(e)
BY DEF TypeOK, CodesGrow, Proven, ProvenNext

(* The steps of one browser, as to its own locals and the tokens. *)
LEMMA LocalStep == IInv /\ [Next]_vars => LocalInv'
<1> SUFFICES ASSUME IInv, [Next]_vars, NEW c \in Browsers
             PROVE  /\ pc'[c] \in {"mail", "judge"} => loc'[c].code \in DOMAIN codes'
                    /\ pc'[c] = "judge" => codes'[loc'[c].code].email = loc'[c].email
                    /\ pc'[c] \in {"trial", "answer"} => loc'[c].id \in Ids
  BY DEF LocalInv
<1>0. TypeOK /\ LocalInv /\ CodesGrow
  BY CodesGrowInStep DEF IInv
<1>1. CASE pc'[c] = pc[c] /\ loc'[c] = loc[c]
  BY <1>0, <1>1 DEF LocalInv, CodesGrow
<1>2. CASE pc'[c] = "idle"
  BY <1>2
<1>3. CASE pc'[c] \in {"insert", "create"}
  BY <1>3
<1>4. CASE InsertCode(c)
  <2>1. loc[c] \in Local /\ Len(codes) \in Nat /\ Len(codes') = Len(codes) + 1
    BY <1>0, <1>4 DEF InsertCode, TypeOK
  <2>2. loc'[c].code = Len(codes) + 1 /\ pc'[c] = "mail"
    BY <1>0, <1>4, <2>1 DEF InsertCode, Go, TypeOK, Local
  <2>3. DOMAIN codes' = 1 .. Len(codes) + 1
    BY <1>0, <1>4, <2>1 DEF InsertCode, TypeOK
  <2> QED BY <2>1, <2>2, <2>3
<1>5. ASSUME NEW p \in Purposes, ReadCode(c, p)
      PROVE  pc'[c] = "judge" /\ loc'[c].code \in DOMAIN codes'
               /\ codes'[loc'[c].code].email = loc'[c].email
  <2>1. PICK i \in OpenCodes(token[c].email, p) :
          Go(c, "judge", [Blank EXCEPT !.email = token[c].email, !.purpose = p, !.code = i,
                                       !.attempts = codes[i].attempts])
    BY <1>5 DEF ReadCode
  <2>2. i \in DOMAIN codes /\ codes[i].email = token[c].email
    BY <2>1 DEF OpenCodes
  <2>3. pc'[c] = "judge" /\ loc'[c].code = i /\ loc'[c].email = token[c].email
    BY <1>0, <2>1 DEF Go, TypeOK, Blank
  <2> QED BY <1>0, <2>2, <2>3 DEF CodesGrow
<1>6. CASE CreateUser(c) \/ start_trial(c)
  <2>1. loc[c] \in Local
    BY <1>0 DEF TypeOK
  <2>2. pc'[c] \in {"trial", "answer"} => loc'[c].id \in Ids
    <3>1. CASE start_trial(c)
      BY <1>0, <3>1 DEF start_trial, Go, Done, TypeOK, LocalInv
    <3>2. CASE CreateUser(c)
      <4>1. CASE Registered(loc[c].email)
        BY <1>0, <3>2, <4>1 DEF CreateUser, Done, Go, TypeOK
      <4>2. CASE ~Registered(loc[c].email)
        <5>1. PICK u \in Ids : Go(c, "trial", [loc[c] EXCEPT !.id = u])
          BY <3>2, <4>2 DEF CreateUser
        <5> QED BY <1>0, <2>1, <5>1 DEF Go, TypeOK, Local
      <4> QED BY <4>1, <4>2
    <3> QED BY <1>6, <3>1, <3>2
  <2>3. pc'[c] \in {"idle", "trial", "answer"}
    BY <1>0, <1>6 DEF CreateUser, start_trial, Go, Done, TypeOK
  <2> QED BY <2>2, <2>3
<1>7. ASSUME NEW b \in Browsers, Codes(b) \/ Registration(b) \/ Sessions(b)
      PROVE  \/ pc'[c] = pc[c] /\ loc'[c] = loc[c]
             \/ pc'[c] \in {"idle", "insert", "create"}
             \/ InsertCode(c) \/ CreateUser(c) \/ start_trial(c)
             \/ \E p \in Purposes : ReadCode(c, p)
  <2>1. CASE b # c
    <3>1. CASE Codes(b)
      BY <1>0, <2>1, <3>1, CodesOfOthers
    <3>2. CASE Registration(b)
      BY <1>0, <2>1, <3>2 DEF TypeOK, Registration, CreateUser, start_trial, Answer, Dies, forgot_password_reset, Complete,
         browserVars, Go, Done
    <3>3. CASE Sessions(b)
      BY <1>0, <2>1, <3>3 DEF TypeOK, Sessions, logout, stop_impersonation, login_submit, admin_impersonate, admin_toggle_block,
         admin_delete_user, browserVars, Go, Done
    <3> QED BY <1>7, <3>1, <3>2, <3>3
  <2>2. CASE b = c
    BY <1>0, <1>7, <2>2, CodesCases DEF TypeOK, Registration, Sessions, SendMail, Judge, ResendCode,
       SendCode, Answer, Dies, forgot_password_reset, Complete, logout,
       stop_impersonation, login_submit, admin_impersonate, admin_toggle_block, admin_delete_user,
       browserVars, Go, Done
  <2> QED BY <2>1, <2>2
<1>8. CASE TimePasses \/ UNCHANGED vars
  BY <1>1, <1>8 DEF TimePasses, vars, browserVars
<1> QED BY <1>1, <1>2, <1>3, <1>4, <1>5, <1>6, <1>7, <1>8 DEF Next

LEMMA ProofStep == IInv /\ [Next]_vars => ProofInv'
<1> SUFFICES ASSUME IInv, [Next]_vars, Smtp, NEW c \in Browsers
             PROVE  /\ token'[c] # None /\ token'[c].verified => ProvenNext(token'[c].email)
                    /\ pc'[c] = "create" => ProvenNext(loc'[c].email)
  BY DEF ProofInv, Proven, ProvenNext
<1>0. TypeOK /\ LocalInv /\ ProofInv /\ CodesGrow
  BY CodesGrowInStep DEF IInv
<1>1. token[c] # None /\ token[c].verified => ProvenNext(token[c].email)
  <2> HAVE token[c] # None /\ token[c].verified
  <2>1. Proven(token[c].email)
    BY <1>0 DEF ProofInv
  <2> QED BY <1>0, <2>1, ProvenStays
<1>2. pc[c] = "create" => ProvenNext(loc[c].email)
  <2> HAVE pc[c] = "create"
  <2>1. Proven(loc[c].email)
    BY <1>0 DEF ProofInv
  <2> QED BY <1>0, <2>1, ProvenStays
<1>3. token'[c] # None /\ token'[c].verified => ProvenNext(token'[c].email)
  <2>1. CASE token'[c] = token[c]
    BY <1>1, <2>1
  <2>2. CASE Judge(c) /\ token'[c] # token[c]
    <3>1. /\ loc[c].code \in mailed /\ mailed' = mailed
          /\ codes' = [codes EXCEPT ![loc[c].code].verified = TRUE]
          /\ token'[c] = [email |-> loc[c].email, purpose |-> loc[c].purpose, verified |-> TRUE]
      BY <1>0, <2>2 DEF Judge, Screen, TypeOK
    <3>2. loc[c].code \in DOMAIN codes /\ codes[loc[c].code].email = loc[c].email
      BY <1>0, <2>2 DEF Judge, LocalInv
    <3>3. codes[loc[c].code] \in Code
      BY <1>0, <3>2 DEF TypeOK
    <3>4. codes'[loc[c].code].email = loc[c].email /\ codes'[loc[c].code].verified
      BY <3>1, <3>2, <3>3 DEF Code
    <3> QED BY <3>1, <3>4 DEF ProvenNext
  <2>3. ASSUME NEW b \in Browsers, Codes(b) \/ Registration(b) \/ Sessions(b)
        PROVE  \/ token'[c] = token[c] \/ Judge(c) \/ token'[c] = None
               \/ token'[c].verified = FALSE
    <3>1. CASE b # c
      <4>1. CASE Codes(b)
        BY <1>0, <3>1, <4>1, CodesOfOthers
      <4>2. CASE Registration(b)
        BY <1>0, <3>1, <4>2 DEF TypeOK, Registration, CreateUser, start_trial, Answer, Dies, forgot_password_reset, Complete,
           browserVars, Screen
      <4>3. CASE Sessions(b)
        BY <1>0, <3>1, <4>3 DEF TypeOK, Sessions, logout, stop_impersonation, login_submit, admin_impersonate, admin_toggle_block,
           admin_delete_user, browserVars, Screen
      <4> QED BY <2>3, <4>1, <4>2, <4>3
    <3>2. CASE b = c
      <4>1. CASE SendMail(b)
        BY <1>0, <3>2, <4>1 DEF TypeOK, SendMail, Screen
      <4>2. ASSUME NEW p \in Purposes, NEW e \in Applicants, SendCode(b, e, p)
            PROVE  token'[c] = token[c] \/ token'[c].verified = FALSE
        BY <1>0, <3>2, <4>2 DEF TypeOK, SendCode, Screen
      <4>3. CASE forgot_password_reset(b)
        BY <1>0, <3>2, <4>3 DEF TypeOK, forgot_password_reset, Screen
      <4>4. CASE UNCHANGED token
        BY <4>4
      <4>5. \/ SendMail(b) \/ Judge(b) \/ forgot_password_reset(b) \/ UNCHANGED token
            \/ \E p \in Purposes, e \in Applicants : SendCode(b, e, p)
        BY <2>3, CodesCases DEF Registration, Sessions, InsertCode, ResendCode, ReadCode, CreateUser,
           start_trial, Answer, Dies, Complete, logout, stop_impersonation, login_submit,
           admin_impersonate, admin_toggle_block, admin_delete_user, browserVars
      <4> QED BY <3>2, <4>1, <4>2, <4>3, <4>4, <4>5
    <3> QED BY <3>1, <3>2
  <2>4. CASE TimePasses \/ UNCHANGED vars
    BY <1>1, <2>4 DEF TimePasses, vars, browserVars
  <2> QED BY <2>1, <2>2, <2>3, <2>4 DEF Next
<1>4. pc'[c] = "create" => ProvenNext(loc'[c].email)
  <2>1. CASE pc'[c] = pc[c] /\ loc'[c] = loc[c]
    BY <1>2, <2>1
  <2>2. ASSUME NEW e \in Emails, NEW api \in BOOLEAN, Complete(c, e, api)
        PROVE  ProvenNext(loc'[c].email)
    <3>1. token[c] # None /\ token[c].verified /\ token[c].email = e
      BY <2>2 DEF Complete, Verified
    <3>2. loc'[c].email = e
      BY <1>0, <2>2 DEF Complete, Go, Blank, TypeOK
    <3> QED BY <1>1, <3>1, <3>2
  <2>3. ASSUME NEW b \in Browsers, Codes(b) \/ Registration(b) \/ Sessions(b)
        PROVE  \/ pc'[c] = pc[c] /\ loc'[c] = loc[c]
               \/ pc'[c] # "create"
               \/ \E e \in Emails, api \in BOOLEAN : Complete(c, e, api)
    <3>1. CASE b # c
      <4>1. CASE Codes(b)
        BY <1>0, <3>1, <4>1, CodesOfOthers
      <4>2. CASE Registration(b)
        BY <1>0, <3>1, <4>2 DEF TypeOK, Registration, CreateUser, start_trial, Answer, Dies, forgot_password_reset, Complete,
           browserVars, Go, Done
      <4>3. CASE Sessions(b)
        BY <1>0, <3>1, <4>3 DEF TypeOK, Sessions, logout, stop_impersonation, login_submit, admin_impersonate, admin_toggle_block,
           admin_delete_user, browserVars, Go, Done
      <4> QED BY <2>3, <4>1, <4>2, <4>3
    <3>2. CASE b = c
      BY <1>0, <2>3, <3>2, CodesCases DEF TypeOK, Registration, Sessions, InsertCode, SendMail, Judge,
         ResendCode, ReadCode, SendCode, CreateUser, start_trial, Answer, Dies, forgot_password_reset,
         logout, stop_impersonation, login_submit, admin_impersonate, admin_toggle_block,
         admin_delete_user, browserVars, Go, Done
    <3> QED BY <3>1, <3>2
  <2>4. CASE TimePasses \/ UNCHANGED vars
    BY <2>1, <2>4 DEF TimePasses, vars, browserVars
  <2> QED BY <2>1, <2>2, <2>3, <2>4 DEF Next
<1> QED BY <1>3, <1>4

(* How a step may change the users: one is added under a new id and an address nobody    *)
(* has, one is blocked or unblocked, or one is deleted.                                   *)
LEMMA UsersStep ==
  ASSUME IInv, [Next]_vars
  PROVE  \/ UNCHANGED <<user, used>>
         \/ \E b \in Browsers, u \in Ids \ used :
              /\ CreateUser(b) /\ ~Registered(loc[b].email)
              /\ user' = [user EXCEPT ![u] = [email |-> loc[b].email, blocked |-> FALSE]]
              /\ used' = used \cup {u}
              /\ pc'[b] = "trial" /\ loc'[b].id = u
         \/ \E b \in Browsers, u \in Ids : admin_toggle_block(b, u) \/ admin_delete_user(b, u)
<1>0. TypeOK
  BY DEF IInv
<1>1. ASSUME NEW b \in Browsers, CreateUser(b), ~Registered(loc[b].email)
      PROVE  \E u \in Ids \ used :
               /\ user' = [user EXCEPT ![u] = [email |-> loc[b].email, blocked |-> FALSE]]
               /\ used' = used \cup {u}
               /\ pc'[b] = "trial" /\ loc'[b].id = u
  <2>1. PICK u \in Ids \ used :
          /\ user' = [user EXCEPT ![u] = [email |-> loc[b].email, blocked |-> FALSE]]
          /\ used' = used \cup {u}
          /\ Go(b, "trial", [loc[b] EXCEPT !.id = u])
    BY <1>1 DEF CreateUser
  <2>2. pc'[b] = "trial" /\ loc'[b].id = u
    BY <1>0, <2>1 DEF Go, TypeOK, Local
  <2> QED BY <2>1, <2>2
<1>2. ASSUME NEW b \in Browsers, Codes(b) \/ Registration(b) \/ Sessions(b)
      PROVE  \/ UNCHANGED <<user, used>>
             \/ CreateUser(b) /\ ~Registered(loc[b].email)
             \/ \E u \in Ids : admin_toggle_block(b, u) \/ admin_delete_user(b, u)
  BY <1>2, CodesCases DEF Registration, Sessions, InsertCode, SendMail, Judge, ResendCode, ReadCode,
     SendCode, CreateUser, start_trial, Answer, Dies, forgot_password_reset, Complete, logout,
     stop_impersonation, login_submit, admin_impersonate, tableVars, history
<1>3. CASE TimePasses \/ UNCHANGED vars
  BY <1>3 DEF TimePasses, vars, tableVars, history
<1> QED BY <1>1, <1>2, <1>3 DEF Next

LEMMA UsedStep == IInv /\ [Next]_vars => UsedInv'
<1> SUFFICES ASSUME IInv, [Next]_vars, NEW u \in Ids, user'[u] # None
             PROVE  u \in used'
  BY DEF UsedInv, Known
<1>0. TypeOK /\ UsedInv
  BY DEF IInv
<1>1. CASE UNCHANGED <<user, used>>
  BY <1>0, <1>1 DEF UsedInv, Known
<1>2. ASSUME NEW v \in Ids, NEW e, user' = [user EXCEPT ![v] = e], used' = used \cup {v}
      PROVE  u \in used'
  BY <1>0, <1>2 DEF UsedInv, Known, TypeOK
<1>3. ASSUME NEW b \in Browsers, NEW v \in Ids, admin_toggle_block(b, v) \/ admin_delete_user(b, v)
      PROVE  u \in used'
  <2>1. used' = used /\ user[v] # None /\ \A w \in Ids \ {v} : user'[w] = user[w]
    BY <1>0, <1>3 DEF admin_toggle_block, admin_delete_user, history, TypeOK
  <2> QED BY <1>0, <2>1 DEF UsedInv, Known
<1> QED BY <1>1, <1>2, <1>3, UsersStep

LEMMA Inductive == IInv /\ [Next]_vars => IInv'
<1> SUFFICES ASSUME IInv, [Next]_vars PROVE TypeOK'
  BY LocalStep, ProofStep, UsedStep DEF IInv
<1>1. TypeOK /\ LocalInv
  BY DEF IInv
<1>2. CASE UNCHANGED vars
  BY <1>1, <1>2 DEF vars, TypeOK, tableVars, browserVars, history
<1> QED BY <1>1, <1>2, CodesTypes, RegistrationTypes, SessionsTypes, TimePassesTypes DEF Next

LEMMA Invariance == Spec => []IInv
BY InitHolds, Inductive, PTL DEF Spec

(* Every variable of Identity keeps its type. *)
THEOREM TypeCorrect == Spec => []TypeOK
<1>1. IInv => TypeOK
  BY DEF IInv
<1> QED BY <1>1, Invariance, PTL

-----------------------------------------------------------------------------
(* The users.                                                              *)

(* What a step makes of a user who is there after it: somebody with the address of    *)
(* before, or the one who has just been made.                                           *)
LEMMA UserStep ==
  ASSUME IInv, [Next]_vars, NEW u \in Ids, user'[u] # None
  PROVE  \/ user[u] # None /\ user'[u].email = user[u].email
         \/ \E b \in Browsers :
              /\ CreateUser(b) /\ ~Registered(loc[b].email) /\ u \notin used
              /\ user' = [user EXCEPT ![u] = [email |-> loc[b].email, blocked |-> FALSE]]
              /\ pc'[b] = "trial" /\ loc'[b].id = u
<1>0. TypeOK
  BY DEF IInv
<1>1. CASE UNCHANGED <<user, used>>
  BY <1>1
<1>2. ASSUME NEW b \in Browsers, NEW v \in Ids \ used,
             CreateUser(b), ~Registered(loc[b].email),
             user' = [user EXCEPT ![v] = [email |-> loc[b].email, blocked |-> FALSE]],
             pc'[b] = "trial", loc'[b].id = v
      PROVE  \/ user[u] # None /\ user'[u].email = user[u].email
             \/ /\ CreateUser(b) /\ ~Registered(loc[b].email) /\ u \notin used
                /\ user' = [user EXCEPT ![u] = [email |-> loc[b].email, blocked |-> FALSE]]
                /\ pc'[b] = "trial" /\ loc'[b].id = u
  <2>1. CASE u = v
    BY <1>2, <2>1
  <2>2. CASE u # v
    <3>1. user'[u] = user[u]
      BY <1>0, <1>2, <2>2 DEF TypeOK
    <3> QED BY <3>1
  <2> QED BY <2>1, <2>2
<1>3. ASSUME NEW b \in Browsers, NEW v \in Ids, admin_toggle_block(b, v)
      PROVE  user[u] # None /\ user'[u].email = user[u].email
  <2>1. user[v] \in Row
    BY <1>0, <1>3 DEF admin_toggle_block, TypeOK
  <2>2. CASE u = v
    BY <1>0, <1>3, <2>1, <2>2 DEF admin_toggle_block, TypeOK, Row
  <2>3. CASE u # v
    BY <1>0, <1>3, <2>3 DEF admin_toggle_block, TypeOK
  <2> QED BY <2>2, <2>3
<1>4. ASSUME NEW b \in Browsers, NEW v \in Ids, admin_delete_user(b, v)
      PROVE  user[u] # None /\ user'[u].email = user[u].email
  BY <1>0, <1>4 DEF admin_delete_user, TypeOK
<1> QED BY <1>1, <1>2, <1>3, <1>4, UsersStep

(* The address of every user but the administrator is proven. *)
VerifiedInv == Smtp => \A u \in Known : user[u].email # Admin => Proven(user[u].email)

LEMMA VerifiedStep == IInv /\ VerifiedInv /\ [Next]_vars => VerifiedInv'
<1> SUFFICES ASSUME IInv, VerifiedInv, [Next]_vars, Smtp,
                    NEW u \in Ids, user'[u] # None, user'[u].email # Admin
             PROVE  ProvenNext(user'[u].email)
  BY DEF VerifiedInv, Known, Proven, ProvenNext
<1>0. TypeOK /\ ProofInv /\ CodesGrow
  BY CodesGrowInStep DEF IInv
<1>1. CASE user[u] # None /\ user'[u].email = user[u].email
  <2>1. Proven(user[u].email)
    BY <1>1 DEF VerifiedInv, Known
  <2> QED BY <1>0, <1>1, <2>1, ProvenStays
<1>2. ASSUME NEW b \in Browsers, CreateUser(b),
             user' = [user EXCEPT ![u] = [email |-> loc[b].email, blocked |-> FALSE]]
      PROVE  ProvenNext(user'[u].email)
  <2>1. Proven(loc[b].email)
    BY <1>0, <1>2 DEF CreateUser, ProofInv
  <2>2. user'[u].email = loc[b].email
    BY <1>0, <1>2 DEF TypeOK
  <2> QED BY <1>0, <2>1, <2>2, ProvenStays
<1> QED BY <1>1, <1>2, UserStep

(* With mail configured, every user but the administrator has typed a code that was sent *)
(* to the address: neither the token of another purpose, nor one that outlives its code,  *)
(* nor the JSON interface registers an address that is somebody else's.                   *)
THEOREM RegisteredIsVerifiedHolds == Spec => []RegisteredIsVerified
<1>1. Init => VerifiedInv
  BY DEF Init, VerifiedInv, Known
<1>2. IInv /\ VerifiedInv /\ [Next]_vars => VerifiedInv'
  BY VerifiedStep
<1>3. IInv /\ VerifiedInv => RegisteredIsVerified
  BY DEF IInv, TypeOK, VerifiedInv, RegisteredIsVerified, Known, Proven
<1> QED BY <1>1, <1>2, <1>3, Invariance, PTL DEF Spec

(* An address is one user's, and a user without a subscription is one whose registration *)
(* is at its last step, or died there.                                                    *)
LEMMA OneUserPerAddress ==
  ASSUME IInv, RegistrationIsWhole, [Next]_vars,
         NEW u \in Ids, NEW v \in Ids, user'[u] # None, user'[v] # None,
         user'[u].email = user'[v].email
  PROVE  u = v
<1>0. TypeOK
  BY DEF IInv
<1>1. ASSUME NEW x \in Ids, NEW y \in Ids, NEW b \in Browsers, ~Registered(loc[b].email),
             user' = [user EXCEPT ![x] = [email |-> loc[b].email, blocked |-> FALSE]],
             user[y] # None, user'[y].email = user[y].email
      PROVE  x = y \/ user'[x].email # user'[y].email
  BY <1>0, <1>1 DEF TypeOK, Registered, Known
<1>2. CASE /\ user[u] # None /\ user'[u].email = user[u].email
           /\ user[v] # None /\ user'[v].email = user[v].email
  <2>1. u \in Known /\ v \in Known /\ user[u].email = user[v].email
    BY <1>2 DEF Known
  <2>2. \A x, y \in Known : user[x].email = user[y].email => x = y
    BY DEF RegistrationIsWhole
  <2> QED BY <2>1, <2>2
<1>3. ASSUME NEW b \in Browsers, NEW c \in Browsers,
             user' = [user EXCEPT ![u] = [email |-> loc[b].email, blocked |-> FALSE]], u \notin used,
             user' = [user EXCEPT ![v] = [email |-> loc[c].email, blocked |-> FALSE]], v \notin used
      PROVE  u = v
  <2>1. user[u] = None /\ user[v] = None
    BY <1>3 DEF IInv, UsedInv, Known
  <2> QED BY <1>0, <1>3, <2>1 DEF TypeOK
<1> QED BY <1>1, <1>2, <1>3, UserStep

LEMMA WholeStep ==
  ASSUME IInv, RegistrationIsWhole, [Next]_vars, NEW u \in Ids, user'[u] # None
  PROVE  u \in trial' \/ u \in cutOff' \/ OnTheWay(u)'
<1>0. TypeOK /\ LocalInv
  BY DEF IInv
<1>1. CASE user[u] # None
  <2>1. u \in trial \/ u \in cutOff \/ OnTheWay(u)
    BY <1>1 DEF RegistrationIsWhole, OnTheWay, Known
  <2>2. ASSUME u \in trial PROVE u \in trial'
    <3>1. ASSUME NEW b \in Browsers, Codes(b) \/ Registration(b) \/ Sessions(b)
          PROVE  trial \subseteq trial' \/ \E v \in Ids : admin_delete_user(b, v)
      BY <3>1, CodesCases DEF Registration, Sessions, InsertCode, SendMail, Judge, ResendCode, ReadCode,
         SendCode, CreateUser, start_trial, Answer, Dies, forgot_password_reset, Complete, logout,
         stop_impersonation, login_submit, admin_impersonate, admin_toggle_block, tableVars
    <3>2. ASSUME NEW b \in Browsers, NEW v \in Ids, admin_delete_user(b, v)
          PROVE  u \in trial'
      BY <1>0, <2>2, <3>2 DEF admin_delete_user, TypeOK
    <3>3. CASE TimePasses \/ UNCHANGED vars
      BY <2>2, <3>3 DEF TimePasses, vars, tableVars
    <3> QED BY <2>2, <3>1, <3>2, <3>3 DEF Next
  <2>3. ASSUME u \in cutOff PROVE u \in cutOff'
    <3>1. ASSUME NEW b \in Browsers, Codes(b) \/ Registration(b) \/ Sessions(b)
          PROVE  cutOff \subseteq cutOff'
      BY <3>1, CodesCases DEF Registration, Sessions, InsertCode, SendMail, Judge, ResendCode, ReadCode,
         SendCode, CreateUser, start_trial, Answer, Dies, forgot_password_reset, Complete, logout,
         stop_impersonation, login_submit, admin_impersonate, admin_toggle_block, admin_delete_user, history
    <3>2. CASE TimePasses \/ UNCHANGED vars
      BY <2>3, <3>2 DEF TimePasses, vars, history
    <3> QED BY <2>3, <3>1, <3>2 DEF Next
  <2>4. ASSUME NEW b \in Browsers, pc[b] = "trial", loc[b].id = u
        PROVE  u \in trial' \/ u \in cutOff' \/ (pc'[b] = "trial" /\ loc'[b].id = u)
    <3>1. ASSUME NEW c \in Browsers, Codes(c) \/ Registration(c) \/ Sessions(c)
          PROVE  \/ pc'[b] = pc[b] /\ loc'[b] = loc[b]
                 \/ c = b /\ (start_trial(b) \/ Dies(b))
      <4>1. CASE c # b
        <5>1. CASE Codes(c)
          <6>1. UNCHANGED <<pc, loc>> \/ \E step, l : Go(c, step, l)
            BY <5>1, CodesCases DEF InsertCode, SendMail, Judge, ResendCode, ReadCode, SendCode, Done
          <6> QED BY <1>0, <4>1, <6>1 DEF TypeOK, Go
        <5>2. CASE Registration(c) \/ Sessions(c)
          BY <1>0, <4>1, <5>2 DEF TypeOK, Registration, Sessions, CreateUser, start_trial, Answer, Dies,
             forgot_password_reset, Complete, logout, stop_impersonation, login_submit, admin_impersonate,
             admin_toggle_block, admin_delete_user, browserVars, Go, Done
        <5> QED BY <3>1, <5>1, <5>2
      <4>2. CASE c = b
        BY <2>4, <3>1, <4>2, CodesCases DEF Registration, Sessions, InsertCode, SendMail, Judge,
           ResendCode, ReadCode, SendCode, CreateUser, Answer, forgot_password_reset,
           Complete, logout, stop_impersonation, login_submit, admin_impersonate, admin_toggle_block,
           admin_delete_user, browserVars
      <4> QED BY <4>1, <4>2
    <3>2. CASE start_trial(b)
      BY <1>1, <2>4, <3>2 DEF start_trial
    <3>3. CASE Dies(b)
      BY <2>4, <3>3 DEF Dies
    <3>4. CASE TimePasses \/ UNCHANGED vars
      BY <2>4, <3>4 DEF TimePasses, vars, browserVars
    <3> QED BY <2>4, <3>1, <3>2, <3>3, <3>4 DEF Next
  <2> QED BY <2>1, <2>2, <2>3, <2>4 DEF OnTheWay
<1>2. CASE user[u] = None
  <2>1. PICK b \in Browsers : pc'[b] = "trial" /\ loc'[b].id = u
    BY <1>2, UserStep
  <2> QED BY <2>1 DEF OnTheWay
<1> QED BY <1>1, <1>2

(* However registrations overlap, an address is one user's; and a user has a subscription *)
(* row, or its registration is on its way to it, or its process died right before it.     *)
THEOREM RegistrationIsWholeHolds == Spec => []RegistrationIsWhole
<1>1. Init => RegistrationIsWhole
  BY DEF Init, RegistrationIsWhole, Known
<1>2. IInv /\ RegistrationIsWhole /\ [Next]_vars => RegistrationIsWhole'
  <2> SUFFICES ASSUME IInv, RegistrationIsWhole, [Next]_vars PROVE RegistrationIsWhole'
    OBVIOUS
  <2>1. \A u, v \in Known' : user'[u].email = user'[v].email => u = v
    BY OneUserPerAddress DEF Known
  <2>2. \A u \in Known' : u \in trial' \/ u \in cutOff' \/ OnTheWay(u)'
    BY WholeStep DEF Known
  <2> QED BY <2>1, <2>2 DEF RegistrationIsWhole, OnTheWay, Known
<1> QED BY <1>1, <1>2, Invariance, PTL DEF Spec

-----------------------------------------------------------------------------
(* The administrator.                                                      *)

(* The person at a browser is the one its requests act for. *)
CookieInv == \A b \in Browsers : cookie[b] # None => Acting(b) = person[b]

LEMMA CookieStep == IInv /\ CookieInv /\ [Next]_vars => CookieInv'
<1> SUFFICES ASSUME IInv, CookieInv, [Next]_vars, NEW c \in Browsers, cookie'[c] # None
             PROVE  (IF cookie'[c].act # None THEN cookie'[c].act ELSE cookie'[c].sub) = person'[c]
  BY DEF CookieInv, Acting
<1>0. TypeOK /\ LocalInv
  BY DEF IInv
<1> USE IdentityAssumption
<1>1. CASE cookie'[c] = cookie[c] /\ person'[c] = person[c]
  BY <1>1 DEF CookieInv, Acting
<1>2. ASSUME Answer(c), ~loc[c].api
      PROVE  cookie'[c] = [sub |-> loc[c].id, act |-> None] /\ person'[c] = loc[c].id
  BY <1>0, <1>2 DEF Answer, TypeOK
<1>3. ASSUME NEW e \in Emails, login_submit(c, e)
      PROVE  cookie'[c] = [sub |-> UserOf(e), act |-> None] /\ person'[c] = UserOf(e)
  BY <1>0, <1>3 DEF login_submit, TypeOK
<1>4. ASSUME stop_impersonation(c)
      PROVE  /\ cookie[c] # None /\ cookie[c].act # None
             /\ cookie'[c] = [sub |-> cookie[c].act, act |-> None] /\ person'[c] = person[c]
  BY <1>0, <1>4 DEF stop_impersonation, Impersonating, TypeOK
<1>5. ASSUME NEW u \in Ids, admin_impersonate(c, u)
      PROVE  /\ cookie[c] # None /\ Acting(c) # None
             /\ cookie'[c] = [sub |-> u, act |-> Acting(c)] /\ person'[c] = person[c]
  <2>1. PICK a \in require_admin(c) \ {u} :
          cookie' = [cookie EXCEPT ![c] = [sub |-> u, act |-> a]]
    BY <1>5 DEF admin_impersonate
  <2>2. cookie[c] \in Cookie /\ a = Acting(c)
    BY <1>0, <2>1 DEF require_admin, TypeOK
  <2>3. a \in Ids
    BY <2>2 DEF Acting, Cookie
  <2>4. cookie[c] # None /\ Acting(c) # None
    BY <2>1, <2>2, <2>3 DEF require_admin
  <2>5. cookie'[c] = [sub |-> u, act |-> Acting(c)]
    BY <1>0, <2>1, <2>2 DEF TypeOK
  <2>6. person'[c] = person[c]
    BY <1>5 DEF admin_impersonate, history
  <2> QED BY <2>4, <2>5, <2>6
<1>6. ASSUME NEW b \in Browsers, Codes(b) \/ Registration(b) \/ Sessions(b)
      PROVE  \/ cookie'[c] = cookie[c] /\ person'[c] = person[c]
             \/ (Answer(c) /\ ~loc[c].api) \/ logout(c) \/ stop_impersonation(c)
             \/ \E e \in Emails : login_submit(c, e)
             \/ \E u \in Ids : admin_impersonate(c, u)
  <2>1. CASE b # c
    BY <1>0, <1>6, <2>1, CodesCases DEF TypeOK, Registration, Sessions, InsertCode, SendMail, Judge, ResendCode,
       ReadCode, SendCode, CreateUser, start_trial, Answer, Dies, forgot_password_reset, Complete, logout,
       stop_impersonation, login_submit, admin_impersonate, admin_toggle_block, admin_delete_user,
       browserVars, history
  <2>2. CASE b = c
    BY <1>0, <1>6, <2>2, CodesCases DEF TypeOK, Registration, Sessions, InsertCode, SendMail, Judge, ResendCode,
       ReadCode, SendCode, CreateUser, start_trial, Answer, Dies, forgot_password_reset, Complete,
       admin_toggle_block, admin_delete_user, browserVars, history
  <2> QED BY <2>1, <2>2
<1>7. ~logout(c)
  BY <1>0 DEF logout, TypeOK
<1>8. CASE TimePasses \/ UNCHANGED vars
  BY <1>1, <1>8 DEF TimePasses, vars, browserVars, history
<1>9. CASE stop_impersonation(c)
  BY <1>4, <1>9 DEF CookieInv, Acting
<1>10. CASE \E u \in Ids : admin_impersonate(c, u)
  <2>1. PICK u \in Ids : admin_impersonate(c, u)
    BY <1>10
  <2>2. /\ cookie[c] # None /\ Acting(c) # None
        /\ cookie'[c] = [sub |-> u, act |-> Acting(c)] /\ person'[c] = person[c]
    BY <1>5, <2>1
  <2>3. Acting(c) = person[c]
    BY <2>2 DEF CookieInv
  <2> QED BY <2>2, <2>3
<1>11. CASE \E e \in Emails : login_submit(c, e)
  <2>1. PICK e \in Emails : login_submit(c, e)
    BY <1>11
  <2>2. cookie'[c] = [sub |-> UserOf(e), act |-> None] /\ person'[c] = UserOf(e)
    BY <1>3, <2>1
  <2>3. cookie'[c].act = None /\ cookie'[c].sub = person'[c]
    BY <2>2
  <2> QED BY <2>3
<1>12. CASE Answer(c) /\ ~loc[c].api
  BY <1>2, <1>12
<1> QED BY <1>1, <1>6, <1>7, <1>8, <1>9, <1>10, <1>11, <1>12 DEF Next

(* There is an administrator who is not blocked. *)
AdminInv == \E u \in Known : user[u].email = Admin /\ ~user[u].blocked

LEMMA AdminStep == IInv /\ AdminInv /\ [Next]_vars => AdminInv'
<1> SUFFICES ASSUME IInv, AdminInv, [Next]_vars
             PROVE  \E u \in Ids : user'[u] # None /\ user'[u].email = Admin /\ ~user'[u].blocked
  BY DEF AdminInv, Known
<1>0. TypeOK /\ UsedInv
  BY DEF IInv
<1>1. PICK a \in Ids : user[a] # None /\ user[a].email = Admin /\ ~user[a].blocked
  BY DEF AdminInv, Known
<1>2. CASE UNCHANGED <<user, used>>
  BY <1>1, <1>2
<1>3. ASSUME NEW u \in Ids \ used, NEW row, user' = [user EXCEPT ![u] = row]
      PROVE  user'[a] = user[a]
  <2>1. a # u
    BY <1>0, <1>1 DEF UsedInv, Known
  <2> QED BY <1>0, <1>3, <2>1 DEF TypeOK
<1>4. ASSUME NEW b \in Browsers, NEW u \in Ids, admin_toggle_block(b, u) \/ admin_delete_user(b, u)
      PROVE  \E w \in Ids : user'[w] # None /\ user'[w].email = Admin /\ ~user'[w].blocked
  <2>1. PICK w : w \in require_admin(b) /\ w # u
    BY <1>4 DEF admin_toggle_block, admin_delete_user
  <2>2. cookie[b] \in Cookie /\ w = Acting(b)
    BY <1>0, <2>1 DEF require_admin, TypeOK
  <2>3. w \in Ids \cup {None} /\ user[w] # None /\ ~user[w].blocked /\ user[w].email = Admin
    BY <2>1, <2>2 DEF require_admin, Acting, Cookie
  <2>4. w \in Ids
    BY <2>2 DEF Acting, Cookie
  <2>5. user'[w] = user[w]
    BY <1>0, <1>4, <2>1, <2>4 DEF admin_toggle_block, admin_delete_user, TypeOK
  <2> QED BY <2>3, <2>4, <2>5
<1> QED BY <1>1, <1>2, <1>3, <1>4, UsersStep

(* Whoever is entered as, the person at the browser stays the one who logged in, and no   *)
(* request shuts the last administrator out.                                              *)
THEOREM AdminKeepsControlHolds == Spec => []AdminKeepsControl
<1>1. Init => CookieInv /\ AdminInv
  <2> SUFFICES ASSUME Init PROVE AdminInv
    BY DEF Init, CookieInv
  <2>1. user[AdminId] = [email |-> Admin, blocked |-> FALSE] /\ AdminId \in Ids
    BY IdentityAssumption DEF Init
  <2>2. user[AdminId] # None
    <3>1. [email |-> Admin, blocked |-> FALSE] \in Row
      BY IdentityAssumption DEF Row
    <3>2. None \notin Row
      BY IdentityAssumption
    <3> QED BY <2>1, <3>1, <3>2
  <2> QED BY <2>1, <2>2 DEF AdminInv, Known
<1>2. IInv /\ CookieInv /\ AdminInv /\ [Next]_vars => CookieInv' /\ AdminInv'
  BY CookieStep, AdminStep
<1>3. CookieInv /\ AdminInv => AdminKeepsControl
  BY DEF CookieInv, AdminInv, AdminKeepsControl
<1> QED BY <1>1, <1>2, <1>3, Invariance, PTL DEF Spec

=============================================================================
