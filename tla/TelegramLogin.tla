--------------------------- MODULE TelegramLogin ---------------------------
(***************************************************************************)
(* The QR login of a Telegram account: the registry _qr_sessions in the    *)
(* memory of the web process, the task that waits for the scan, and the    *)
(* four handlers of the wizard.  A handler may be overtaken wherever it    *)
(* awaits Telegram or the database.                                        *)
(***************************************************************************)
EXTENDS Integers, FiniteSets, Sequences

CONSTANTS
  Users,
  Logins,          \* sessions of the registry, each started once
  Requests,        \* handlers that may run at the same time
  QR_SESSION_TTL,
  MaxRefreshes,    \* bound on the new codes of a session
  MaxRestarts,     \* bound on restarts of the web process
  Nobody

ASSUME LoginAssumption ==
  /\ QR_SESSION_TTL \in Nat /\ MaxRefreshes \in Nat /\ MaxRestarts \in Nat /\ Nobody \notin Users

VARIABLES
  login,           \* login[s]: the QRAuthState of s
  request,         \* request[r]: the handler, at an await
  accounts,        \* the rows of type "tg_user", in the order of their commits
  scanned,         \* history: the logins Telegram has authorised
  restarts

loginVars == <<login, request, accounts, scanned, restarts>>

QRAuthState ==
  [user : Users \cup {Nobody}, status : {"waiting", "qr_expired", "needs_2fa", "success", "error"},
   age : 0 .. QR_SESSION_TTL + 1, listed : BOOLEAN, waiter : BOOLEAN, codes : 0 .. MaxRefreshes]

Idle == [step |-> "idle"]

Handler ==
  {Idle} \cup [step : {"starting"}, user : Users]
         \cup [step : {"recreating", "signing_in", "disconnecting"}, user : Users, login : Logins]

LoginTypeOK ==
  /\ login \in [Logins -> QRAuthState]
  /\ request \in [Requests -> Handler]
  /\ accounts \in Seq([user : Users, login : Logins])
  /\ scanned \subseteq Logins /\ restarts \in 0 .. MaxRestarts

Unused == [user |-> Nobody, status |-> "waiting", age |-> 0, listed |-> FALSE, waiter |-> FALSE,
           codes |-> 0]

LoginInit ==
  /\ login = [s \in Logins |-> Unused]
  /\ request = [r \in Requests |-> Idle]
  /\ accounts = <<>> /\ scanned = {} /\ restarts = 0

SetLogin(s, v) == login' = [login EXCEPT ![s] = v]
SetRequest(r, v) == request' = [request EXCEPT ![r] = v]
AtStep(r, step) == request[r].step = step

\* Out of the registry, its waiting task cancelled; handlers keep their reference.
Dropped(state) == [state EXCEPT !.listed = FALSE, !.waiter = FALSE]

Old(s) == login[s].age > QR_SESSION_TTL

\* _owned.
Owned(s, u) == login[s].listed /\ login[s].user = u

-----------------------------------------------------------------------------
(* start-qr.                                                               *)

\* Mutant: the cleanup takes what is as old as the limit.
StartLogin_EarlyCleanup(r, u) ==
  /\ AtStep(r, "idle") /\ \E s \in Logins : login[s].user = Nobody
  /\ login' = [s \in Logins |-> IF login[s].listed /\ login[s].age >= QR_SESSION_TTL
                                THEN Dropped(login[s]) ELSE login[s]]
  /\ SetRequest(r, [step |-> "starting", user |-> u])
  /\ UNCHANGED <<accounts, scanned, restarts>>

\* _cleanup_expired_sessions, and the connection to Telegram is awaited.
StartLogin(r, u) ==
  /\ AtStep(r, "idle") /\ \E s \in Logins : login[s].user = Nobody
  /\ login' = [s \in Logins |-> IF login[s].listed /\ Old(s) THEN Dropped(login[s]) ELSE login[s]]
  /\ SetRequest(r, [step |-> "starting", user |-> u])
  /\ UNCHANGED <<accounts, scanned, restarts>>

\* The code is there, or Telegram refused.
start_qr_auth(r, s) ==
  /\ AtStep(r, "starting") /\ login[s].user = Nobody
  /\ \/ SetLogin(s, [Unused EXCEPT !.user = request[r].user, !.listed = TRUE, !.waiter = TRUE])
     \/ UNCHANGED login
  /\ SetRequest(r, Idle)
  /\ UNCHANGED <<accounts, scanned, restarts>>

-----------------------------------------------------------------------------
(* _wait_for_qr.                                                           *)

\* The code is scanned, the account asks for a password, the code ends or Telegram fails.
_wait_for_qr(s) ==
  /\ login[s].waiter
  /\ \E status \in {"success", "needs_2fa", "qr_expired", "error"} :
       /\ SetLogin(s, [login[s] EXCEPT !.status = status, !.waiter = FALSE])
       /\ scanned' = IF status = "success" THEN scanned \cup {s} ELSE scanned
  /\ UNCHANGED <<request, accounts, restarts>>

LoginAges ==
  /\ \E s \in Logins : login[s].listed /\ ~Old(s)
  /\ login' = [s \in Logins |-> IF login[s].listed /\ ~Old(s) THEN [login[s] EXCEPT !.age = @ + 1]
                                ELSE login[s]]
  /\ UNCHANGED <<request, accounts, scanned, restarts>>

-----------------------------------------------------------------------------
(* qr-status and complete_auth.                                            *)

\* get_qr_status of the owner: a success does not expire.
get_qr_status(s) == IF login[s].status = "success" THEN "success"
                    ELSE IF Old(s) THEN "expired" ELSE login[s].status

\* Mutant: the session leaves the registry after the disconnect.
complete_auth_PopLate(r, s, u) ==
  /\ SetLogin(s, login[s])
  /\ SetRequest(r, [step |-> "disconnecting", user |-> u, login |-> s])

\* The session leaves the registry before the disconnect is awaited.
complete_auth(r, s, u) ==
  /\ SetLogin(s, Dropped(login[s]))
  /\ SetRequest(r, [step |-> "disconnecting", user |-> u, login |-> s])

\* A poll that finds the scan; every other answer of the poll changes nothing.
QrStatus(r, s, u) ==
  /\ AtStep(r, "idle") /\ Owned(s, u) /\ get_qr_status(s) = "success"
  /\ complete_auth(r, s, u)
  /\ UNCHANGED <<accounts, scanned, restarts>>

\* disconnect, _save_tg_account.
_save_tg_account(r) ==
  /\ AtStep(r, "disconnecting")
  /\ accounts' = Append(accounts, [user |-> request[r].user, login |-> request[r].login])
  /\ SetRequest(r, Idle)
  /\ UNCHANGED <<login, scanned, restarts>>

-----------------------------------------------------------------------------
(* refresh-qr and verify-2fa.                                              *)

RefreshQr(r, s, u) ==
  /\ AtStep(r, "idle") /\ Owned(s, u) /\ get_qr_status(s) = "qr_expired"
  /\ SetRequest(r, [step |-> "recreating", user |-> u, login |-> s])
  /\ UNCHANGED <<login, accounts, scanned, restarts>>

\* Mutant: the new task is started before the old one is cancelled.
refresh_qr_CancelLast(r) ==
  /\ AtStep(r, "recreating")
  /\ LET s == request[r].login IN
     \/ /\ login[s].codes < MaxRefreshes
        /\ SetLogin(s, [login[s] EXCEPT !.status = "waiting", !.age = 0, !.codes = @ + 1,
                                        !.waiter = FALSE])
     \/ UNCHANGED login
  /\ SetRequest(r, Idle)
  /\ UNCHANGED <<accounts, scanned, restarts>>

\* The code is recreated, or the handler answers the step of an error.  The status is
\* not looked at again; a session that has left the registry gets no task.
refresh_qr(r) ==
  /\ AtStep(r, "recreating")
  /\ LET s == request[r].login IN
     \/ /\ login[s].codes < MaxRefreshes
        /\ SetLogin(s, [login[s] EXCEPT !.status = "waiting", !.age = 0, !.codes = @ + 1,
                                        !.waiter = login[s].listed])
     \/ UNCHANGED login
  /\ SetRequest(r, Idle)
  /\ UNCHANGED <<accounts, scanned, restarts>>

Verify2fa(r, s, u) ==
  /\ AtStep(r, "idle") /\ Owned(s, u) /\ get_qr_status(s) = "needs_2fa"
  /\ SetRequest(r, [step |-> "signing_in", user |-> u, login |-> s])
  /\ UNCHANGED <<login, accounts, scanned, restarts>>

\* sign_in accepts the password and complete_auth follows in the same step, for a session
\* that is still registered; or the password is wrong, or Telegram fails.
submit_2fa(r) ==
  /\ AtStep(r, "signing_in")
  /\ LET s == request[r].login
         signed == [login[s] EXCEPT !.status = "success"] IN
     \/ /\ scanned' = scanned \cup {s}
        /\ IF Owned(s, request[r].user)
           THEN /\ SetLogin(s, Dropped(signed))
                /\ SetRequest(r, [request[r] EXCEPT !.step = "disconnecting"])
           ELSE SetLogin(s, signed) /\ SetRequest(r, Idle)
     \/ SetRequest(r, Idle) /\ UNCHANGED <<login, scanned>>
  /\ UNCHANGED <<accounts, restarts>>

\* The registry and the handlers are gone.
WebRestarts ==
  /\ restarts < MaxRestarts /\ restarts' = restarts + 1
  /\ login' = [s \in Logins |-> Dropped(login[s])]
  /\ request' = [r \in Requests |-> Idle]
  /\ UNCHANGED <<accounts, scanned>>

LoginStep(r) ==
  \/ \E s \in Logins : start_qr_auth(r, s)
  \/ _save_tg_account(r) \/ refresh_qr(r) \/ submit_2fa(r)

LoginNext ==
  \/ \E r \in Requests : LoginStep(r)
  \/ \E r \in Requests, u \in Users :
       \/ StartLogin(r, u)
       \/ \E s \in Logins : QrStatus(r, s, u) \/ RefreshQr(r, s, u) \/ Verify2fa(r, s, u)
  \/ \E s \in Logins : _wait_for_qr(s)
  \/ LoginAges \/ WebRestarts

-----------------------------------------------------------------------------
(* Properties.                                                             *)

\* qr-status and verify-2fa: whatever polls and passwords overlap, a login that Telegram
\* has authorised becomes at most one account, of the user who started it.
OneAccountPerScan ==
  /\ \A i \in DOMAIN accounts :
       /\ accounts[i].login \in scanned
       /\ accounts[i].user = login[accounts[i].login].user
  /\ \A i, j \in DOMAIN accounts : accounts[i].login = accounts[j].login => i = j

\* _wait_for_qr, refresh_qr: a page that polls a session in "waiting" does not wait in
\* vain: a task waits for its scan.
WaitingIsWatched ==
  \A s \in Logins : login[s].listed /\ login[s].status = "waiting" => login[s].waiter

\* get_qr_status: a scan found by nobody yet is lost only when somebody starts a login
\* after its time is over, when an overlapping refresh writes "waiting" over it, or with
\* the process.
ScanIsKept ==
  [][\A s \in Logins :
       LET found(state) == state.listed /\ state.status = "success" IN
       found(login[s]) /\ ~found(login'[s]) =>
         \/ Old(s) \/ restarts' # restarts
         \/ \E r \in Requests : AtStep(r, "recreating") /\ request[r].login = s
         \/ \E r \in Requests : request'[r].step = "disconnecting" /\ request'[r].login = s
    ]_loginVars

=============================================================================
