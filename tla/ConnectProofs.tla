--------------------------- MODULE ConnectProofs ---------------------------
(***************************************************************************)
(* Theorems about Connect, for any users, logins, sockets, clients and     *)
(* calls: what the QR login makes of a scan, and what the workers answer   *)
(* about the synchronisation of the groups.                                *)
(***************************************************************************)
EXTENDS Connect, TLAPS

-----------------------------------------------------------------------------
(* The QR login: types.                                                    *)

(* A session out of the registry is still a session. *)
LEMMA DroppedTypes ==
  ASSUME NEW state \in QRAuthState
  PROVE  /\ Dropped(state) \in QRAuthState
         /\ Dropped(state).user = state.user /\ Dropped(state).status = state.status
         /\ ~Dropped(state).listed /\ ~Dropped(state).waiter
BY DEF Dropped, QRAuthState

LEMMA LoginTypes == LoginTypeOK /\ LoginNext => LoginTypeOK'
<1> SUFFICES ASSUME LoginTypeOK, LoginNext PROVE LoginTypeOK'
  OBVIOUS
<1> USE LoginAssumption
<1>0. \A s \in Logins : login[s] \in QRAuthState
  BY DEF LoginTypeOK
<1>1. ASSUME NEW r \in Requests, NEW s \in Logins, start_qr_auth(r, s)
      PROVE  LoginTypeOK'
  <2>1. request[r].user \in Users
    BY <1>1 DEF start_qr_auth, AtStep, LoginTypeOK, Handler, Idle
  <2>2. [Unused EXCEPT !.user = request[r].user, !.listed = TRUE, !.waiter = TRUE] \in QRAuthState
    <3>1. 0 \in 0 .. QR_SESSION_TTL + 1 /\ 0 \in 0 .. MaxRefreshes
      OBVIOUS
    <3> QED BY <2>1, <3>1 DEF Unused, QRAuthState
  <2>3. login' \in [Logins -> QRAuthState]
    BY <1>1, <2>2 DEF start_qr_auth, SetLogin, LoginTypeOK
  <2> QED BY <1>1, <2>3 DEF start_qr_auth, SetRequest, LoginTypeOK, Handler
<1>2. ASSUME NEW r \in Requests, _save_tg_account(r)
      PROVE  LoginTypeOK'
  <2>1. request[r].user \in Users /\ request[r].login \in Logins
    BY <1>2 DEF _save_tg_account, AtStep, LoginTypeOK, Handler, Idle
  <2>2. accounts' \in Seq([user : Users, login : Logins])
    BY <1>2, <2>1 DEF _save_tg_account, LoginTypeOK
  <2> QED BY <1>2, <2>2 DEF _save_tg_account, SetRequest, LoginTypeOK, Handler
<1>3. ASSUME NEW r \in Requests, refresh_qr(r)
      PROVE  LoginTypeOK'
  <2> DEFINE s == request[r].login
  <2>1. s \in Logins
    BY <1>3 DEF refresh_qr, AtStep, LoginTypeOK, Handler, Idle
  <2>2. login[s] \in QRAuthState
    BY <1>0, <2>1
  <2>3. ASSUME login[s].codes < MaxRefreshes
        PROVE  [login[s] EXCEPT !.status = "waiting", !.age = 0, !.codes = login[s].codes + 1,
                                !.waiter = login[s].listed] \in QRAuthState
    <3>1. 0 \in 0 .. QR_SESSION_TTL + 1 /\ login[s].codes + 1 \in 0 .. MaxRefreshes
      BY <2>2, <2>3 DEF QRAuthState
    <3> QED BY <2>2, <3>1 DEF QRAuthState
  <2>4. login' \in [Logins -> QRAuthState]
    BY <1>3, <2>3 DEF refresh_qr, SetLogin, LoginTypeOK
  <2> QED BY <1>3, <2>4 DEF refresh_qr, SetRequest, LoginTypeOK, Handler
<1>4. ASSUME NEW r \in Requests, submit_2fa(r)
      PROVE  LoginTypeOK'
  <2> DEFINE s == request[r].login
             signed == [login[s] EXCEPT !.status = "success"]
  <2>1. /\ s \in Logins
        /\ request[r] \in [step : {"recreating", "signing_in", "disconnecting"}, user : Users, login : Logins]
    BY <1>4 DEF submit_2fa, AtStep, LoginTypeOK, Handler, Idle
  <2>2. signed \in QRAuthState
    BY <1>0, <2>1 DEF QRAuthState
  <2>3. Dropped(signed) \in QRAuthState
    BY <2>2, DroppedTypes
  <2>4. [request[r] EXCEPT !.step = "disconnecting"] \in Handler
    BY <2>1 DEF Handler
  <2>5. login' \in [Logins -> QRAuthState] /\ request' \in [Requests -> Handler] /\ scanned' \subseteq Logins
    <3> HIDE DEF signed
    <3>1. \/ login' = [login EXCEPT ![s] = Dropped(signed)] \/ login' = [login EXCEPT ![s] = signed]
          \/ login' = login
      BY <1>4 DEF submit_2fa, SetLogin, signed
    <3>2. \/ request' = [request EXCEPT ![r] = Idle]
          \/ request' = [request EXCEPT ![r] = [request[r] EXCEPT !.step = "disconnecting"]]
      BY <1>4 DEF submit_2fa, SetRequest
    <3>3. Idle \in Handler
      BY DEF Handler
    <3> QED BY <1>4, <2>1, <2>2, <2>3, <2>4, <3>1, <3>2, <3>3 DEF submit_2fa, LoginTypeOK
  <2> QED BY <1>4, <2>5 DEF submit_2fa, LoginTypeOK
<1>5. ASSUME NEW r \in Requests, NEW u \in Users, StartLogin(r, u)
      PROVE  LoginTypeOK'
  <2>1. login' \in [Logins -> QRAuthState]
    BY <1>0, <1>5, DroppedTypes DEF StartLogin, LoginTypeOK
  <2> QED BY <1>5, <2>1 DEF StartLogin, SetRequest, LoginTypeOK, Handler
<1>6. ASSUME NEW r \in Requests, NEW u \in Users, NEW s \in Logins,
             QrStatus(r, s, u) \/ RefreshQr(r, s, u) \/ Verify2fa(r, s, u)
      PROVE  LoginTypeOK'
  <2>1. login' \in [Logins -> QRAuthState]
    BY <1>0, <1>6, DroppedTypes DEF QrStatus, RefreshQr, Verify2fa, complete_auth, SetLogin, LoginTypeOK
  <2>2. request' \in [Requests -> Handler]
    BY <1>6 DEF QrStatus, RefreshQr, Verify2fa, complete_auth, SetRequest, LoginTypeOK, Handler
  <2> QED BY <1>6, <2>1, <2>2 DEF QrStatus, RefreshQr, Verify2fa, LoginTypeOK
<1>7. ASSUME NEW s \in Logins, _wait_for_qr(s)
      PROVE  LoginTypeOK'
  <2>1. PICK status \in {"success", "needs_2fa", "qr_expired", "error"} :
          /\ login' = [login EXCEPT ![s] = [login[s] EXCEPT !.status = status, !.waiter = FALSE]]
          /\ scanned' = IF status = "success" THEN scanned \cup {s} ELSE scanned
    BY <1>7 DEF _wait_for_qr, SetLogin
  <2>2. [login[s] EXCEPT !.status = status, !.waiter = FALSE] \in QRAuthState
    BY <1>0 DEF QRAuthState
  <2> QED BY <1>7, <2>1, <2>2 DEF _wait_for_qr, LoginTypeOK
<1>8. CASE LoginAges
  <2>1. ASSUME NEW s \in Logins, ~Old(s)
        PROVE  [login[s] EXCEPT !.age = login[s].age + 1] \in QRAuthState
    BY <1>0, <2>1 DEF Old, QRAuthState
  <2>2. login' \in [Logins -> QRAuthState]
    BY <1>0, <1>8, <2>1 DEF LoginAges, LoginTypeOK
  <2> QED BY <1>8, <2>2 DEF LoginAges, LoginTypeOK
<1>9. CASE WebRestarts
  <2>1. login' \in [Logins -> QRAuthState]
    BY <1>0, <1>9, DroppedTypes DEF WebRestarts, LoginTypeOK
  <2> QED BY <1>9, <2>1 DEF WebRestarts, LoginTypeOK, Handler
<1> QED BY <1>1, <1>2, <1>3, <1>4, <1>5, <1>6, <1>7, <1>8, <1>9 DEF LoginNext, LoginStep

-----------------------------------------------------------------------------
(* The QR login: one account for a scan.                                   *)

(* A session that is found successful was scanned, one of the registry is somebody's,    *)
(* and the task that waits for a scan is one of a registered session in "waiting".        *)
RegistryInv ==
  \A s \in Logins :
    /\ login[s].status = "success" => s \in scanned
    /\ login[s].listed => login[s].user # Nobody
    /\ login[s].waiter => login[s].listed /\ login[s].status = "waiting"

(* A handler holds a session of its own user; one that is disconnecting holds a scanned   *)
(* session alone, which has left the registry and has no account yet.                      *)
BoundInv ==
  \A r \in Requests :
    /\ request[r].step \in {"recreating", "signing_in", "disconnecting"}
         => login[request[r].login].user = request[r].user
    /\ request[r].step = "disconnecting" =>
         /\ request[r].login \in scanned /\ ~login[request[r].login].listed
         /\ \A i \in DOMAIN accounts : accounts[i].login # request[r].login
         /\ \A q \in Requests :
              request[q].step = "disconnecting" /\ request[q].login = request[r].login => q = r

(* The session of an account has left the registry for good. *)
AccountInv == \A i \in DOMAIN accounts : ~login[accounts[i].login].listed

LoginInv ==
  /\ LoginTypeOK /\ RegistryInv /\ BoundInv /\ AccountInv
  /\ OneAccountPerScan /\ WaitingIsWatched

(* A session has one user, is listed at its start only, and keeps to the registry's rules. *)
LEMMA LoginFrame ==
  ASSUME LoginInv, LoginNext
  PROVE  /\ scanned \subseteq scanned'
         /\ \A s \in Logins :
              /\ login[s].user # Nobody => login'[s].user = login[s].user
              /\ login'[s].listed => login[s].listed \/ login[s].user = Nobody
              /\ login'[s].status = "success" => s \in scanned'
              /\ login'[s].listed => login'[s].user # Nobody
              /\ login'[s].waiter => login'[s].listed /\ login'[s].status = "waiting"
              /\ login'[s].listed /\ login'[s].status = "waiting" => login'[s].waiter
<1>0. /\ LoginTypeOK /\ RegistryInv /\ BoundInv /\ WaitingIsWatched
      /\ \A s \in Logins : login[s] \in QRAuthState
  BY DEF LoginInv, LoginTypeOK
<1> DEFINE Sound(s, state) ==
      /\ login[s].user # Nobody => state.user = login[s].user
      /\ state.listed => login[s].listed \/ login[s].user = Nobody
      /\ state.status = "success" => s \in scanned'
      /\ state.listed => state.user # Nobody
      /\ state.waiter => state.listed /\ state.status = "waiting"
      /\ state.listed /\ state.status = "waiting" => state.waiter
<1>1. ASSUME NEW s \in Logins, scanned \subseteq scanned'
      PROVE  Sound(s, login[s]) /\ Sound(s, Dropped(login[s]))
  BY <1>0, <1>1, DroppedTypes DEF RegistryInv, WaitingIsWatched
<1>1a. ASSUME NEW t \in Logins, NEW state, Sound(t, state), scanned \subseteq scanned',
              login' = [login EXCEPT ![t] = state]
       PROVE  \A s \in Logins : Sound(s, login'[s])
  <2> HIDE DEF Sound
  <2>1. TAKE s \in Logins
  <2>2. CASE s = t
    BY <1>0, <1>1a, <2>2 DEF LoginTypeOK
  <2>3. CASE s # t
    BY <1>0, <1>1, <1>1a, <2>3 DEF LoginTypeOK
  <2> QED BY <2>2, <2>3
<1>2. SUFFICES scanned \subseteq scanned' /\ \A s \in Logins : Sound(s, login'[s])
  OBVIOUS
<1>3. ASSUME NEW r \in Requests, NEW t \in Logins, start_qr_auth(r, t)
      PROVE  scanned \subseteq scanned' /\ \A s \in Logins : Sound(s, login'[s])
  <2>1. request[r].user \in Users /\ request[r].user # Nobody
    BY <1>0, <1>3, LoginAssumption DEF start_qr_auth, AtStep, LoginTypeOK, Handler, Idle
  <2>2. Sound(t, [Unused EXCEPT !.user = request[r].user, !.listed = TRUE, !.waiter = TRUE])
    BY <1>3, <2>1 DEF Unused, start_qr_auth
  <2>3. scanned' = scanned
    BY <1>3 DEF start_qr_auth
  <2>4. \/ login' = login
        \/ login' = [login EXCEPT ![t] = [Unused EXCEPT !.user = request[r].user, !.listed = TRUE,
                                                        !.waiter = TRUE]]
    BY <1>3 DEF start_qr_auth, SetLogin
  <2> HIDE DEF Sound
  <2> QED BY <1>1, <1>1a, <2>2, <2>3, <2>4
<1>4. ASSUME NEW r \in Requests, _save_tg_account(r)
      PROVE  scanned \subseteq scanned' /\ \A s \in Logins : Sound(s, login'[s])
  BY <1>1, <1>4 DEF _save_tg_account
<1>5. ASSUME NEW r \in Requests, refresh_qr(r)
      PROVE  scanned \subseteq scanned' /\ \A s \in Logins : Sound(s, login'[s])
  <2> DEFINE t == request[r].login
             new == [login[t] EXCEPT !.status = "waiting", !.age = 0, !.codes = login[t].codes + 1,
                                     !.waiter = login[t].listed]
  <2>1. t \in Logins
    BY <1>0, <1>5 DEF refresh_qr, AtStep, LoginTypeOK, Handler, Idle
  <2>2. new.user = login[t].user /\ new.listed = login[t].listed /\ new.status = "waiting"
        /\ new.waiter = login[t].listed
    BY <1>0, <2>1 DEF QRAuthState
  <2>3. Sound(t, new)
    BY <1>0, <2>1, <2>2 DEF RegistryInv
  <2>4. scanned' = scanned /\ (login' = login \/ login' = [login EXCEPT ![t] = new])
    BY <1>5 DEF refresh_qr, SetLogin
  <2> HIDE DEF Sound, new, t
  <2> QED BY <1>1, <1>1a, <2>1, <2>3, <2>4
<1>6. ASSUME NEW r \in Requests, submit_2fa(r)
      PROVE  scanned \subseteq scanned' /\ \A s \in Logins : Sound(s, login'[s])
  <2> DEFINE t == request[r].login
             signed == [login[t] EXCEPT !.status = "success"]
  <2>1. t \in Logins /\ login[t].user = request[r].user
    BY <1>0, <1>6 DEF submit_2fa, AtStep, LoginTypeOK, Handler, Idle, BoundInv
  <2>2. /\ signed \in QRAuthState /\ signed.user = login[t].user /\ signed.listed = login[t].listed
        /\ signed.status = "success" /\ signed.waiter = login[t].waiter
    BY <1>0, <2>1 DEF QRAuthState
  <2>3. CASE UNCHANGED <<login, scanned>>
    BY <1>1, <2>3
  <2>4. CASE scanned' = scanned \cup {t} /\ login' = [login EXCEPT ![t] = Dropped(signed)]
    <3>1. Sound(t, Dropped(signed))
      BY <2>2, <2>4, DroppedTypes
    <3> QED BY <1>0, <1>1, <2>4, <3>1 DEF LoginTypeOK
  <2>5. CASE ~login[t].listed /\ scanned' = scanned \cup {t} /\ login' = [login EXCEPT ![t] = signed]
    <3>1. Sound(t, signed)
      BY <1>0, <2>1, <2>2, <2>5 DEF RegistryInv
    <3> QED BY <1>0, <1>1, <2>5, <3>1 DEF LoginTypeOK
  <2> QED BY <1>6, <2>1, <2>3, <2>4, <2>5 DEF submit_2fa, SetLogin, Owned
<1>7. ASSUME NEW r \in Requests, NEW u \in Users,
             \/ StartLogin(r, u)
             \/ \E s \in Logins : QrStatus(r, s, u) \/ RefreshQr(r, s, u) \/ Verify2fa(r, s, u)
      PROVE  scanned \subseteq scanned' /\ \A s \in Logins : Sound(s, login'[s])
  <2>1. /\ scanned' = scanned
        /\ \A s \in Logins : login'[s] = login[s] \/ login'[s] = Dropped(login[s])
    BY <1>0, <1>7 DEF StartLogin, QrStatus, RefreshQr, Verify2fa, complete_auth, SetLogin, LoginTypeOK
  <2> QED BY <1>1, <2>1
<1>8. ASSUME NEW t \in Logins, _wait_for_qr(t)
      PROVE  scanned \subseteq scanned' /\ \A s \in Logins : Sound(s, login'[s])
  <2>1. PICK status \in {"success", "needs_2fa", "qr_expired", "error"} :
          /\ login' = [login EXCEPT ![t] = [login[t] EXCEPT !.status = status, !.waiter = FALSE]]
          /\ scanned' = IF status = "success" THEN scanned \cup {t} ELSE scanned
    BY <1>8 DEF _wait_for_qr, SetLogin
  <2>2. Sound(t, [login[t] EXCEPT !.status = status, !.waiter = FALSE])
    BY <1>0, <2>1 DEF QRAuthState, RegistryInv
  <2> QED BY <1>0, <1>1, <2>1, <2>2 DEF LoginTypeOK
<1>9. CASE LoginAges
  <2>1. scanned' = scanned
    BY <1>9 DEF LoginAges
  <2>2. ASSUME NEW s \in Logins
        PROVE  /\ login'[s].user = login[s].user /\ login'[s].status = login[s].status
               /\ login'[s].listed = login[s].listed /\ login'[s].waiter = login[s].waiter
    BY <1>0, <1>9 DEF LoginAges, QRAuthState
  <2> QED BY <1>0, <2>1, <2>2 DEF RegistryInv, WaitingIsWatched
<1>10. CASE WebRestarts
  <2>1. scanned' = scanned /\ \A s \in Logins : login'[s] = Dropped(login[s])
    BY <1>10 DEF WebRestarts
  <2> QED BY <1>1, <2>1
<1> QED BY <1>3, <1>4, <1>5, <1>6, <1>7, <1>8, <1>9, <1>10 DEF LoginNext, LoginStep

(* The handler q takes a session out of the registry whose scan it has found. *)
Finds(q) ==
  LET s == request'[q].login IN
  /\ request'[q].step = "disconnecting" /\ s \in Logins
  /\ login[s].listed /\ login[s].user = request'[q].user
  /\ s \in scanned' /\ ~login'[s].listed
  /\ accounts' = accounts /\ \A p \in Requests \ {q} : request'[p] = request[p]

LEMMA RequestStep ==
  ASSUME LoginInv, LoginNext, NEW q \in Requests
  PROVE  \/ request'[q] = request[q]
         \/ request'[q].step \in {"idle", "starting"}
         \/ /\ request'[q].step \in {"recreating", "signing_in"} /\ request'[q].login \in Logins
            /\ login[request'[q].login].user = request'[q].user
         \/ Finds(q)
<1>0. /\ LoginTypeOK /\ RegistryInv /\ BoundInv
      /\ \A s \in Logins : login[s] \in QRAuthState
  BY DEF LoginInv, LoginTypeOK
<1>1. ASSUME NEW r \in Requests,
             \/ \E s \in Logins : start_qr_auth(r, s)
             \/ _save_tg_account(r) \/ refresh_qr(r)
      PROVE  request'[q] \in {request[q], Idle}
  BY <1>0, <1>1 DEF start_qr_auth, _save_tg_account, refresh_qr, SetRequest, LoginTypeOK
<1>2. ASSUME NEW r \in Requests, NEW u \in Users, StartLogin(r, u)
      PROVE  request'[q] = request[q] \/ request'[q].step = "starting"
  BY <1>0, <1>2 DEF StartLogin, SetRequest, LoginTypeOK
<1>3. ASSUME NEW r \in Requests, submit_2fa(r)
      PROVE  request'[q] \in {request[q], Idle} \/ Finds(q)
  <2> DEFINE s == request[r].login
             signed == [login[s] EXCEPT !.status = "success"]
  <2>1. /\ s \in Logins
        /\ request[r] \in [step : {"recreating", "signing_in", "disconnecting"}, user : Users, login : Logins]
    BY <1>0, <1>3 DEF submit_2fa, AtStep, LoginTypeOK, Handler, Idle
  <2>2. signed \in QRAuthState
    BY <1>0, <2>1 DEF QRAuthState
  <2>3. CASE request' = [request EXCEPT ![r] = Idle]
    BY <1>0, <2>3 DEF LoginTypeOK
  <2>4. CASE /\ Owned(s, request[r].user) /\ scanned' = scanned \cup {s} /\ accounts' = accounts
             /\ login' = [login EXCEPT ![s] = Dropped(signed)]
             /\ request' = [request EXCEPT ![r] = [request[r] EXCEPT !.step = "disconnecting"]]
    <3>1. CASE q # r
      BY <1>0, <2>4, <3>1 DEF LoginTypeOK
    <3>2. CASE q = r
      <4>1. /\ request'[q].step = "disconnecting" /\ request'[q].login = s
            /\ request'[q].user = request[r].user
        BY <1>0, <2>1, <2>4, <3>2 DEF LoginTypeOK
      <4>2. ~login'[s].listed /\ s \in scanned'
        <5>1. login'[s] = Dropped(signed)
          BY <1>0, <2>1, <2>4 DEF LoginTypeOK
        <5> QED BY <2>2, <2>4, <5>1, DroppedTypes
      <4>3. \A p \in Requests \ {q} : request'[p] = request[p]
        BY <1>0, <2>4, <3>2 DEF LoginTypeOK
      <4> QED BY <2>1, <2>4, <4>1, <4>2, <4>3 DEF Finds, Owned
    <3> QED BY <3>1, <3>2
  <2> QED BY <1>3, <2>3, <2>4 DEF submit_2fa, SetLogin, SetRequest
<1>4. ASSUME NEW r \in Requests, NEW u \in Users, NEW s \in Logins, QrStatus(r, s, u)
      PROVE  request'[q] = request[q] \/ Finds(q)
  <2>1. CASE q # r
    BY <1>0, <1>4, <2>1 DEF QrStatus, complete_auth, SetRequest, LoginTypeOK
  <2>2. CASE q = r
    <3>1. /\ request'[q] = [step |-> "disconnecting", user |-> u, login |-> s]
          /\ \A p \in Requests \ {q} : request'[p] = request[p]
          /\ login'[s] = Dropped(login[s]) /\ scanned' = scanned /\ accounts' = accounts
      BY <1>0, <1>4, <2>2 DEF QrStatus, complete_auth, SetRequest, SetLogin, LoginTypeOK
    <3>2. login[s].listed /\ login[s].user = u /\ s \in scanned
      BY <1>0, <1>4 DEF QrStatus, Owned, get_qr_status, RegistryInv
    <3> QED BY <1>0, <3>1, <3>2, DroppedTypes DEF Finds
  <2> QED BY <2>1, <2>2
<1>5. ASSUME NEW r \in Requests, NEW u \in Users, NEW s \in Logins,
             RefreshQr(r, s, u) \/ Verify2fa(r, s, u)
      PROVE  \/ request'[q] = request[q]
             \/ /\ request'[q].step \in {"recreating", "signing_in"} /\ request'[q].login \in Logins
                /\ login[request'[q].login].user = request'[q].user
  BY <1>0, <1>5 DEF RefreshQr, Verify2fa, Owned, SetRequest, LoginTypeOK
<1>6. CASE LoginAges \/ \E s \in Logins : _wait_for_qr(s)
  BY <1>6 DEF LoginAges, _wait_for_qr
<1>7. CASE WebRestarts
  BY <1>7 DEF WebRestarts, Idle
<1>8. Idle.step = "idle"
  BY DEF Idle
<1> QED BY <1>1, <1>2, <1>3, <1>4, <1>5, <1>6, <1>7, <1>8 DEF LoginNext, LoginStep

LEMMA AccountStep ==
  ASSUME LoginInv, LoginNext
  PROVE  \/ accounts' = accounts
         \/ \E r \in Requests :
              /\ request[r].step = "disconnecting" /\ request'[r].step = "idle"
              /\ request[r].login \in Logins /\ request[r].user \in Users
              /\ accounts' = Append(accounts, [user |-> request[r].user, login |-> request[r].login])
              /\ login' = login /\ scanned' = scanned
<1>0. LoginTypeOK
  BY DEF LoginInv
<1>1. ASSUME NEW r \in Requests, _save_tg_account(r)
      PROVE  /\ request[r].step = "disconnecting" /\ request'[r].step = "idle"
             /\ request[r].login \in Logins /\ request[r].user \in Users
             /\ accounts' = Append(accounts, [user |-> request[r].user, login |-> request[r].login])
             /\ login' = login /\ scanned' = scanned
  BY <1>0, <1>1 DEF _save_tg_account, AtStep, SetRequest, LoginTypeOK, Handler, Idle
<1>2. CASE \E r \in Requests : _save_tg_account(r)
  BY <1>1, <1>2
<1>3. CASE ~\E r \in Requests : _save_tg_account(r)
  BY <1>3 DEF LoginNext, LoginStep, start_qr_auth, refresh_qr, submit_2fa, StartLogin, QrStatus, RefreshQr,
     Verify2fa, _wait_for_qr, LoginAges, WebRestarts
<1> QED BY <1>2, <1>3

LEMMA BoundStep == LoginInv /\ LoginNext => BoundInv'
<1> SUFFICES ASSUME LoginInv, LoginNext, NEW r \in Requests
             PROVE  /\ request'[r].step \in {"recreating", "signing_in", "disconnecting"}
                         => login'[request'[r].login].user = request'[r].user
                    /\ request'[r].step = "disconnecting" =>
                         /\ request'[r].login \in scanned' /\ ~login'[request'[r].login].listed
                         /\ \A i \in DOMAIN accounts' : accounts'[i].login # request'[r].login
                         /\ \A q \in Requests :
                              request'[q].step = "disconnecting" /\ request'[q].login = request'[r].login
                                => q = r
  BY DEF BoundInv
<1>0. LoginTypeOK /\ LoginTypeOK' /\ RegistryInv /\ BoundInv /\ AccountInv
  BY LoginTypes DEF LoginInv
<1>1. ASSUME NEW s \in Logins, NEW u \in Users, login[s].user = u
      PROVE  login'[s].user = u /\ (login'[s].listed => login[s].listed)
  BY <1>1, LoginFrame, LoginAssumption
<1>2. ASSUME NEW q \in Requests,
             request'[q].step \in {"recreating", "signing_in", "disconnecting"}
      PROVE  request'[q].login \in Logins /\ request'[q].user \in Users
  BY <1>0, <1>2 DEF LoginTypeOK, Handler, Idle
<1>3. ASSUME request'[r].step \in {"recreating", "signing_in"}
      PROVE  login'[request'[r].login].user = request'[r].user
  <2>1. login[request'[r].login].user = request'[r].user
    BY <1>0, <1>3, RequestStep DEF BoundInv, Finds
  <2> QED BY <1>1, <1>2, <1>3, <2>1
<1>4. ASSUME request'[r].step = "disconnecting", request'[r] = request[r]
      PROVE  /\ login'[request'[r].login].user = request'[r].user
             /\ request'[r].login \in scanned' /\ ~login'[request'[r].login].listed
             /\ \A i \in DOMAIN accounts' : accounts'[i].login # request'[r].login
             /\ \A q \in Requests :
                  request'[q].step = "disconnecting" /\ request'[q].login = request'[r].login => q = r
  <2> DEFINE s == request[r].login
  <2>1. /\ s \in Logins /\ login[s].user = request[r].user /\ request[r].user \in Users
        /\ s \in scanned /\ ~login[s].listed
        /\ \A i \in DOMAIN accounts : accounts[i].login # s
        /\ \A q \in Requests : request[q].step = "disconnecting" /\ request[q].login = s => q = r
    BY <1>0, <1>2, <1>4 DEF BoundInv
  <2>2. login'[s].user = request[r].user /\ s \in scanned' /\ ~login'[s].listed
    BY <1>1, <2>1, LoginFrame
  <2>3. \A i \in DOMAIN accounts' : accounts'[i].login # s
    <3>1. CASE accounts' = accounts
      BY <2>1, <3>1
    <3>2. ASSUME NEW q \in Requests, request[q].step = "disconnecting", request'[q].step = "idle",
                 request[q].login \in Logins, request[q].user \in Users,
                 accounts' = Append(accounts, [user |-> request[q].user, login |-> request[q].login])
          PROVE  \A i \in DOMAIN accounts' : accounts'[i].login # s
      <4>1. request[q].login # s
        BY <1>4, <2>1, <3>2
      <4>2. accounts \in Seq([user : Users, login : Logins])
        BY <1>0 DEF LoginTypeOK
      <4> QED BY <2>1, <3>2, <4>1, <4>2
    <3> QED BY <3>1, <3>2, AccountStep
  <2>4. ASSUME NEW q \in Requests, request'[q].step = "disconnecting", request'[q].login = s
        PROVE  q = r
    <3>1. CASE request'[q] = request[q]
      BY <2>1, <2>4, <3>1
    <3>2. ~Finds(q)
      BY <2>1, <2>4 DEF Finds
    <3> QED BY <2>4, <3>1, <3>2, RequestStep
  <2> QED BY <1>4, <2>2, <2>3, <2>4
<1>5. ASSUME Finds(r)
      PROVE  /\ login'[request'[r].login].user = request'[r].user
             /\ request'[r].login \in scanned' /\ ~login'[request'[r].login].listed
             /\ \A i \in DOMAIN accounts' : accounts'[i].login # request'[r].login
             /\ \A q \in Requests :
                  request'[q].step = "disconnecting" /\ request'[q].login = request'[r].login => q = r
  <2> DEFINE s == request'[r].login
  <2>1. /\ request'[r].step = "disconnecting" /\ s \in Logins /\ login[s].listed
        /\ login[s].user = request'[r].user
        /\ s \in scanned' /\ ~login'[s].listed /\ accounts' = accounts
        /\ \A p \in Requests \ {r} : request'[p] = request[p]
    BY <1>5 DEF Finds
  <2>2. login'[s].user = request'[r].user
    BY <1>1, <1>2, <2>1
  <2>3. \A i \in DOMAIN accounts' : accounts'[i].login # s
    BY <1>0, <2>1 DEF AccountInv
  <2>4. \A q \in Requests : request'[q].step = "disconnecting" /\ request'[q].login = s => q = r
    BY <1>0, <2>1 DEF BoundInv
  <2> QED BY <2>1, <2>2, <2>3, <2>4
<1>6. request'[r].step = "disconnecting" => request'[r] = request[r] \/ Finds(r)
  BY RequestStep
<1> QED BY <1>3, <1>4, <1>5, <1>6

LEMMA AccountsStep == LoginInv /\ LoginNext => AccountInv' /\ OneAccountPerScan'
<1> SUFFICES ASSUME LoginInv, LoginNext PROVE AccountInv' /\ OneAccountPerScan'
  OBVIOUS
<1>0. LoginTypeOK /\ BoundInv /\ AccountInv /\ OneAccountPerScan
  BY DEF LoginInv
<1>1. CASE accounts' = accounts
  <2>1. ASSUME NEW i \in DOMAIN accounts
        PROVE  /\ accounts[i].login \in scanned' /\ accounts[i].user = login'[accounts[i].login].user
               /\ ~login'[accounts[i].login].listed
    <3>1. /\ accounts[i].login \in Logins /\ accounts[i].user \in Users
          /\ accounts[i].user = login[accounts[i].login].user
          /\ accounts[i].login \in scanned /\ ~login[accounts[i].login].listed
      <4>1. accounts[i] \in [user : Users, login : Logins]
        <5> DEFINE Account == [user : Users, login : Logins]
        <5>1. accounts \in Seq(Account)
          BY <1>0 DEF LoginTypeOK
        <5> HIDE DEF Account
        <5>2. accounts[i] \in Account
          BY <2>1, <5>1
        <5> QED BY <5>2 DEF Account
      <4>2. /\ accounts[i].user = login[accounts[i].login].user
            /\ accounts[i].login \in scanned /\ ~login[accounts[i].login].listed
        BY <1>0, <2>1 DEF AccountInv, OneAccountPerScan
      <4> QED BY <4>1, <4>2
    <3> QED BY <3>1, LoginFrame, LoginAssumption
  <2> QED BY <1>0, <1>1, <2>1 DEF AccountInv, OneAccountPerScan
<1>2. ASSUME NEW r \in Requests, request[r].step = "disconnecting",
             request[r].login \in Logins, request[r].user \in Users,
             accounts' = Append(accounts, [user |-> request[r].user, login |-> request[r].login]),
             login' = login, scanned' = scanned
      PROVE  AccountInv' /\ OneAccountPerScan'
  <2> DEFINE new == [user |-> request[r].user, login |-> request[r].login]
  <2>1. /\ new.login \in scanned /\ new.user = login[new.login].user /\ ~login[new.login].listed
        /\ \A i \in DOMAIN accounts : accounts[i].login # new.login
    BY <1>0, <1>2 DEF BoundInv
  <2>2. accounts \in Seq([user : Users, login : Logins]) /\ Len(accounts) \in Nat
    BY <1>0 DEF LoginTypeOK
  <2>3. /\ DOMAIN accounts' = 1 .. Len(accounts) + 1 /\ DOMAIN accounts = 1 .. Len(accounts)
        /\ \A i \in 1 .. Len(accounts) : accounts'[i] = accounts[i]
        /\ accounts'[Len(accounts) + 1] = new
    BY <1>2, <2>2
  <2>4. ASSUME NEW i \in DOMAIN accounts'
        PROVE  \/ i \in DOMAIN accounts /\ accounts'[i] = accounts[i]
               \/ i = Len(accounts) + 1 /\ accounts'[i] = new
    BY <2>2, <2>3
  <2>5. ASSUME NEW i \in DOMAIN accounts'
        PROVE  /\ accounts'[i].login \in scanned /\ accounts'[i].user = login[accounts'[i].login].user
               /\ ~login[accounts'[i].login].listed
    BY <1>0, <2>1, <2>4 DEF AccountInv, OneAccountPerScan
  <2>6. ASSUME NEW i \in DOMAIN accounts', NEW j \in DOMAIN accounts',
               accounts'[i].login = accounts'[j].login
        PROVE  i = j
    <3> HIDE DEF new
    <3> QED BY <1>0, <2>1, <2>4, <2>6 DEF OneAccountPerScan
  <2> QED BY <1>2, <2>5, <2>6 DEF AccountInv, OneAccountPerScan
<1> QED BY <1>1, <1>2, AccountStep

LEMMA LoginInductive == LoginInv /\ LoginNext => LoginInv'
<1> SUFFICES ASSUME LoginInv, LoginNext PROVE LoginInv'
  OBVIOUS
<1>1. LoginTypeOK'
  BY LoginTypes DEF LoginInv
<1>2. RegistryInv' /\ WaitingIsWatched'
  BY LoginFrame DEF RegistryInv, WaitingIsWatched
<1> QED BY <1>1, <1>2, BoundStep, AccountsStep DEF LoginInv

LEMMA LoginInitHolds == LoginInit => LoginInv
<1> SUFFICES ASSUME LoginInit PROVE LoginInv
  OBVIOUS
<1>1. Unused \in QRAuthState
  BY LoginAssumption DEF Unused, QRAuthState
<1>2. LoginTypeOK
  BY <1>1, LoginAssumption DEF LoginInit, LoginTypeOK, Handler
<1>3. /\ \A s \in Logins : login[s].status = "waiting" /\ ~login[s].listed /\ ~login[s].waiter
      /\ \A r \in Requests : request[r].step = "idle"
      /\ DOMAIN accounts = {}
  BY DEF LoginInit, Unused, Idle
<1> QED BY <1>2, <1>3 DEF LoginInv, RegistryInv, BoundInv, AccountInv, OneAccountPerScan, WaitingIsWatched

(* A step loses a scan nobody has found only as ScanIsKept says. *)
LEMMA ScanStep ==
  ASSUME LoginInv, LoginNext, NEW s \in Logins,
         login[s].listed, login[s].status = "success",
         ~(login'[s].listed /\ login'[s].status = "success")
  PROVE  \/ Old(s) \/ restarts' # restarts
         \/ \E r \in Requests : AtStep(r, "recreating") /\ request[r].login = s
         \/ \E r \in Requests : request'[r].step = "disconnecting" /\ request'[r].login = s
<1>0. LoginTypeOK /\ RegistryInv /\ login[s] \in QRAuthState
  BY DEF LoginInv, LoginTypeOK
<1>1. ASSUME NEW r \in Requests, NEW t \in Logins, start_qr_auth(r, t)
      PROVE  FALSE
  BY <1>0, <1>1 DEF start_qr_auth, SetLogin, RegistryInv, LoginTypeOK
<1>2. ASSUME NEW r \in Requests, refresh_qr(r)
      PROVE  AtStep(r, "recreating") /\ request[r].login = s
  BY <1>0, <1>2 DEF refresh_qr, SetLogin, LoginTypeOK
<1>3. ASSUME NEW r \in Requests, submit_2fa(r)
      PROVE  request'[r].step = "disconnecting" /\ request'[r].login = s
  <2> DEFINE t == request[r].login
             signed == [login[t] EXCEPT !.status = "success"]
  <2>1. /\ t \in Logins /\ login[t] \in QRAuthState
        /\ request[r] \in [step : {"recreating", "signing_in", "disconnecting"}, user : Users, login : Logins]
    BY <1>0, <1>3 DEF submit_2fa, AtStep, LoginTypeOK, Handler, Idle
  <2>2. signed.status = "success" /\ signed.listed = login[t].listed
    BY <2>1 DEF QRAuthState
  <2>3. CASE login' = [login EXCEPT ![t] = signed]
    BY <1>0, <2>1, <2>2, <2>3 DEF LoginTypeOK
  <2>4. CASE /\ login' = [login EXCEPT ![t] = Dropped(signed)]
             /\ request' = [request EXCEPT ![r] = [request[r] EXCEPT !.step = "disconnecting"]]
    <3>1. t = s
      BY <1>0, <2>1, <2>4 DEF LoginTypeOK
    <3> QED BY <1>0, <2>1, <2>4, <3>1 DEF LoginTypeOK
  <2> QED BY <1>3, <2>3, <2>4 DEF submit_2fa, SetLogin, SetRequest
<1>4. ASSUME NEW r \in Requests, NEW u \in Users, StartLogin(r, u)
      PROVE  Old(s)
  BY <1>0, <1>4 DEF StartLogin
<1>5. ASSUME NEW r \in Requests, NEW u \in Users, NEW t \in Logins, QrStatus(r, t, u)
      PROVE  request'[r].step = "disconnecting" /\ request'[r].login = s
  BY <1>0, <1>5 DEF QrStatus, complete_auth, SetLogin, SetRequest, LoginTypeOK
<1>6. ASSUME NEW t \in Logins, _wait_for_qr(t)
      PROVE  FALSE
  BY <1>0, <1>6 DEF _wait_for_qr, SetLogin, RegistryInv, LoginTypeOK
<1>7. ~LoginAges
  BY <1>0 DEF LoginAges, QRAuthState
<1>8. ASSUME WebRestarts PROVE restarts' # restarts
  BY <1>0, <1>8, LoginAssumption DEF WebRestarts, LoginTypeOK
<1>9. login' # login
  OBVIOUS
<1>10. ASSUME NEW r \in Requests, NEW u \in Users, NEW t \in Logins,
              RefreshQr(r, t, u) \/ Verify2fa(r, t, u)
       PROVE  FALSE
  BY <1>9, <1>10 DEF RefreshQr, Verify2fa
<1>11. ASSUME NEW r \in Requests, _save_tg_account(r) PROVE FALSE
  BY <1>9, <1>11 DEF _save_tg_account
<1> QED BY <1>1, <1>2, <1>3, <1>4, <1>5, <1>6, <1>7, <1>8, <1>10, <1>11 DEF LoginNext, LoginStep

-----------------------------------------------------------------------------
(* The MAX worker.                                                         *)

ClientState ==
  [running : BOOLEAN, made : BOOLEAN, is_connected : BOOLEAN, initializing : BOOLEAN,
   ready_event : BOOLEAN, groups : BOOLEAN, sync_state : {"none", "syncing", "ready", "failed"}]

Serving == [step : {"idle"}] \cup [step : {"close", "destroy", "reload"}, on : Clients]

Task == [step : {"off", "created", "sleep", "fetch"}, attempt : 0 .. SYNC_ATTEMPTS]

(* A state whose fields are set anew is still one. *)
LEMMA NotMadeIsState ==
  /\ NotMade \in ClientState
  /\ [NotMade EXCEPT !.running = TRUE, !.made = TRUE, !.initializing = TRUE] \in ClientState
BY DEF NotMade, ClientState

(* create_client makes the session one that nobody has synchronised. *)
LEMMA CreateStep ==
  ASSUME NEW table \in [Clients -> ClientState], NEW k \in Clients, create_client(k, table)
  PROVE  /\ client' \in [Clients -> ClientState] /\ maxSession' \in Clients
         /\ client'[maxSession'].sync_state = "none"
BY NotMadeIsState DEF create_client, NotMade

(* A task that is created is one more: it neither has its turn nor ends another.          *)
LEMMA CreateTaskStep ==
  ASSUME MaxTypeOK, CreateTask
  PROVE  /\ syncTask' \in [SyncTasks -> Task]
         /\ \A l \in SyncTasks : /\ syncTask[l].step # "off" => syncTask'[l] = syncTask[l]
                                 /\ syncTask[l].step = "off" => syncTask'[l].step \in {"off", "created"}
         /\ \E l \in SyncTasks : syncTask'[l].step = "created"
<1>1. PICK l \in SyncTasks : /\ syncTask[l].step = "off"
                             /\ syncTask' = [syncTask EXCEPT ![l] = [syncTask[l] EXCEPT !.step = "created"]]
  BY DEF CreateTask
<1>2. syncTask \in [SyncTasks -> Task]
  BY DEF MaxTypeOK, Task
<1>3. [syncTask[l] EXCEPT !.step = "created"] \in Task /\ [syncTask[l] EXCEPT !.step = "created"].step = "created"
  BY <1>2 DEF Task
<1> QED BY <1>1, <1>2, <1>3

(* A session that says "syncing", and was not marked before it was connected, was         *)
(* connected then; a client that ends does not come back; and while it is connected, a     *)
(* task is at work on it.                                                                  *)
MarkInv ==
  maxSession # NoClient /\ client[maxSession].sync_state = "syncing" /\ maxSession \notin mismarked
    => /\ client[maxSession].running => client[maxSession].is_connected
       /\ client[maxSession].is_connected
            => \E l \in SyncTasks : syncTask[l].step \in {"sleep", "fetch"}

(* The MAX half of ReadyHasGroups. *)
MaxReady ==
  maxSession # NoClient /\ client[maxSession].sync_state = "ready"
    => client[maxSession].groups \/ \E l \in SyncTasks : syncTask[l].step = "created"

MaxInv == MaxTypeOK /\ MarkInv /\ MaxReady

LEMMA MaxTypesAre ==
  MaxTypeOK <=> /\ maxSession \in Clients \cup {NoClient} /\ client \in [Clients -> ClientState]
                /\ handler \in [Handlers -> Serving] /\ syncTask \in [SyncTasks -> Task]
                /\ reusable \in BOOLEAN /\ mismarked \subseteq Clients
BY DEF MaxTypeOK, ClientState, Serving, Task

(* What the closing of a client, the end and the retry of a synchronisation write.        *)
LEMMA ClientUpdates ==
  ASSUME NEW state \in ClientState
  PROVE  /\ [state EXCEPT !.running = FALSE] \in ClientState
         /\ [state EXCEPT !.sync_state = "ready", !.groups = TRUE] \in ClientState
         /\ [state EXCEPT !.sync_state = "none", !.groups = FALSE] \in ClientState
         /\ [[state EXCEPT !.sync_state = "ready"] EXCEPT !.groups = TRUE] \in ClientState
         /\ [[state EXCEPT !.sync_state = "none"] EXCEPT !.groups = FALSE] \in ClientState
BY DEF ClientState

(* A step that leaves the session, its state and the tasks that are not created or off.   *)
LEMMA MaxQuiet ==
  ASSUME MaxInv, UNCHANGED <<maxSession, client, syncTask, mismarked>>
  PROVE  MarkInv' /\ MaxReady'
BY DEF MaxInv, MarkInv, MaxReady

(* A new session is neither "syncing" nor "ready". *)
LEMMA MaxFresh ==
  ASSUME maxSession' # NoClient => client'[maxSession'].sync_state \notin {"syncing", "ready"}
  PROVE  MarkInv' /\ MaxReady'
BY DEF MarkInv, MaxReady

LEMMA HandlerSteps ==
  ASSUME MaxInv, NEW c \in Handlers, HandlerStep(c)
  PROVE  MaxInv'
<1>0. /\ maxSession \in Clients \cup {NoClient} /\ client \in [Clients -> ClientState]
      /\ handler \in [Handlers -> Serving] /\ syncTask \in [SyncTasks -> Task]
      /\ reusable \in BOOLEAN /\ mismarked \subseteq Clients /\ MaxTypeOK /\ MarkInv /\ MaxReady
  BY MaxTypesAre DEF MaxInv
<1> USE MaxAssumption
<1>1. CASE start_session(c)
  <2>1. /\ client' \in [Clients -> ClientState] /\ maxSession' \in Clients
        /\ client'[maxSession'].sync_state = "none"
    BY <1>0, <1>1, CreateStep DEF start_session
  <2>2. MaxTypeOK'
    BY <1>0, <1>1, <2>1, MaxTypesAre DEF start_session, MaxTypeOK, ClientState
  <2> QED BY <2>1, <2>2, MaxFresh DEF MaxInv
<1>2. CASE StartOverStale(c)
  <2>1. MaxTypeOK'
    <3>1. handler' \in [Handlers -> Serving]
      BY <1>0, <1>2 DEF StartOverStale, SetHandler, Serving
    <3> QED BY <1>0, <1>2, <3>1 DEF StartOverStale, MaxTypeOK, Serving
  <2> QED BY <1>2, <2>1, MaxQuiet DEF StartOverStale, MaxInv
<1>3. CASE StaleClosed(c)
  <2>1. handler[c].on \in Clients
    BY <1>0, <1>3 DEF StaleClosed, Serving
  <2>2. [client EXCEPT ![handler[c].on].running = FALSE] \in [Clients -> ClientState]
    BY <1>0, <2>1, ClientUpdates
  <2>3. /\ client' \in [Clients -> ClientState] /\ maxSession' \in Clients
        /\ client'[maxSession'].sync_state = "none"
    BY <1>3, <2>2, CreateStep DEF StaleClosed
  <2>4. MaxTypeOK'
    BY <1>0, <1>3, <2>3 DEF StaleClosed, SetHandler, Unserved, MaxTypeOK, ClientState
  <2> QED BY <2>3, <2>4, MaxFresh DEF MaxInv
<1>4. CASE destroy_session(c)
  <2>1. handler' \in [Handlers -> Serving] /\ reusable' \in BOOLEAN
    <3>1. CASE maxSession = NoClient
      BY <1>0, <1>4, <3>1 DEF destroy_session
    <3>2. CASE maxSession # NoClient
      <4>1. [step |-> "destroy", on |-> maxSession] \in Serving
        BY <1>0, <3>2 DEF Serving
      <4> QED BY <1>0, <1>4, <3>2, <4>1 DEF destroy_session, SetHandler
    <3> QED BY <3>1, <3>2
  <2>2. MaxTypeOK'
    BY <1>0, <1>4, <2>1 DEF destroy_session, MaxTypeOK, Serving
  <2> QED BY <1>4, <2>2, MaxQuiet DEF destroy_session, MaxInv
<1>5. CASE ClientClosed(c)
  <2>1. handler[c].on \in Clients
    BY <1>0, <1>5 DEF ClientClosed, Serving
  <2>2. client' \in [Clients -> ClientState]
    BY <1>0, <1>5, <2>1, ClientUpdates DEF ClientClosed
  <2>3. MaxTypeOK'
    BY <1>0, <1>5, <2>2 DEF ClientClosed, SetHandler, Unserved, MaxTypeOK, ClientState
  <2> QED BY <1>5, <2>3, MaxFresh DEF ClientClosed, MaxInv
<1>6. CASE get_sync_status(c)
  <2>1. PICK k \in Clients : create_client(k, client) /\ SetHandler(c, [step |-> "reload", on |-> k])
    BY <1>6 DEF get_sync_status
  <2>2. /\ client' \in [Clients -> ClientState] /\ maxSession' \in Clients
        /\ client'[maxSession'].sync_state = "none"
    BY <1>0, <2>1, CreateStep
  <2>3. handler' \in [Handlers -> Serving]
    BY <1>0, <2>1 DEF SetHandler, Serving
  <2>4. MaxTypeOK'
    BY <1>0, <1>6, <2>2, <2>3 DEF get_sync_status, MaxTypeOK, ClientState, Serving
  <2> QED BY <2>2, <2>4, MaxFresh DEF MaxInv
<1>7. CASE Reloaded(c)
  <2>1. handler' \in [Handlers -> Serving]
    BY <1>0, <1>7 DEF Reloaded, SetHandler, Serving, Unserved
  <2>2. CASE UNCHANGED syncTask
    <3>1. MaxTypeOK'
      BY <1>0, <1>7, <2>1, <2>2 DEF Reloaded, MaxTypeOK, Serving
    <3> QED BY <1>7, <2>2, <3>1, MaxQuiet DEF Reloaded, MaxInv
  <2>3. CASE CreateTask
    <3>1. MaxTypeOK'
      BY <1>0, <1>7, <2>1, <2>3, CreateTaskStep DEF Reloaded, MaxTypeOK, Serving, Task
    <3>2. MarkInv' /\ MaxReady'
      BY <1>0, <1>7, <2>3, CreateTaskStep DEF Reloaded, MarkInv, MaxReady
    <3> QED BY <3>1, <3>2 DEF MaxInv
  <2> QED BY <1>7, <2>2, <2>3 DEF Reloaded
<1> QED BY <1>1, <1>2, <1>3, <1>4, <1>5, <1>6, <1>7 DEF HandlerStep

LEMMA ClientSteps ==
  ASSUME MaxInv, NEW k \in Clients, on_start(k) \/ _run_client(k)
  PROVE  MaxInv'
<1>0. /\ maxSession \in Clients \cup {NoClient} /\ client \in [Clients -> ClientState]
      /\ handler \in [Handlers -> Serving] /\ syncTask \in [SyncTasks -> Task]
      /\ reusable \in BOOLEAN /\ mismarked \subseteq Clients /\ MaxTypeOK /\ MarkInv /\ MaxReady
  BY MaxTypesAre DEF MaxInv
<1> USE MaxAssumption
<1>1. CASE on_start(k)
  <2> DEFINE unsynced == client[k].sync_state \in {"none", "failed"}
             new == [client[k] EXCEPT !.is_connected = TRUE, !.initializing = FALSE, !.ready_event = TRUE,
                       !.sync_state = IF unsynced THEN "ready" ELSE client[k].sync_state]
  <2>1. /\ client[k].running /\ client' = [client EXCEPT ![k] = new]
        /\ IF unsynced THEN CreateTask ELSE UNCHANGED syncTask
        /\ UNCHANGED <<maxSession, handler, mismarked>> /\ reusable' \in {reusable, TRUE}
    BY <1>1 DEF on_start
  <2>2. /\ new \in ClientState /\ new.groups = client[k].groups /\ new.is_connected
        /\ new.sync_state = IF unsynced THEN "ready" ELSE client[k].sync_state
    BY <1>0 DEF ClientState
  <2> HIDE DEF new
  <2>3. syncTask' \in [SyncTasks -> Task]
        /\ \A l \in SyncTasks : syncTask[l].step # "off" => syncTask'[l] = syncTask[l]
    BY <1>0, <2>1, CreateTaskStep
  <2>4. MaxTypeOK'
    BY <1>0, <2>1, <2>2, <2>3 DEF MaxTypeOK, ClientState, Task
  <2>5. CASE maxSession # k
    <3>1. maxSession # NoClient => client'[maxSession] = client[maxSession]
      BY <1>0, <2>1, <2>5
    <3>2. \A l \in SyncTasks : syncTask[l].step = "created" => syncTask'[l] = syncTask[l]
      BY <2>3
    <3>3. \A l \in SyncTasks : syncTask[l].step \in {"sleep", "fetch"} => syncTask'[l] = syncTask[l]
      BY <2>3
    <3>4. MarkInv'
      BY <1>0, <2>1, <3>1, <3>3 DEF MarkInv
    <3>5. MaxReady'
      BY <1>0, <2>1, <3>1, <3>2 DEF MaxReady
    <3> QED BY <2>4, <3>4, <3>5 DEF MaxInv
  <2>6. CASE maxSession = k
    <3>1. client'[maxSession'] = new /\ maxSession' = k
      BY <1>0, <2>1, <2>6
    <3>2. CASE unsynced
      <4>1. \E l \in SyncTasks : syncTask'[l].step = "created"
        BY <1>0, <2>1, <3>2, CreateTaskStep
      <4> QED BY <2>2, <2>4, <3>1, <3>2, <4>1 DEF MaxInv, MarkInv, MaxReady
    <3>3. CASE ~unsynced
      <4>1. syncTask' = syncTask /\ mismarked' = mismarked /\ new.sync_state = client[k].sync_state
        BY <2>1, <2>2, <3>3
      <4>2. MarkInv'
        BY <1>0, <2>1, <2>2, <2>6, <3>1, <4>1 DEF MarkInv
      <4>3. MaxReady'
        BY <1>0, <2>2, <2>6, <3>1, <4>1 DEF MaxReady
      <4> QED BY <2>4, <4>2, <4>3 DEF MaxInv
    <3> QED BY <3>2, <3>3
  <2> QED BY <2>5, <2>6
<1>2. CASE _run_client(k)
  <2> DEFINE new == [client[k] EXCEPT !.running = FALSE, !.is_connected = FALSE,
                                      !.initializing = FALSE, !.ready_event = TRUE]
  <2>1. /\ client' = [client EXCEPT ![k] = new]
        /\ UNCHANGED <<maxSession, handler, syncTask, reusable, mismarked>>
    BY <1>2 DEF _run_client
  <2>2. /\ new \in ClientState /\ new.groups = client[k].groups /\ ~new.is_connected /\ ~new.running
        /\ new.sync_state = client[k].sync_state
    BY <1>0 DEF ClientState
  <2> HIDE DEF new
  <2>3. MaxTypeOK'
    BY <1>0, <2>1, <2>2 DEF MaxTypeOK, ClientState
  <2>4. MarkInv' /\ MaxReady'
    BY <1>0, <2>1, <2>2 DEF MarkInv, MaxReady
  <2> QED BY <2>3, <2>4 DEF MaxInv
<1> QED BY <1>1, <1>2

LEMMA TaskSteps ==
  ASSUME MaxInv, NEW t \in SyncTasks, TaskStep(t)
  PROVE  MaxInv'
<1>0. /\ maxSession \in Clients \cup {NoClient} /\ client \in [Clients -> ClientState]
      /\ handler \in [Handlers -> Serving] /\ syncTask \in [SyncTasks -> Task]
      /\ reusable \in BOOLEAN /\ mismarked \subseteq Clients /\ MaxTypeOK /\ MarkInv /\ MaxReady
      /\ syncTask[t] \in Task
  BY MaxTypesAre DEF MaxInv
<1>a. Ended \in Task /\ Ended.step = "off"
  BY MaxAssumption DEF Ended, Task
<1>b. ASSUME NEW v \in Task, syncTask' = [syncTask EXCEPT ![t] = v]
      PROVE  syncTask' \in [SyncTasks -> Task] /\ syncTask'[t] = v
  BY <1>0, <1>b
<1>c. ASSUME NEW v \in {"none", "syncing", "ready", "failed"}, maxSession # NoClient,
             client' = [client EXCEPT ![maxSession] = [client[maxSession] EXCEPT !.sync_state = v]]
      PROVE  /\ client' \in [Clients -> ClientState]
             /\ client'[maxSession].sync_state = v
             /\ client'[maxSession].groups = client[maxSession].groups
             /\ client'[maxSession].running = client[maxSession].running
             /\ client'[maxSession].is_connected = client[maxSession].is_connected
  BY <1>0, <1>c DEF ClientState
<1>1. CASE TaskBegins(t)
  <2>1. CASE maxSession = NoClient
    <3>1. MaxTypeOK'
      BY <1>0, <1>1, <1>a, <1>b, <2>1 DEF TaskBegins, MaxTypeOK, Task
    <3> QED BY <1>1, <2>1, <3>1, MaxFresh DEF TaskBegins, MaxInv
  <2>2. CASE maxSession # NoClient
    <3>1. [syncTask[t] EXCEPT !.step = "sleep"] \in Task
      BY <1>0 DEF Task
    <3>2. syncTask' \in [SyncTasks -> Task] /\ syncTask'[t].step = "sleep"
      BY <1>0, <1>1, <1>b, <2>2, <3>1 DEF TaskBegins, Task
    <3>3. /\ client' \in [Clients -> ClientState] /\ client'[maxSession].sync_state = "syncing"
          /\ client'[maxSession].is_connected = client[maxSession].is_connected
      BY <1>1, <1>c, <2>2 DEF TaskBegins
    <3>4. mismarked' = IF Online THEN mismarked ELSE mismarked \cup {maxSession}
      BY <1>1, <2>2 DEF TaskBegins
    <3>5. UNCHANGED <<maxSession, handler, reusable>>
      BY <1>1 DEF TaskBegins
    <3>6. MaxTypeOK'
      BY <1>0, <2>2, <3>2, <3>3, <3>4, <3>5 DEF MaxTypeOK, ClientState, Task
    <3>7. MarkInv' /\ MaxReady'
      BY <2>2, <3>2, <3>3, <3>4, <3>5 DEF MarkInv, MaxReady, Online
    <3> QED BY <3>6, <3>7 DEF MaxInv
  <2> QED BY <2>1, <2>2
<1>2. CASE TaskWakes(t)
  <2>1. [syncTask[t] EXCEPT !.step = "fetch"] \in Task /\ [syncTask[t] EXCEPT !.step = "fetch"].step = "fetch"
    BY <1>0 DEF Task
  <2>2. /\ syncTask' \in [SyncTasks -> Task] /\ (Online => syncTask'[t].step = "fetch")
        /\ \A l \in SyncTasks \ {t} : syncTask'[l] = syncTask[l]
        /\ UNCHANGED <<maxSession, client, handler, reusable, mismarked>> /\ syncTask[t].step = "sleep"
    BY <1>0, <1>2, <1>a, <1>b, <2>1 DEF TaskWakes
  <2>3. MaxTypeOK'
    BY <1>0, <2>2 DEF MaxTypeOK, Task
  <2>4. MarkInv'
    BY <1>0, <2>2 DEF MarkInv, Online
  <2>5. MaxReady'
    BY <1>0, <2>2 DEF MaxReady
  <2> QED BY <2>3, <2>4, <2>5 DEF MaxInv
<1>3. CASE TaskFetched(t)
  <2>1. /\ client' \in [Clients -> ClientState] /\ client'[maxSession].sync_state = "ready"
        /\ client'[maxSession].groups
    <3>1. maxSession \in Clients /\ client[maxSession] \in ClientState
      BY <1>0, <1>3 DEF TaskFetched
    <3>2. client' \in [Clients -> ClientState]
      BY <1>0, <1>3, <3>1, ClientUpdates DEF TaskFetched
    <3> QED BY <1>0, <1>3, <3>1, <3>2 DEF TaskFetched, ClientState
  <2>2. MaxTypeOK'
    BY <1>0, <1>3, <1>a, <1>b, <2>1 DEF TaskFetched, MaxTypeOK, ClientState, Task
  <2>3. MarkInv' /\ MaxReady'
    BY <1>3, <2>1 DEF TaskFetched, MarkInv, MaxReady
  <2> QED BY <2>2, <2>3 DEF MaxInv
<1>4. CASE TaskFails(t)
  <2> DEFINE again == syncTask[t].attempt + 1 < SYNC_ATTEMPTS
  <2>1. /\ syncTask[t].step = "fetch" /\ UNCHANGED <<maxSession, handler, reusable, mismarked>>
        /\ syncTask' = [syncTask EXCEPT ![t] =
             IF again THEN [step |-> "sleep", attempt |-> syncTask[t].attempt + 1] ELSE Ended]
        /\ client' = IF again \/ maxSession = NoClient THEN client
                     ELSE [client EXCEPT ![maxSession].sync_state = "failed"]
    BY <1>4 DEF TaskFails
  <2>2. again => syncTask[t].attempt + 1 \in 0 .. SYNC_ATTEMPTS
    BY <1>0, MaxAssumption DEF Task
  <2>3. again => [step |-> "sleep", attempt |-> syncTask[t].attempt + 1] \in Task
    BY <2>2 DEF Task
  <2> HIDE DEF again
  <2>4. /\ syncTask' \in [SyncTasks -> Task] /\ (again => syncTask'[t].step = "sleep")
        /\ \A l \in SyncTasks \ {t} : syncTask'[l] = syncTask[l]
    <3>1. CASE again
      BY <1>0, <1>b, <2>1, <2>3, <3>1
    <3>2. CASE ~again
      BY <1>0, <1>a, <1>b, <2>1, <3>2
    <3> QED BY <3>1, <3>2
  <2>5. CASE again \/ maxSession = NoClient
    <3>1. client' = client
      BY <2>1, <2>5
    <3>2. MaxTypeOK'
      BY <1>0, <2>1, <2>4, <3>1 DEF MaxTypeOK, Task
    <3>3. MarkInv' /\ MaxReady'
      BY <1>0, <2>1, <2>4, <2>5, <3>1 DEF MarkInv, MaxReady
    <3> QED BY <3>2, <3>3 DEF MaxInv
  <2>6. CASE ~(again \/ maxSession = NoClient)
    <3>1. client' \in [Clients -> ClientState] /\ client'[maxSession].sync_state = "failed"
      BY <1>c, <2>1, <2>6
    <3>2. MaxTypeOK'
      BY <1>0, <2>1, <2>4, <3>1 DEF MaxTypeOK, Task, ClientState
    <3> QED BY <2>1, <3>1, <3>2, MaxFresh DEF MaxInv
  <2> QED BY <2>5, <2>6
<1> QED BY <1>1, <1>2, <1>3, <1>4 DEF TaskStep

LEMMA MaxInductive == MaxInv /\ MaxNext => MaxInv'
<1> SUFFICES ASSUME MaxInv, MaxNext PROVE MaxInv'
  OBVIOUS
<1>0. /\ maxSession \in Clients \cup {NoClient} /\ client \in [Clients -> ClientState]
      /\ handler \in [Handlers -> Serving] /\ syncTask \in [SyncTasks -> Task]
      /\ reusable \in BOOLEAN /\ mismarked \subseteq Clients /\ MaxTypeOK
  BY MaxTypesAre DEF MaxInv
<1>1. CASE retry_sync
  <2>1. /\ client' \in [Clients -> ClientState] /\ client'[maxSession].sync_state = "none"
        /\ maxSession \in Clients
    <3>1. maxSession \in Clients /\ client[maxSession] \in ClientState
      BY <1>0, <1>1 DEF retry_sync, Online
    <3>2. client' \in [Clients -> ClientState]
      BY <1>0, <1>1, <3>1, ClientUpdates DEF retry_sync
    <3> QED BY <1>0, <1>1, <3>1, <3>2 DEF retry_sync, ClientState
  <2>2. syncTask' \in [SyncTasks -> Task]
    BY <1>0, <1>1, CreateTaskStep DEF retry_sync
  <2>3. MaxTypeOK'
    BY <1>0, <1>1, <2>1, <2>2 DEF retry_sync, MaxTypeOK, ClientState, Task
  <2> QED BY <1>1, <2>1, <2>3, MaxFresh DEF retry_sync, MaxInv
<1>2. CASE ProcessRestarts
  <2> DEFINE none == [k \in Clients |-> NotMade]
  <2>1. none \in [Clients -> ClientState]
    BY NotMadeIsState
  <2>2. /\ client' \in [Clients -> ClientState] /\ maxSession' \in Clients \cup {NoClient}
        /\ maxSession' # NoClient => client'[maxSession'].sync_state = "none"
    <3>1. CASE reusable
      BY <1>2, <2>1, <3>1, CreateStep DEF ProcessRestarts, Fresh
    <3>2. CASE ~reusable
      BY <1>2, <2>1, <3>2 DEF ProcessRestarts, Fresh
    <3> QED BY <3>1, <3>2
  <2>3. /\ handler' \in [Handlers -> Serving] /\ syncTask' \in [SyncTasks -> Task] /\ mismarked' = {}
        /\ reusable' = reusable
    BY <1>2, MaxAssumption DEF ProcessRestarts, Fresh, Serving, Task, Unserved, Ended
  <2>4. MaxTypeOK'
    BY <1>0, <2>2, <2>3 DEF MaxTypeOK, ClientState, Task, Serving
  <2> QED BY <2>2, <2>4, MaxFresh DEF MaxInv
<1> QED BY <1>1, <1>2, ClientSteps, HandlerSteps, TaskSteps DEF MaxNext

LEMMA MaxInitHolds == MaxInit => MaxInv
<1> SUFFICES ASSUME MaxInit PROVE MaxInv
  OBVIOUS
<1>1. /\ client \in [Clients -> ClientState] /\ handler \in [Handlers -> Serving]
      /\ syncTask \in [SyncTasks -> Task]
  BY NotMadeIsState, MaxAssumption DEF MaxInit, Serving, Unserved, Task, Ended
<1>2. MaxTypeOK
  BY <1>1, MaxTypesAre DEF MaxInit
<1> QED BY <1>2 DEF MaxInit, MaxInv, MarkInv, MaxReady

-----------------------------------------------------------------------------
(* The WhatsApp worker.                                                    *)

(* A socket that says "ready" has the groups. *)
Sound == {state \in Socket : state.syncState = "ready" => state.groups}

Loop == [step : {"off", "sleep", "fetch"}, attempt : 0 .. MAX_ATTEMPTS]

SessionInv == SessionTypeOK /\ sock \in [Sockets -> Sound]

LEMMA SoundIsSocket == Sound \subseteq Socket
BY DEF Sound

LEMMA UnmadeIsSound == Unmade \in Sound
<1>1. 0 \in 0 .. MAX_RECONNECT_ATTEMPTS
  BY SessionAssumption
<1> QED BY <1>1 DEF Unmade, Sound, Socket

(* The updates of a socket, but those of the synchronisation, leave it sound. *)
LEMMA SoundUpdates ==
  ASSUME NEW state \in Sound
  PROVE  /\ \A ready \in {"pending", "resolved", "rejected"} : [state EXCEPT !.ready = ready] \in Sound
         /\ \A outcome \in {"resolved", "rejected"} : Settled(state, outcome) \in Sound
         /\ \A phase \in {"opening", "open", "closed"}, b, c \in BOOLEAN, n \in 0 .. MAX_RECONNECT_ATTEMPTS :
              /\ [state EXCEPT !.phase = phase, !.initializing = b, !.timer = c] \in Sound
              /\ [state EXCEPT !.phase = phase, !.initializing = b, !.timer = c, !.reconnectAttempts = n] \in Sound
         /\ [state EXCEPT !.phase = "closed"] \in Sound
         /\ [state EXCEPT !.intentionalClose = TRUE] \in Sound
<1>1. \A ready \in {"pending", "resolved", "rejected"} : [state EXCEPT !.ready = ready] \in Sound
  BY DEF Sound, Socket
<1>2. \A outcome \in {"resolved", "rejected"} : Settled(state, outcome) \in Sound
  <2> TAKE outcome \in {"resolved", "rejected"}
  <2>1. state.ready \in {"pending", "resolved", "rejected"}
    BY DEF Sound, Socket
  <2>2. (IF state.ready = "pending" THEN outcome ELSE state.ready) \in {"pending", "resolved", "rejected"}
    BY <2>1
  <2> QED BY <1>1, <2>2 DEF Settled
<1>3. ASSUME NEW phase \in {"opening", "open", "closed"}, NEW b \in BOOLEAN, NEW c \in BOOLEAN
      PROVE  [state EXCEPT !.phase = phase, !.initializing = b, !.timer = c] \in Sound
  BY DEF Sound, Socket
<1>4. ASSUME NEW phase \in {"opening", "open", "closed"}, NEW b \in BOOLEAN, NEW c \in BOOLEAN,
             NEW n \in 0 .. MAX_RECONNECT_ATTEMPTS
      PROVE  [state EXCEPT !.phase = phase, !.initializing = b, !.timer = c, !.reconnectAttempts = n] \in Sound
  BY DEF Sound, Socket
<1>5. [state EXCEPT !.phase = "closed"] \in Sound /\ [state EXCEPT !.intentionalClose = TRUE] \in Sound
  BY DEF Sound, Socket
<1> QED BY <1>1, <1>2, <1>3, <1>4, <1>5

LEMMA SyncUpdates ==
  ASSUME NEW state \in Sound
  PROVE  /\ [state EXCEPT !.syncState = "syncing"] \in Sound
         /\ [state EXCEPT !.syncState = "failed"] \in Sound
         /\ [[state EXCEPT !.groups = FALSE] EXCEPT !.syncState = "syncing"] \in Sound
         /\ [state EXCEPT !.syncState = "ready", !.groups = TRUE] \in Sound
BY DEF Sound, Socket

LEMMA MadeStep ==
  ASSUME SessionInv, NEW k \in Sockets, NEW n \in 0 .. MAX_RECONNECT_ATTEMPTS, Made(k, n)
  PROVE  sock' \in [Sockets -> Sound] /\ session' \in Sockets
<1>1. [Unmade EXCEPT !.phase = "opening", !.initializing = TRUE, !.timer = TRUE,
                     !.reconnectAttempts = n] \in Sound
  BY UnmadeIsSound, SoundUpdates
<1> QED BY <1>1 DEF Made, SessionInv

LEMMA StartSyncStep ==
  ASSUME SessionInv, NEW table \in [Sockets -> Sound], startGroupSync(table, session)
  PROVE  sock' \in [Sockets -> Sound] /\ syncLoop' \in [SyncLoops -> Loop]
<1>1. syncLoop \in [SyncLoops -> Loop] /\ session \in Sockets \cup {NoSocket}
  BY DEF SessionInv, SessionTypeOK, Loop
<1>2. CASE session = NoSocket
  BY <1>1, <1>2 DEF startGroupSync
<1>3. CASE session # NoSocket
  <2>1. [table[session] EXCEPT !.syncState = "syncing"] \in Sound
    BY <1>1, <1>3, SyncUpdates
  <2>2. [step |-> "sleep", attempt |-> 0] \in Loop
    BY SessionAssumption DEF Loop
  <2> QED BY <1>1, <1>3, <2>1, <2>2 DEF startGroupSync
<1> QED BY <1>2, <1>3

(* What the types of the rest need of a step. *)
LEMMA SessionTyped ==
  ASSUME session' \in Sockets \cup {NoSocket}, sock' \in [Sockets -> Sound],
         reconnecting' \in [Sockets -> {"off", "timer", "create"}],
         call' \in [Callers \cup {Main} -> Call], loading' \in BOOLEAN,
         syncLoop' \in [SyncLoops -> Loop], onDisk' \in BOOLEAN, serving' \in BOOLEAN,
         dropped' \subseteq Sockets
  PROVE  SessionInv'
<1>1. sock' \in [Sockets -> Socket]
  BY SoundIsSocket
<1> QED BY <1>1 DEF SessionInv, SessionTypeOK, Loop

LEMMA SocketSteps ==
  ASSUME SessionInv, NEW k \in Sockets, SocketStep(k) \/ Timer(k)
  PROVE  SessionInv'
<1>0. /\ session \in Sockets \cup {NoSocket} /\ sock \in [Sockets -> Sound] /\ sock[k] \in Sound
      /\ reconnecting \in [Sockets -> {"off", "timer", "create"}]
      /\ call \in [Callers \cup {Main} -> Call] /\ loading \in BOOLEAN
      /\ syncLoop \in [SyncLoops -> Loop] /\ onDisk \in BOOLEAN /\ serving \in BOOLEAN
      /\ dropped \subseteq Sockets /\ sock[k] \in Socket
  BY DEF SessionInv, SessionTypeOK, Loop
<1> USE SessionAssumption
<1>a. ASSUME MayReconnect(k) PROVE Closed(k) \in Sound
  <2>1. sock[k].reconnectAttempts + 1 \in 0 .. MAX_RECONNECT_ATTEMPTS
    BY <1>0, <1>a DEF MayReconnect, Socket
  <2> QED BY <1>0, <2>1, SoundUpdates DEF Closed
<1>1. CASE Opens(k)
  <2> DEFINE open == [Settled(sock[k], "resolved") EXCEPT !.phase = "open", !.initializing = FALSE,
                                                         !.timer = FALSE, !.reconnectAttempts = 0]
             table == [sock EXCEPT ![k] = open]
  <2>1. open \in Sound
    <3>1. Settled(sock[k], "resolved") \in Sound
      BY <1>0, SoundUpdates
    <3>2. 0 \in 0 .. MAX_RECONNECT_ATTEMPTS
      OBVIOUS
    <3> QED BY <3>1, <3>2 DEF Sound, Socket
  <2>2. table \in [Sockets -> Sound]
    BY <1>0, <2>1
  <2>3. /\ startGroupSync(table, session) \/ (sock' = table /\ UNCHANGED syncLoop)
        /\ onDisk' = TRUE /\ UNCHANGED <<session, reconnecting, call, loading, serving, dropped>>
    BY <1>1 DEF Opens
  <2> HIDE DEF table
  <2>4. sock' \in [Sockets -> Sound] /\ syncLoop' \in [SyncLoops -> Loop]
    BY <1>0, <2>2, <2>3, StartSyncStep
  <2> QED BY <1>0, <2>3, <2>4, SessionTyped
<1>2. CASE ClosesRecoverably(k)
  <2>1. sock' \in [Sockets -> Sound]
    BY <1>0, <1>2, <1>a DEF ClosesRecoverably
  <2> QED BY <1>0, <1>2, <2>1, SessionTyped DEF ClosesRecoverably
<1>3. CASE Closes(k)
  <2>1. [Settled(sock[k], "rejected") EXCEPT !.phase = "closed", !.initializing = FALSE,
                                             !.timer = FALSE] \in Sound
    <3>1. Settled(sock[k], "rejected") \in Sound
      BY <1>0, SoundUpdates
    <3> QED BY <3>1 DEF Sound, Socket
  <2>2. sock' \in [Sockets -> Sound]
    BY <1>0, <1>3, <2>1 DEF Closes
  <2> QED BY <1>0, <1>3, <2>2, SessionTyped DEF Closes
<1>4. CASE ClosesIntentionally(k)
  <2>1. sock' \in [Sockets -> Sound]
    BY <1>0, <1>4, SoundUpdates DEF ClosesIntentionally
  <2> QED BY <1>0, <1>4, <2>1, SessionTyped DEF ClosesIntentionally
<1>5. CASE ReadyTimeout(k)
  <2> DEFINE closes == sock[k].phase = "opening" /\ ~sock[k].intentionalClose /\ MayReconnect(k)
             state == IF closes THEN Closed(k) ELSE sock[k]
             ended == [state EXCEPT !.phase = "closed", !.initializing = FALSE, !.timer = FALSE]
  <2>1. state \in Sound
    BY <1>0, <1>a
  <2> HIDE DEF state
  <2>2. ended \in Sound
    BY <2>1 DEF Sound, Socket
  <2>3. /\ sock' = [sock EXCEPT ![k] = Settled(ended, "rejected")]
        /\ reconnecting' = IF closes THEN [reconnecting EXCEPT ![k] = "timer"] ELSE reconnecting
        /\ session' = NoSocket /\ UNCHANGED <<call, loading, syncLoop, onDisk, serving, dropped>>
    BY <1>5 DEF ReadyTimeout, state
  <2> HIDE DEF ended, closes
  <2>4. sock' \in [Sockets -> Sound]
    BY <1>0, <2>2, <2>3, SoundUpdates
  <2> QED BY <1>0, <2>3, <2>4, SessionTyped
<1>6. CASE ReconnectFires(k)
  BY <1>0, <1>6, SessionTyped DEF ReconnectFires
<1>7. ASSUME NEW n \in Sockets, Reconnects(k, n)
      PROVE  SessionInv'
  <2>1. sock[k].reconnectAttempts \in 0 .. MAX_RECONNECT_ATTEMPTS
    BY <1>0 DEF Socket
  <2>2. sock' \in [Sockets -> Sound] /\ session' \in Sockets
    BY <1>7, <2>1, MadeStep DEF Reconnects
  <2> QED BY <1>0, <1>7, <2>2, SessionTyped DEF Reconnects
<1> QED BY <1>1, <1>2, <1>3, <1>4, <1>5, <1>6, <1>7 DEF SocketStep, Timer

LEMMA CallSteps ==
  ASSUME SessionInv, NEW c \in Callers \cup {Main},
         CallStep(c) \/ ensureSession(c) \/ Start(c) \/ Destroy(c)
  PROVE  SessionInv'
<1>0. /\ session \in Sockets \cup {NoSocket} /\ sock \in [Sockets -> Sound]
      /\ reconnecting \in [Sockets -> {"off", "timer", "create"}]
      /\ call \in [Callers \cup {Main} -> Call] /\ loading \in BOOLEAN
      /\ syncLoop \in [SyncLoops -> Loop] /\ onDisk \in BOOLEAN /\ serving \in BOOLEAN
      /\ dropped \subseteq Sockets
  BY DEF SessionInv, SessionTypeOK, Loop
<1> USE SessionAssumption
<1>a. ASSUME NEW v \in Call, SetCall(c, v)
      PROVE  call' \in [Callers \cup {Main} -> Call]
  BY <1>0, <1>a DEF SetCall
<1>b. /\ \A step \in {"idle", "start", "create", "joined", "logout"} : Await(step) \in Call
      /\ \A step \in {"wait", "load"}, k \in Sockets : AwaitOn(step, k) \in Call
  BY DEF Await, AwaitOn, Call
<1>c. 0 \in 0 .. MAX_RECONNECT_ATTEMPTS
  OBVIOUS
<1>1. ASSUME NEW k \in Sockets, LoadMakes(c, k)
      PROVE  SessionInv'
  <2>1. sock' \in [Sockets -> Sound] /\ session' \in Sockets
    BY <1>1, <1>c, MadeStep DEF LoadMakes
  <2> QED BY <1>0, <1>1, <1>a, <1>b, <2>1, SessionTyped DEF LoadMakes
<1>2. ASSUME NEW k \in Sockets, Started(c, k)
      PROVE  SessionInv'
  <2>1. sock' \in [Sockets -> Sound] /\ session' \in Sockets
    BY <1>2, <1>c, MadeStep DEF Started
  <2> QED BY <1>0, <1>2, <1>a, <1>b, <2>1, SessionTyped DEF Started
<1>3. CASE WaitIsOver(c)
  BY <1>0, <1>3, <1>a, <1>b, SessionTyped DEF WaitIsOver
<1>4. CASE LoadIsOver(c)
  <2>1. call' \in [Callers \cup {Main} -> Call]
    BY <1>0, <1>4, <1>b DEF LoadIsOver
  <2>2. sock' \in [Sockets -> Sound] /\ syncLoop' \in [SyncLoops -> Loop]
    BY <1>0, <1>4, StartSyncStep DEF LoadIsOver
  <2> QED BY <1>0, <1>4, <2>1, <2>2, SessionTyped DEF LoadIsOver
<1>5. CASE Destroyed(c)
  BY <1>0, <1>5, <1>a, <1>b, SessionTyped DEF Destroyed
<1>6. CASE ensureSession(c)
  <2>1. call' \in [Callers \cup {Main} -> Call] /\ loading' \in BOOLEAN
    BY <1>0, <1>6, <1>a, <1>b DEF ensureSession
  <2> QED BY <1>0, <1>6, <2>1, SessionTyped DEF ensureSession
<1>7. CASE Start(c)
  BY <1>0, <1>7, <1>a, <1>b, SessionTyped DEF Start
<1>8. CASE Destroy(c)
  <2>1. sock' \in [Sockets -> Sound]
    BY <1>0, <1>8, SoundUpdates DEF Destroy
  <2> QED BY <1>0, <1>8, <1>a, <1>b, <2>1, SessionTyped DEF Destroy
<1> QED BY <1>1, <1>2, <1>3, <1>4, <1>5, <1>6, <1>7, <1>8 DEF CallStep

LEMMA SyncSteps ==
  ASSUME SessionInv, (\E l \in SyncLoops : SyncStep(l)) \/ RetrySync
  PROVE  SessionInv'
<1>0. /\ session \in Sockets \cup {NoSocket} /\ sock \in [Sockets -> Sound]
      /\ reconnecting \in [Sockets -> {"off", "timer", "create"}]
      /\ call \in [Callers \cup {Main} -> Call] /\ loading \in BOOLEAN
      /\ syncLoop \in [SyncLoops -> Loop] /\ onDisk \in BOOLEAN /\ serving \in BOOLEAN
      /\ dropped \subseteq Sockets
  BY DEF SessionInv, SessionTypeOK, Loop
<1> USE SessionAssumption
<1>a. Off \in Loop
  BY DEF Off, Loop
<1>1. ASSUME NEW l \in SyncLoops, SyncWakes(l)
      PROVE  SessionInv'
  <2>1. [syncLoop[l] EXCEPT !.step = "fetch"] \in Loop
    BY <1>0 DEF Loop
  <2>2. syncLoop' \in [SyncLoops -> Loop]
    BY <1>0, <1>1, <1>a, <2>1 DEF SyncWakes
  <2> QED BY <1>0, <1>1, <2>2, SessionTyped DEF SyncWakes
<1>2. ASSUME NEW l \in SyncLoops, SyncFetched(l)
      PROVE  SessionInv'
  <2>1. [sock[session] EXCEPT !.syncState = "ready", !.groups = TRUE] \in Sound
    BY <1>0, <1>2, SyncUpdates DEF SyncFetched
  <2>2. sock' \in [Sockets -> Sound]
    <3>1. sock' = [sock EXCEPT ![session] = [sock[session] EXCEPT !.syncState = "ready", !.groups = TRUE]]
      BY <1>0, <1>2 DEF SyncFetched
    <3> QED BY <1>0, <2>1, <3>1
  <2>3. syncLoop' \in [SyncLoops -> Loop]
    BY <1>0, <1>2, <1>a DEF SyncFetched
  <2> QED BY <1>0, <1>2, <2>2, <2>3, SessionTyped DEF SyncFetched
<1>3. ASSUME NEW l \in SyncLoops, SyncFails(l)
      PROVE  SessionInv'
  <2>1. syncLoop' \in [SyncLoops -> Loop]
    <3>1. CASE syncLoop[l].attempt + 1 < MAX_ATTEMPTS
      <4>1. syncLoop[l].attempt + 1 \in 0 .. MAX_ATTEMPTS
        BY <1>0, <3>1 DEF Loop
      <4>2. [step |-> "sleep", attempt |-> syncLoop[l].attempt + 1] \in Loop
        BY <4>1 DEF Loop
      <4> QED BY <1>0, <1>3, <3>1, <4>2 DEF SyncFails
    <3>2. CASE ~(syncLoop[l].attempt + 1 < MAX_ATTEMPTS)
      BY <1>0, <1>3, <1>a, <3>2 DEF SyncFails
    <3> QED BY <3>1, <3>2
  <2>2. sock' \in [Sockets -> Sound]
    <3>1. session # NoSocket => [sock[session] EXCEPT !.syncState = "failed"] \in Sound
      BY <1>0, SyncUpdates
    <3>2. sock' = sock \/ (session # NoSocket /\ sock' = [sock EXCEPT ![session] =
                                                       [sock[session] EXCEPT !.syncState = "failed"]])
      BY <1>3 DEF SyncFails
    <3> QED BY <1>0, <3>1, <3>2
  <2> QED BY <1>0, <1>3, <2>1, <2>2, SessionTyped DEF SyncFails
<1>4. CASE RetrySync
  <2> DEFINE table == [sock EXCEPT ![session].groups = FALSE]
  <2>1. session \in Sockets /\ startGroupSync(table, session)
    BY <1>0, <1>4 DEF RetrySync, IsConnected
  <2>2. [[sock[session] EXCEPT !.groups = FALSE] EXCEPT !.syncState = "syncing"] \in Sound
    BY <1>0, <2>1, SyncUpdates
  <2>3. /\ sock' = [sock EXCEPT ![session] =
                      [[sock[session] EXCEPT !.groups = FALSE] EXCEPT !.syncState = "syncing"]]
        /\ \E l \in SyncLoops : syncLoop' = [syncLoop EXCEPT ![l] = [step |-> "sleep", attempt |-> 0]]
    BY <1>0, <2>1 DEF startGroupSync
  <2>4. sock' \in [Sockets -> Sound]
    BY <1>0, <2>1, <2>2, <2>3
  <2>5. [step |-> "sleep", attempt |-> 0] \in Loop
    BY DEF Loop
  <2>6. syncLoop' \in [SyncLoops -> Loop]
    BY <1>0, <2>3, <2>5
  <2> QED BY <1>0, <1>4, <2>4, <2>6, SessionTyped DEF RetrySync
<1> QED BY <1>1, <1>2, <1>3, <1>4 DEF SyncStep

LEMMA SessionInductive == SessionInv /\ SessionNext => SessionInv'
<1> SUFFICES ASSUME SessionInv, SessionNext PROVE SessionInv'
  OBVIOUS
<1>1. CASE WorkerRestarts
  <2>1. sock' \in [Sockets -> Sound] /\ syncLoop' \in [SyncLoops -> Loop]
    BY <1>1, UnmadeIsSound, SessionAssumption DEF WorkerRestarts, Loop, Off
  <2>2. onDisk \in BOOLEAN
    BY DEF SessionInv, SessionTypeOK
  <2>3. call' \in [Callers \cup {Main} -> Call]
    BY <1>1 DEF WorkerRestarts, Await, Call
  <2> QED BY <1>1, <2>1, <2>2, <2>3, SessionTyped DEF WorkerRestarts
<1> QED BY <1>1, SocketSteps, CallSteps, SyncSteps DEF SessionNext

LEMMA SessionInitHolds == SessionInit => SessionInv
<1> SUFFICES ASSUME SessionInit PROVE SessionInv
  OBVIOUS
<1>1. sock \in [Sockets -> Sound] /\ sock \in [Sockets -> Socket]
  BY UnmadeIsSound, SoundIsSocket DEF SessionInit
<1>2. syncLoop \in [SyncLoops -> Loop]
  BY SessionAssumption DEF SessionInit, Loop, Off
<1>3. call \in [Callers \cup {Main} -> Call]
  BY DEF SessionInit, Await, Call
<1> QED BY <1>1, <1>2, <1>3 DEF SessionInit, SessionInv, SessionTypeOK, Loop

-----------------------------------------------------------------------------
(* The composition.                                                        *)

IInv == messenger \in {"tg_user", "wa", "max"} /\ LoginInv /\ SessionInv /\ MaxInv

LEMMA ConnectInit == Init => IInv
BY LoginInitHolds, SessionInitHolds, MaxInitHolds DEF Init, IInv

LEMMA Inductive == IInv /\ [Next]_connectVars => IInv'
<1> SUFFICES ASSUME IInv, [Next]_connectVars PROVE IInv'
  OBVIOUS
<1>1. messenger' = messenger
  BY DEF Next, connectVars
<1>2. LoginInv'
  <2>1. CASE UNCHANGED loginVars
    BY <2>1 DEF IInv, loginVars, LoginInv, LoginTypeOK, RegistryInv, BoundInv, AccountInv,
       OneAccountPerScan, WaitingIsWatched
  <2>2. CASE LoginNext
    BY <2>2, LoginInductive DEF IInv
  <2> QED BY <2>1, <2>2 DEF Next, connectVars
<1>3. SessionInv'
  <2>1. CASE UNCHANGED sessionVars
    BY <2>1 DEF IInv, sessionVars, SessionInv, SessionTypeOK
  <2>2. CASE SessionNext
    BY <2>2, SessionInductive DEF IInv
  <2> QED BY <2>1, <2>2 DEF Next, connectVars
<1>4. MaxInv'
  <2>1. CASE UNCHANGED maxVars
    BY <2>1 DEF IInv, maxVars, MaxInv, MaxTypeOK, MarkInv, MaxReady
  <2>2. CASE MaxNext
    BY <2>2, MaxInductive DEF IInv
  <2> QED BY <2>1, <2>2 DEF Next, connectVars
<1> QED BY <1>1, <1>2, <1>3, <1>4 DEF IInv

LEMMA Invariance == Spec => []IInv
BY ConnectInit, Inductive, PTL DEF Spec

(* Every variable of the three connections keeps its type. *)
THEOREM TypeCorrect == Spec => []ConnectTypeOK
<1>1. IInv => ConnectTypeOK
  BY DEF IInv, ConnectTypeOK, LoginInv, SessionInv, MaxInv
<1> QED BY <1>1, Invariance, PTL

(* However polls, passwords, refreshes, cleanups and restarts overlap, a scan of Telegram *)
(* becomes one account at most, of the user who started the login.                         *)
THEOREM OneAccountPerScanHolds == Spec => []OneAccountPerScan
<1>1. IInv => OneAccountPerScan
  BY DEF IInv, LoginInv
<1> QED BY <1>1, Invariance, PTL

(* A page that polls a login in "waiting" does not poll in vain: a task waits for the scan. *)
THEOREM WaitingIsWatchedHolds == Spec => []WaitingIsWatched
<1>1. IInv => WaitingIsWatched
  BY DEF IInv, LoginInv
<1> QED BY <1>1, Invariance, PTL

(* A scan nobody has found yet is lost only to a cleanup after its time, to a refresh that *)
(* overlaps it, to the handler that takes it, or with the process.                          *)
THEOREM ScanIsKeptHolds == Spec => ScanIsKept
<1> DEFINE Kept ==
      \A s \in Logins :
        LET found(state) == state.listed /\ state.status = "success" IN
        found(login[s]) /\ ~found(login'[s]) =>
          \/ Old(s) \/ restarts' # restarts
          \/ \E r \in Requests : AtStep(r, "recreating") /\ request[r].login = s
          \/ \E r \in Requests : request'[r].step = "disconnecting" /\ request'[r].login = s
<1>1. IInv /\ [Next]_connectVars => [Kept]_loginVars
  <2> SUFFICES ASSUME IInv, [Next]_connectVars PROVE Kept \/ UNCHANGED loginVars
    OBVIOUS
  <2>1. CASE LoginNext
    BY <2>1, ScanStep DEF IInv
  <2>2. CASE UNCHANGED loginVars
    BY <2>2
  <2> QED BY <2>1, <2>2 DEF Next, connectVars
<1> QED BY <1>1, Invariance, PTL DEF Spec, ScanIsKept

(* A worker that answers "ready" has the groups, but for the turn of the event loop that  *)
(* the MAX worker takes between saying so and fetching them.                                *)
THEOREM ReadyHasGroupsHolds == Spec => []ReadyHasGroups
<1>1. IInv => ReadyHasGroups
  BY DEF IInv, SessionInv, MaxInv, MaxReady, Sound, ReadyHasGroups
<1> QED BY <1>1, Invariance, PTL

(* A connected MAX session that says "syncing" has a task at work on it, unless a task     *)
(* meant for another session marked it before it was connected.                             *)
THEOREM SyncingIsRunHolds == Spec => []SyncingIsRun
<1>1. IInv => SyncingIsRun
  BY DEF IInv, MaxInv, MarkInv, Online, SyncingIsRun
<1> QED BY <1>1, Invariance, PTL

=============================================================================
