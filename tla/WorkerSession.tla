--------------------------- MODULE WorkerSession ---------------------------
(***************************************************************************)
(* The WhatsApp session of a worker: the global "session", the sockets     *)
(* that createSocket has made, their timers, the calls that wait for a     *)
(* socket to be ready and the loops that fetch the groups.  The worker is  *)
(* one thread: a step runs to its next await.                              *)
(***************************************************************************)
EXTENDS Integers, FiniteSets

CONSTANTS
  Sockets,                 \* sockets of one life of the process, each made once
  Callers,                 \* HTTP requests and the consumer; Main is one more
  Main,
  SyncLoops,               \* runs of startGroupSync: a bound on those at one time
  MAX_RECONNECT_ATTEMPTS,
  MAX_ATTEMPTS,            \* fetches of a loop
  NoSocket

ASSUME SessionAssumption ==
  MAX_RECONNECT_ATTEMPTS \in Nat /\ MAX_ATTEMPTS \in Nat \ {0} /\ NoSocket \notin Sockets

VARIABLES
  session,      \* the global
  sock,         \* sock[k]: the state object of socket k
  reconnecting, \* reconnecting[k]: the reconnect timer of k
  call,         \* call[c]: what a call awaits
  loading,      \* loadingPromise is set
  syncLoop,     \* syncLoop[l]
  onDisk,       \* creds.json exists
  serving,      \* main has started the server and the consumer
  dropped       \* history: sockets closed recoverably before they were ready

sessionVars == <<session, sock, reconnecting, call, loading, syncLoop, onDisk, serving, dropped>>

Socket ==
  [phase : {"unused", "opening", "open", "closed"}, initializing : BOOLEAN, timer : BOOLEAN,
   ready : {"pending", "resolved", "rejected"}, intentionalClose : BOOLEAN,
   reconnectAttempts : 0 .. MAX_RECONNECT_ATTEMPTS,
   syncState : {"none", "syncing", "ready", "failed"}, groups : BOOLEAN]

Call == [step : {"idle", "start", "create", "joined", "logout"}]
          \cup [step : {"wait", "load"}, on : Sockets]

SessionTypeOK ==
  /\ session \in Sockets \cup {NoSocket}
  /\ sock \in [Sockets -> Socket]
  /\ reconnecting \in [Sockets -> {"off", "timer", "create"}]
  /\ call \in [Callers \cup {Main} -> Call]
  /\ loading \in BOOLEAN
  /\ syncLoop \in [SyncLoops -> [step : {"off", "sleep", "fetch"}, attempt : 0 .. MAX_ATTEMPTS]]
  /\ onDisk \in BOOLEAN /\ serving \in BOOLEAN /\ dropped \subseteq Sockets

Unmade == [phase |-> "unused", initializing |-> FALSE, timer |-> FALSE, ready |-> "pending",
           intentionalClose |-> FALSE, reconnectAttempts |-> 0, syncState |-> "none",
           groups |-> FALSE]

Off == [step |-> "off", attempt |-> 0]
Await(step) == [step |-> step]
AwaitOn(step, k) == [step |-> step, on |-> k]

\* A worker that finds its files loads them before it serves anything.
SessionInit ==
  /\ session = NoSocket /\ sock = [k \in Sockets |-> Unmade]
  /\ reconnecting = [k \in Sockets |-> "off"]
  /\ onDisk \in BOOLEAN
  /\ serving = ~onDisk /\ loading = onDisk
  /\ call = [c \in Callers \cup {Main} |-> Await(IF c = Main /\ onDisk THEN "create" ELSE "idle")]
  /\ syncLoop = [l \in SyncLoops |-> Off] /\ dropped = {}

IsConnected == session # NoSocket /\ sock[session].phase = "open"

SetCall(c, v) == call' = [call EXCEPT ![c] = v]

\* The end of createSocket: a socket that opens, its 600 s timer, and the global.
Made(k, attempts) ==
  /\ sock[k].phase = "unused"
  /\ sock' = [sock EXCEPT ![k] = [Unmade EXCEPT !.phase = "opening", !.initializing = TRUE,
                                    !.timer = TRUE, !.reconnectAttempts = attempts]]
  /\ session' = k

-----------------------------------------------------------------------------
(* startGroupSync.                                                         *)

\* Its first step marks the session; `table` is what the socket table has become.
startGroupSync(table, now) ==
  IF now = NoSocket THEN sock' = table /\ UNCHANGED syncLoop
  ELSE /\ sock' = [table EXCEPT ![now].syncState = "syncing"]
       /\ \E l \in SyncLoops : /\ syncLoop[l].step = "off"
                               /\ syncLoop' = [syncLoop EXCEPT ![l] = [step |-> "sleep", attempt |-> 0]]

\* After a pause: abort, or ask the socket of the session for its groups.
SyncWakes(l) ==
  /\ syncLoop[l].step = "sleep"
  /\ syncLoop' = [syncLoop EXCEPT ![l] = IF IsConnected THEN [@ EXCEPT !.step = "fetch"] ELSE Off]
  /\ UNCHANGED <<session, sock, reconnecting, call, loading, onDisk, serving, dropped>>

\* The groups go to what is the session by now.
SyncFetched(l) ==
  /\ syncLoop[l].step = "fetch" /\ session # NoSocket
  /\ sock' = [sock EXCEPT ![session].syncState = "ready", ![session].groups = TRUE]
  /\ syncLoop' = [syncLoop EXCEPT ![l] = Off]
  /\ UNCHANGED <<session, reconnecting, call, loading, onDisk, serving, dropped>>

\* A failed fetch, or an answer for a session that is gone.
SyncFails(l) ==
  /\ syncLoop[l].step = "fetch"
  /\ IF syncLoop[l].attempt + 1 < MAX_ATTEMPTS
     THEN /\ syncLoop' = [syncLoop EXCEPT ![l] = [step |-> "sleep", attempt |-> @.attempt + 1]]
          /\ UNCHANGED sock
     ELSE /\ syncLoop' = [syncLoop EXCEPT ![l] = Off]
          /\ sock' = IF session = NoSocket THEN sock
                     ELSE [sock EXCEPT ![session].syncState = "failed"]
  /\ UNCHANGED <<session, reconnecting, call, loading, onDisk, serving, dropped>>

\* POST retry-sync.
RetrySync ==
  /\ serving /\ IsConnected /\ sock[session].syncState # "syncing"
  /\ startGroupSync([sock EXCEPT ![session].groups = FALSE], session)
  /\ UNCHANGED <<session, reconnecting, call, loading, onDisk, serving, dropped>>

-----------------------------------------------------------------------------
(* connection.update and the ready timeout.                                *)

Settled(state, outcome) == [state EXCEPT !.ready = IF @ = "pending" THEN outcome ELSE @]

\* connection "open"; the sync is started for the session, whichever socket opened.
Opens(k) ==
  /\ sock[k].phase = "opening"
  /\ LET open == [Settled(sock[k], "resolved") EXCEPT !.phase = "open", !.initializing = FALSE,
                                                     !.timer = FALSE, !.reconnectAttempts = 0]
         table == [sock EXCEPT ![k] = open] IN
     IF open.syncState \in {"none", "failed"} THEN startGroupSync(table, session)
     ELSE sock' = table /\ UNCHANGED syncLoop
  /\ onDisk' = TRUE
  /\ UNCHANGED <<session, reconnecting, call, loading, serving, dropped>>

\* The handler of connection "close" for the reasons a reconnect may help with.
Closed(k) ==
  [sock[k] EXCEPT !.phase = "closed", !.initializing = FALSE, !.timer = FALSE,
                  !.reconnectAttempts = @ + 1]

MayReconnect(k) == sock[k].reconnectAttempts < MAX_RECONNECT_ATTEMPTS

\* The promise of a socket that is dropped before it was ready is left pending.
ClosesRecoverably(k) ==
  /\ sock[k].phase \in {"opening", "open"} /\ ~sock[k].intentionalClose
  /\ MayReconnect(k)
  /\ sock' = [sock EXCEPT ![k] = Closed(k)]
  /\ reconnecting' = [reconnecting EXCEPT ![k] = "timer"]
  /\ dropped' = IF sock[k].ready = "pending" THEN dropped \cup {k} ELSE dropped
  /\ UNCHANGED <<session, call, loading, syncLoop, onDisk, serving>>

\* Mutant: the end of a session does not reject the promise.
Closes_Silently(k) ==
  /\ sock[k].phase \in {"opening", "open"} /\ ~sock[k].intentionalClose
  /\ sock' = [sock EXCEPT ![k] = [@ EXCEPT !.phase = "closed", !.initializing = FALSE,
                                           !.timer = FALSE]]
  /\ session' = NoSocket
  /\ \/ onDisk' = FALSE
     \/ ~MayReconnect(k) /\ UNCHANGED onDisk
  /\ UNCHANGED <<reconnecting, call, loading, syncLoop, serving, dropped>>

\* Logged out or forbidden, or the attempts are used up; only the first erases the files.
Closes(k) ==
  /\ sock[k].phase \in {"opening", "open"} /\ ~sock[k].intentionalClose
  /\ sock' = [sock EXCEPT ![k] = [Settled(@, "rejected") EXCEPT !.phase = "closed",
                                    !.initializing = FALSE, !.timer = FALSE]]
  /\ session' = NoSocket
  /\ \/ onDisk' = FALSE
     \/ ~MayReconnect(k) /\ UNCHANGED onDisk
  /\ UNCHANGED <<reconnecting, call, loading, syncLoop, serving, dropped>>

\* A close somebody asked for; the timer stays armed.
ClosesIntentionally(k) ==
  /\ sock[k].phase \in {"opening", "open"} /\ sock[k].intentionalClose
  /\ sock' = [sock EXCEPT ![k].phase = "closed"]
  /\ UNCHANGED <<session, reconnecting, call, loading, syncLoop, onDisk, serving, dropped>>

\* 600 s without a connection: end() reports a close, which may arm a reconnect, and the
\* global is emptied, whatever it holds.
ReadyTimeout(k) ==
  /\ sock[k].timer
  /\ LET closes == sock[k].phase = "opening" /\ ~sock[k].intentionalClose /\ MayReconnect(k) IN
     /\ sock' = [sock EXCEPT ![k] =
                   Settled([(IF closes THEN Closed(k) ELSE sock[k])
                              EXCEPT !.phase = "closed", !.initializing = FALSE, !.timer = FALSE],
                           "rejected")]
     /\ reconnecting' = IF closes THEN [reconnecting EXCEPT ![k] = "timer"] ELSE reconnecting
  /\ session' = NoSocket
  /\ UNCHANGED <<call, loading, syncLoop, onDisk, serving, dropped>>

\* The backoff is over: nothing to do, or a new socket is asked for.
ReconnectFires(k) ==
  /\ reconnecting[k] = "timer"
  /\ reconnecting' = [reconnecting EXCEPT ![k] = IF IsConnected THEN "off" ELSE "create"]
  /\ session' = IF IsConnected THEN session ELSE NoSocket
  /\ UNCHANGED <<sock, call, loading, syncLoop, onDisk, serving, dropped>>

\* createSocket of the timer returns.
Reconnects(k, n) ==
  /\ reconnecting[k] = "create"
  /\ Made(n, sock[k].reconnectAttempts)
  /\ reconnecting' = [reconnecting EXCEPT ![k] = "off"]
  /\ UNCHANGED <<call, loading, syncLoop, onDisk, serving, dropped>>

-----------------------------------------------------------------------------
(* ensureSession, for the consumer, sync-status, groups and group-info.    *)

\* Wait for the socket that is opening, join the load that is running, or start one.  A
\* call that finds the session connected, or no files, returns at once.
ensureSession(c) ==
  /\ serving /\ call[c].step = "idle" /\ ~IsConnected
  /\ IF session # NoSocket /\ sock[session].initializing
     THEN SetCall(c, AwaitOn("wait", session)) /\ UNCHANGED loading
     ELSE /\ onDisk
          /\ IF loading THEN SetCall(c, Await("joined")) /\ UNCHANGED loading
             ELSE SetCall(c, Await("create")) /\ loading' = TRUE
  /\ UNCHANGED <<session, sock, reconnecting, syncLoop, onDisk, serving, dropped>>

\* createSocket of a load returns.
LoadMakes(c, k) ==
  /\ call[c].step = "create"
  /\ Made(k, 0)
  /\ SetCall(c, AwaitOn("load", k))
  /\ UNCHANGED <<reconnecting, loading, syncLoop, onDisk, serving, dropped>>

\* The promise waited for is settled.
WaitIsOver(c) ==
  /\ call[c].step = "wait" /\ sock[call[c].on].ready # "pending"
  /\ SetCall(c, Await("idle"))
  /\ UNCHANGED <<session, sock, reconnecting, loading, syncLoop, onDisk, serving, dropped>>

\* The load and all who joined it return; main starts the server and the consumer;
\* sync-status starts a sync the session still lacks.
LoadIsOver(c) ==
  /\ call[c].step = "load" /\ sock[call[c].on].ready # "pending"
  /\ call' = [d \in DOMAIN call |-> IF d = c \/ call[d].step = "joined" THEN Await("idle")
                                    ELSE call[d]]
  /\ loading' = FALSE
  /\ serving' = (serving \/ c = Main)
  /\ \/ UNCHANGED <<sock, syncLoop>>
     \/ /\ c # Main
        /\ sock[call[c].on].phase = "open" /\ sock[call[c].on].syncState \in {"none", "failed"}
        /\ startGroupSync(sock, session)
  /\ UNCHANGED <<session, reconnecting, onDisk, dropped>>

-----------------------------------------------------------------------------
(* POST start and DELETE.                                                  *)

\* A session that is neither connected nor opening is dropped; a new socket is made.
Start(c) ==
  /\ serving /\ call[c].step = "idle"
  /\ session # NoSocket => ~IsConnected /\ ~sock[session].initializing
  /\ session' = NoSocket
  /\ SetCall(c, Await("start"))
  /\ UNCHANGED <<sock, reconnecting, loading, syncLoop, onDisk, serving, dropped>>

Started(c, k) ==
  /\ call[c].step = "start"
  /\ Made(k, 0)
  /\ SetCall(c, Await("idle"))
  /\ UNCHANGED <<reconnecting, loading, syncLoop, onDisk, serving, dropped>>

\* destroySession: logout is awaited, then the global and the files go.
Destroy(c) ==
  /\ serving /\ call[c].step = "idle"
  /\ sock' = IF session = NoSocket THEN sock ELSE [sock EXCEPT ![session].intentionalClose = TRUE]
  /\ SetCall(c, Await("logout"))
  /\ UNCHANGED <<session, reconnecting, loading, syncLoop, onDisk, serving, dropped>>

Destroyed(c) ==
  /\ call[c].step = "logout"
  /\ session' = NoSocket /\ onDisk' = FALSE
  /\ SetCall(c, Await("idle"))
  /\ UNCHANGED <<sock, reconnecting, loading, syncLoop, serving, dropped>>

\* gracefulShutdown, or the process dies, and a container is started again.
WorkerRestarts ==
  /\ session' = NoSocket /\ sock' = [k \in Sockets |-> Unmade]
  /\ reconnecting' = [k \in Sockets |-> "off"]
  /\ serving' = ~onDisk /\ loading' = onDisk
  /\ call' = [c \in Callers \cup {Main} |-> Await(IF c = Main /\ onDisk THEN "create" ELSE "idle")]
  /\ syncLoop' = [l \in SyncLoops |-> Off] /\ dropped' = {}
  /\ UNCHANGED onDisk

SocketStep(k) ==
  \/ Opens(k) \/ ClosesRecoverably(k) \/ Closes(k) \/ ClosesIntentionally(k) \/ ReadyTimeout(k)

Timer(k) == ReconnectFires(k) \/ \E n \in Sockets : Reconnects(k, n)

CallStep(c) ==
  \/ \E k \in Sockets : LoadMakes(c, k) \/ Started(c, k)
  \/ WaitIsOver(c) \/ LoadIsOver(c) \/ Destroyed(c)

SyncStep(l) == SyncWakes(l) \/ SyncFetched(l) \/ SyncFails(l)

SessionNext ==
  \/ \E k \in Sockets : SocketStep(k) \/ Timer(k)
  \/ \E c \in Callers \cup {Main} : CallStep(c)
  \/ \E c \in Callers : ensureSession(c) \/ Start(c) \/ Destroy(c)
  \/ \E l \in SyncLoops : SyncStep(l)
  \/ RetrySync \/ WorkerRestarts

\* A timer fires, and a call goes on when what it waits for is settled.
SessionFairness ==
  /\ \A k \in Sockets : WF_sessionVars(ReadyTimeout(k))
  /\ \A c \in Callers \cup {Main} : WF_sessionVars(WaitIsOver(c) \/ LoadIsOver(c))

-----------------------------------------------------------------------------
(* Properties.                                                             *)

Awaited(k) == \E c \in DOMAIN call : call[c] \in {AwaitOn("wait", k), AwaitOn("load", k)}

\* createSocket: the calls that wait for a socket get an answer, by a connection, by the end
\* of the session or after 600 s, unless the socket was closed recoverably before it was
\* ready: the reconnect settles a promise of its own and leaves the first one pending.
WaitEnds == \A k \in Sockets : Awaited(k) ~> (~Awaited(k) \/ k \in dropped)

=============================================================================
