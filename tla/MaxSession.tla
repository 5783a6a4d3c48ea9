----------------------------- MODULE MaxSession -----------------------------
(***************************************************************************)
(* The MAX session of a worker: the global "session", the clients that     *)
(* create_client has started, the requests that start, reload and destroy  *)
(* them and the tasks that fetch the groups.  The worker is one event      *)
(* loop: a step runs to its next await, and a created task waits for its   *)
(* turn.                                                                   *)
(***************************************************************************)
EXTENDS Integers, FiniteSets

CONSTANTS
  Clients,         \* clients of one life of the process, each made once
  Handlers,        \* HTTP requests being served
  SyncTasks,       \* tasks of _safe_group_sync: a bound on those at one time
  SYNC_ATTEMPTS,   \* fetches of a task (MAX_ATTEMPTS)
  NoClient

ASSUME MaxAssumption == SYNC_ATTEMPTS \in Nat \ {0} /\ NoClient \notin Clients

VARIABLES
  maxSession,  \* the global
  client,      \* client[k]: the SessionState of client k and whether k runs
  handler,     \* handler[c]: what a request awaits
  syncTask,    \* syncTask[l]
  reusable,    \* has_reusable_session: the files hold credentials
  mismarked    \* history: sessions marked "syncing" before they were connected

maxVars == <<maxSession, client, handler, syncTask, reusable, mismarked>>

MaxTypeOK ==
  /\ maxSession \in Clients \cup {NoClient}
  /\ client \in [Clients -> [running : BOOLEAN, made : BOOLEAN, is_connected : BOOLEAN,
                             initializing : BOOLEAN, ready_event : BOOLEAN, groups : BOOLEAN,
                             sync_state : {"none", "syncing", "ready", "failed"}]]
  /\ handler \in [Handlers -> [step : {"idle"}]
                                \cup [step : {"close", "destroy", "reload"}, on : Clients]]
  /\ syncTask \in [SyncTasks -> [step : {"off", "created", "sleep", "fetch"},
                                 attempt : 0 .. SYNC_ATTEMPTS]]
  /\ reusable \in BOOLEAN /\ mismarked \subseteq Clients

NotMade == [running |-> FALSE, made |-> FALSE, is_connected |-> FALSE, initializing |-> FALSE,
            ready_event |-> FALSE, groups |-> FALSE, sync_state |-> "none"]

Unserved == [step |-> "idle"]
Ended == [step |-> "off", attempt |-> 0]

SetHandler(c, v) == handler' = [handler EXCEPT ![c] = v]

\* No await in it: the state object, the global and the task of client.start().
create_client(k, table) ==
  /\ ~table[k].made
  /\ client' = [table EXCEPT ![k] = [NotMade EXCEPT !.running = TRUE, !.made = TRUE,
                                                   !.initializing = TRUE]]
  /\ maxSession' = k

\* lifespan: a worker that finds credentials loads the session before it serves.
Fresh ==
  LET none == [k \in Clients |-> NotMade] IN
  /\ handler' = [c \in Handlers |-> Unserved] /\ syncTask' = [l \in SyncTasks |-> Ended]
  /\ mismarked' = {}
  /\ IF reusable THEN \E k \in Clients : create_client(k, none)
     ELSE client' = none /\ maxSession' = NoClient

MaxInit ==
  /\ maxSession = NoClient /\ client = [k \in Clients |-> NotMade]
  /\ handler = [c \in Handlers |-> Unserved] /\ syncTask = [l \in SyncTasks |-> Ended]
  /\ reusable = FALSE /\ mismarked = {}

Online == maxSession # NoClient /\ client[maxSession].is_connected

\* asyncio.create_task(_safe_group_sync())
CreateTask ==
  \E l \in SyncTasks : /\ syncTask[l].step = "off"
                       /\ syncTask' = [syncTask EXCEPT ![l].step = "created"]

-----------------------------------------------------------------------------
(* The client: on_start, also after a reconnect, and _run_client.          *)

\* Mutant: a reconnect says "ready" over a running synchronisation.
on_start_Always(k) ==
  /\ client[k].running
  /\ client' = [client EXCEPT ![k] = [@ EXCEPT !.is_connected = TRUE, !.initializing = FALSE,
                                        !.ready_event = TRUE, !.sync_state = "ready"]]
  /\ IF client[k].sync_state \in {"none", "failed"} THEN CreateTask ELSE UNCHANGED syncTask
  /\ reusable' \in {reusable, TRUE}
  /\ UNCHANGED <<maxSession, handler, mismarked>>

\* The state is of this client; the task will take the global.  PyMax keeps the
\* credentials, unless DELETE has removed the files under it.
on_start(k) ==
  /\ client[k].running
  /\ LET unsynced == client[k].sync_state \in {"none", "failed"}
         state == IF unsynced THEN "ready" ELSE client[k].sync_state IN
     /\ client' = [client EXCEPT ![k] = [@ EXCEPT !.is_connected = TRUE, !.initializing = FALSE,
                                           !.ready_event = TRUE, !.sync_state = state]]
     /\ IF unsynced THEN CreateTask ELSE UNCHANGED syncTask
  /\ reusable' \in {reusable, TRUE}
  /\ UNCHANGED <<maxSession, handler, mismarked>>

\* client.start() raises: those who wait are let go.
_run_client(k) ==
  /\ client[k].running
  /\ client' = [client EXCEPT ![k] = [@ EXCEPT !.running = FALSE, !.is_connected = FALSE,
                                        !.initializing = FALSE, !.ready_event = TRUE]]
  /\ UNCHANGED <<maxSession, handler, syncTask, reusable, mismarked>>

-----------------------------------------------------------------------------
(* start_group_sync.                                                       *)

\* The task has its turn: it marks what is the session by now, connected or not.
TaskBegins(l) ==
  /\ syncTask[l].step = "created"
  /\ IF maxSession = NoClient
     THEN syncTask' = [syncTask EXCEPT ![l] = Ended] /\ UNCHANGED <<client, mismarked>>
     ELSE /\ syncTask' = [syncTask EXCEPT ![l].step = "sleep"]
          /\ client' = [client EXCEPT ![maxSession].sync_state = "syncing"]
          /\ mismarked' = IF Online THEN mismarked ELSE mismarked \cup {maxSession}
  /\ UNCHANGED <<maxSession, handler, reusable>>

\* After a pause: abort, or ask the client of the session for its chats.
TaskWakes(l) ==
  /\ syncTask[l].step = "sleep"
  /\ syncTask' = [syncTask EXCEPT ![l] = IF Online THEN [@ EXCEPT !.step = "fetch"] ELSE Ended]
  /\ UNCHANGED <<maxSession, client, handler, reusable, mismarked>>

\* All pages are there: they go to what is the session by now.
TaskFetched(l) ==
  /\ syncTask[l].step = "fetch" /\ maxSession # NoClient
  /\ client' = [client EXCEPT ![maxSession].sync_state = "ready", ![maxSession].groups = TRUE]
  /\ syncTask' = [syncTask EXCEPT ![l] = Ended]
  /\ UNCHANGED <<maxSession, handler, reusable, mismarked>>

\* Mutant: the last failure leaves the state as it was.
TaskFails_Silently(l) ==
  /\ syncTask[l].step = "fetch"
  /\ syncTask' = [syncTask EXCEPT ![l] =
       IF @.attempt + 1 < SYNC_ATTEMPTS THEN [step |-> "sleep", attempt |-> @.attempt + 1]
       ELSE Ended]
  /\ UNCHANGED <<maxSession, client, handler, reusable, mismarked>>

\* A page fails, or the session is gone; after the last attempt the state says so.
TaskFails(l) ==
  /\ syncTask[l].step = "fetch"
  /\ LET again == syncTask[l].attempt + 1 < SYNC_ATTEMPTS IN
     /\ syncTask' = [syncTask EXCEPT ![l] =
          IF again THEN [step |-> "sleep", attempt |-> @.attempt + 1] ELSE Ended]
     /\ client' = IF again \/ maxSession = NoClient THEN client
                  ELSE [client EXCEPT ![maxSession].sync_state = "failed"]
  /\ UNCHANGED <<maxSession, handler, reusable, mismarked>>

-----------------------------------------------------------------------------
(* The requests.                                                           *)

\* POST start without a session.
start_session(c) ==
  /\ handler[c] = Unserved /\ maxSession = NoClient
  /\ \E k \in Clients : create_client(k, client)
  /\ UNCHANGED <<handler, syncTask, reusable, mismarked>>

\* With one that is neither connected nor starting: its client is closed first.
StartOverStale(c) ==
  /\ handler[c] = Unserved /\ maxSession # NoClient
  /\ ~Online /\ ~client[maxSession].initializing
  /\ SetHandler(c, [step |-> "close", on |-> maxSession])
  /\ UNCHANGED <<maxSession, client, syncTask, reusable, mismarked>>

StaleClosed(c) ==
  /\ handler[c].step = "close"
  /\ \E k \in Clients : create_client(k, [client EXCEPT ![handler[c].on].running = FALSE])
  /\ SetHandler(c, Unserved)
  /\ UNCHANGED <<syncTask, reusable, mismarked>>

\* DELETE: the client is closed, then the global and the files go.
destroy_session(c) ==
  /\ handler[c] = Unserved
  /\ IF maxSession = NoClient THEN reusable' = FALSE /\ UNCHANGED handler
     ELSE SetHandler(c, [step |-> "destroy", on |-> maxSession]) /\ UNCHANGED reusable
  /\ UNCHANGED <<maxSession, client, syncTask, mismarked>>

ClientClosed(c) ==
  /\ handler[c].step = "destroy"
  /\ client' = [client EXCEPT ![handler[c].on].running = FALSE]
  /\ maxSession' = NoClient /\ reusable' = FALSE
  /\ SetHandler(c, Unserved)
  /\ UNCHANGED <<syncTask, mismarked>>

\* GET sync-status without a session but with its files: it is loaded.
get_sync_status(c) ==
  /\ handler[c] = Unserved /\ maxSession = NoClient /\ reusable
  /\ \E k \in Clients : /\ create_client(k, client)
                        /\ SetHandler(c, [step |-> "reload", on |-> k])
  /\ UNCHANGED <<syncTask, reusable, mismarked>>

\* The event is set, or ten seconds have passed; what is unsynced by then is synced.
Reloaded(c) ==
  /\ handler[c].step = "reload"
  /\ LET state == client[handler[c].on] IN
     IF state.is_connected /\ state.sync_state \in {"none", "failed"} THEN CreateTask
     ELSE UNCHANGED syncTask
  /\ SetHandler(c, Unserved)
  /\ UNCHANGED <<maxSession, client, reusable, mismarked>>

\* POST retry-sync.
retry_sync ==
  /\ Online /\ client[maxSession].sync_state # "syncing"
  /\ client' = [client EXCEPT ![maxSession].sync_state = "none", ![maxSession].groups = FALSE]
  /\ CreateTask
  /\ UNCHANGED <<maxSession, handler, reusable, mismarked>>

\* graceful_shutdown, or the process dies, and the container is started again.
ProcessRestarts == Fresh /\ UNCHANGED reusable

HandlerStep(c) ==
  \/ start_session(c) \/ StartOverStale(c) \/ StaleClosed(c)
  \/ destroy_session(c) \/ ClientClosed(c) \/ get_sync_status(c) \/ Reloaded(c)

TaskStep(l) == TaskBegins(l) \/ TaskWakes(l) \/ TaskFetched(l) \/ TaskFails(l)

MaxNext ==
  \/ \E k \in Clients : on_start(k) \/ _run_client(k)
  \/ \E c \in Handlers : HandlerStep(c)
  \/ \E l \in SyncTasks : TaskStep(l)
  \/ retry_sync \/ ProcessRestarts

-----------------------------------------------------------------------------
(* Properties.                                                             *)

\* start_group_sync: "syncing", the state that refuses retry-sync and that polls wait on,
\* has a task at work that will end it, unless a task meant for another session had set it
\* before this one was connected.
SyncingIsRun ==
  Online /\ client[maxSession].sync_state = "syncing" /\ maxSession \notin mismarked
    => \E l \in SyncTasks : syncTask[l].step \in {"sleep", "fetch"}

=============================================================================
