---------------------------- MODULE SendPipeline ----------------------------
(***************************************************************************)
(* The road of a WhatsApp or MAX send from dispatch_send_tasks to its      *)
(* SendLog: the per-account Redis queue, the worker container of the       *)
(* account (wa_worker/index.js, max_worker/main.py), the Celery tasks that *)
(* start containers for pending queues and that write the results down,    *)
(* beside an administrator who restarts containers and drops tasks.        *)
(* Every actor talks to Redis one command at a time; a step here is one    *)
(* command (or one MULTI) with what the actor does around it.              *)
(***************************************************************************)
EXTENDS Integers, Sequences, FiniteSets, SequencesExt

CONSTANTS
  Tasks,          \* send tasks, one task_id each
  Accounts,
  AccountOf,      \* AccountOf[t]: the account that sends t
  GroupOf,        \* GroupOf[t]: the group t is for
  Fleet,          \* Fleet[a]: "wa" or "max"
  Managers,       \* running manage_wa_containers / manage_max_containers
  Processors,     \* running process_wa_results / process_max_results
  MAX_RETRIES,
  BATCH,          \* results one run pops at most (100 in the code)
  Administrator,  \* whether an administrator is at work
  IdleShutdown,   \* whether IDLE_SHUTDOWN_SEC can elapse
  MaxFailures,    \* bound on crashes, kills and Redis errors
  MaxRateLimits   \* bound on WhatsApp's "wait of N seconds" answers

Fleets == {"wa", "max"}

ASSUME SendPipelineAssumption ==
  /\ AccountOf \in [Tasks -> Accounts] /\ Fleet \in [Accounts -> Fleets]
  /\ MAX_RETRIES \in Nat /\ BATCH \in Nat \ {0}
  /\ Administrator \in BOOLEAN /\ IdleShutdown \in BOOLEAN
  /\ MaxFailures \in Nat /\ MaxRateLimits \in Nat

VARIABLES
  dispatched,  \* tasks pushed so far
  queue,       \* queue[a]: the list {wa,max}:queue:{a}
  active,      \* the set {wa,max}:active_accounts
  worker,      \* worker[a]: where the container of a is
  hand,        \* hand[a]: the entry the consumer has popped
  results,     \* results[f]: the list {wa,max}:results
  target,      \* what drop_task has found on the page of a queue
  removed,     \* history: tasks reported as dropped
  mpc, todo, account, pending,   \* the managers and their locals
  ppc,         \* ppc[p]: "pop" or "write"
  batch,       \* batch[p]: results popped and not yet committed
  known,       \* known[p]: the marked groups as the session of p has loaded them
  sendLog,     \* SendLog rows in the order of their commits
  marked,      \* groups whose last_error is set
  posted,      \* history: posted[t] times t reached the messenger
  limited,     \* rate limit answers so far
  failures

queueVars   == <<dispatched, queue, active>>
adminVars   == <<target, removed>>
workerVars  == <<worker, hand, posted, limited>>
managerVars == <<mpc, todo, account, pending>>
processorVars == <<ppc, batch, known>>
resultVars  == <<results, processorVars, sendLog, marked>>
vars == <<queueVars, adminVars, workerVars, managerVars, resultVars, failures>>

Groups == Range(GroupOf)

Up == {"idle", "popped", "sent"}

Entries == [task : Tasks, retry : 0 .. MAX_RETRIES, delayed : BOOLEAN]

Verdicts == [task : Tasks, status : {"ok", "fail", "no_retry"}]

None == [task |-> "none"]

TypeOK ==
  /\ dispatched \subseteq Tasks /\ active \subseteq Accounts
  /\ queue \in [Accounts -> Seq(Entries)]
  /\ worker \in [Accounts -> Up \cup {"down", "stopping"}]
  /\ hand \in [Accounts -> Entries \cup {None}]
  /\ \A a \in Accounts : worker[a] \in {"popped", "sent"} => hand[a] \in Entries
  /\ results \in [Fleets -> Seq(Verdicts)]
  /\ target \in Entries \cup {None} /\ removed \subseteq Tasks
  /\ mpc \in [Managers -> {"idle", "loop", "act"}]
  /\ todo \in [Managers -> SUBSET Accounts]
  /\ account \in [Managers -> Accounts \cup {None}]
  /\ \A m \in Managers : mpc[m] = "act" => account[m] \in Accounts
  /\ pending \in [Managers -> BOOLEAN]
  /\ ppc \in [Processors -> {"pop", "write"}]
  /\ batch \in [Processors -> Seq(Verdicts)]
  /\ known \in [Processors -> SUBSET Groups] /\ marked \subseteq Groups
  /\ sendLog \in Seq(Verdicts)
  /\ posted \in [Tasks -> Nat] /\ limited \in 0 .. MaxRateLimits /\ failures \in 0 .. MaxFailures

Init ==
  /\ dispatched = {} /\ active = {}
  /\ queue = [a \in Accounts |-> <<>>]
  /\ worker \in [Accounts -> {"down", "idle"}]
  /\ hand = [a \in Accounts |-> None]
  /\ results = [f \in Fleets |-> <<>>]
  /\ target = None /\ removed = {}
  /\ mpc = [m \in Managers |-> "idle"]
  /\ todo = [m \in Managers |-> {}]
  /\ account = [m \in Managers |-> None]
  /\ pending = [m \in Managers |-> FALSE]
  /\ ppc = [p \in Processors |-> "pop"]
  /\ batch = [p \in Processors |-> <<>>]
  /\ known = [p \in Processors |-> {}]
  /\ sendLog = <<>> /\ marked = {}
  /\ posted = [t \in Tasks |-> 0]
  /\ limited = 0 /\ failures = 0

Fail == failures < MaxFailures /\ failures' = failures + 1

-----------------------------------------------------------------------------
(* dispatch_send_tasks: RPUSH and SADD in one MULTI.                       *)

\* Mutant: the account is not listed.
Dispatch_NoSadd(t) ==
  LET a == AccountOf[t] IN
  /\ t \notin dispatched
  /\ dispatched' = dispatched \cup {t}
  /\ queue' = [queue EXCEPT ![a] = Append(@, [task |-> t, retry |-> 0, delayed |-> FALSE])]
  /\ UNCHANGED <<adminVars, active, workerVars, managerVars, resultVars, failures>>

Dispatch(t) ==
  LET a == AccountOf[t] IN
  /\ t \notin dispatched
  /\ dispatched' = dispatched \cup {t}
  /\ queue' = [queue EXCEPT ![a] = Append(@, [task |-> t, retry |-> 0, delayed |-> FALSE])]
  /\ active' = active \cup {a}
  /\ UNCHANGED <<adminVars, workerVars, managerVars, resultVars, failures>>

-----------------------------------------------------------------------------
(* The worker: startConsumer / start_consumer, processTask / process_task. *)

\* Mutant: the head is read and left in the list.
Pop_Peek(a) ==
  /\ worker[a] = "idle" /\ queue[a] # <<>>
  /\ hand' = [hand EXCEPT ![a] = Head(queue[a])]
  /\ worker' = [worker EXCEPT ![a] = "popped"]
  /\ UNCHANGED <<adminVars, queueVars, posted, limited, managerVars, resultVars, failures>>

Pop(a) ==
  /\ worker[a] = "idle" /\ queue[a] # <<>>
  /\ hand' = [hand EXCEPT ![a] = Head(queue[a])]
  /\ queue' = [queue EXCEPT ![a] = Tail(@)]
  /\ worker' = [worker EXCEPT ![a] = "popped"]
  /\ UNCHANGED <<adminVars, dispatched, active, posted, limited, managerVars, resultVars, failures>>

\* What the consumer holds goes back to the tail of its queue; no SADD.
Requeue(a, entry) ==
  /\ queue' = [queue EXCEPT ![a] = Append(@, entry)]
  /\ worker' = [worker EXCEPT ![a] = "idle"]
  /\ UNCHANGED <<adminVars, dispatched, active, hand, managerVars, resultVars>>

publishResult(a, status) ==
  /\ results' = [results EXCEPT ![Fleet[a]] =
                   Append(@, [task |-> hand[a].task, status |-> status])]
  /\ worker' = [worker EXCEPT ![a] = "idle"]
  /\ UNCHANGED <<adminVars, queueVars, hand, managerVars, processorVars, sendLog, marked>>

\* _delay_until has not come yet.
RequeueDelayed(a) ==
  /\ worker[a] = "popped" /\ hand[a].delayed
  /\ Requeue(a, hand[a])
  /\ UNCHANGED <<posted, limited, failures>>

SendOk(a) ==
  /\ worker[a] = "popped"
  /\ posted' = [posted EXCEPT ![hand[a].task] = @ + 1]
  /\ worker' = [worker EXCEPT ![a] = "sent"]
  /\ UNCHANGED <<adminVars, queueVars, hand, limited, managerVars, resultVars, failures>>

PublishOk(a) ==
  /\ worker[a] = "sent"
  /\ publishResult(a, "ok")
  /\ UNCHANGED <<posted, limited, failures>>

\* A send that raises may have reached the group: some of the images, or all of
\* it with the answer lost.
PostedOrNot(a) ==
  \E n \in {0, 1} : posted' = [posted EXCEPT ![hand[a].task] = @ + n]

SendForbidden(a) ==
  /\ worker[a] = "popped"
  /\ PostedOrNot(a)
  /\ publishResult(a, "no_retry")
  /\ UNCHANGED <<limited, failures>>

\* Only wa_worker: the task waits as long as WhatsApp says, its count unchanged.
SendRateLimited(a) ==
  /\ worker[a] = "popped" /\ Fleet[a] = "wa" /\ limited < MaxRateLimits
  /\ limited' = limited + 1
  /\ PostedOrNot(a)
  /\ Requeue(a, [hand[a] EXCEPT !.delayed = TRUE])
  /\ UNCHANGED failures

\* Mutant: the retry is not counted.
SendRetry_NotCounted(a) ==
  /\ worker[a] = "popped" /\ hand[a].retry < MAX_RETRIES
  /\ PostedOrNot(a)
  /\ Requeue(a, [hand[a] EXCEPT !.delayed = TRUE])
  /\ UNCHANGED <<limited, failures>>

SendRetry(a) ==
  /\ worker[a] = "popped" /\ hand[a].retry < MAX_RETRIES
  /\ PostedOrNot(a)
  /\ Requeue(a, [hand[a] EXCEPT !.retry = hand[a].retry + 1, !.delayed = TRUE])
  /\ UNCHANGED <<limited, failures>>

SendExhausted(a) ==
  /\ worker[a] = "popped" /\ hand[a].retry >= MAX_RETRIES
  /\ PostedOrNot(a)
  /\ publishResult(a, "fail")
  /\ UNCHANGED <<limited, failures>>

\* publishResult swallows a Redis error; a failed re-push ends in the loop's catch.
RedisFails(a) ==
  /\ Fail
  /\ worker[a] \in {"popped", "sent"}
  /\ worker' = [worker EXCEPT ![a] = "idle"]
  /\ UNCHANGED <<adminVars, queueVars, hand, posted, limited, managerVars, resultVars>>

\* Idle for IDLE_SHUTDOWN_SEC: the heartbeat goes, the process is still running.
ShutdownIdle(a) ==
  /\ IdleShutdown
  /\ worker[a] = "idle" /\ queue[a] = <<>>
  /\ worker' = [worker EXCEPT ![a] = "stopping"]
  /\ UNCHANGED <<adminVars, queueVars, hand, posted, limited, managerVars, resultVars, failures>>

Exit(a) ==
  /\ worker[a] = "stopping"
  /\ worker' = [worker EXCEPT ![a] = "down"]
  /\ UNCHANGED <<adminVars, queueVars, hand, posted, limited, managerVars, resultVars, failures>>

\* The process dies (docker may restart it) or is told to stop; what it held is gone.
WorkerDies(a) ==
  /\ Fail
  /\ worker[a] # "down"
  /\ \E w \in {"down", "idle"} : worker' = [worker EXCEPT ![a] = w]
  /\ UNCHANGED <<adminVars, queueVars, hand, posted, limited, managerVars, resultVars>>

-----------------------------------------------------------------------------
(* manage_wa_containers and manage_max_containers.                         *)

ListActive(m) ==
  /\ mpc[m] = "idle"
  /\ \E f \in Fleets :
       /\ todo' = [todo EXCEPT ![m] = {a \in active : Fleet[a] = f}]
       /\ todo'[m] # {}
  /\ mpc' = [mpc EXCEPT ![m] = "loop"]
  /\ UNCHANGED <<adminVars, queueVars, workerVars, account, pending, resultVars, failures>>

ReadLength(m) ==
  /\ mpc[m] = "loop"
  /\ \E a \in todo[m] :
       /\ account' = [account EXCEPT ![m] = a]
       /\ pending' = [pending EXCEPT ![m] = queue[a] # <<>>]
       /\ todo' = [todo EXCEPT ![m] = @ \ {a}]
  /\ mpc' = [mpc EXCEPT ![m] = "act"]
  /\ UNCHANGED <<adminVars, queueVars, workerVars, resultVars, failures>>

NextAccount(m) == mpc' = [mpc EXCEPT ![m] = IF todo[m] = {} THEN "idle" ELSE "loop"]

\* start_container: nothing to do for a running one.
StartContainer(m) ==
  LET a == account[m] IN
  /\ mpc[m] = "act" /\ pending[m]
  /\ worker' = [worker EXCEPT ![a] = IF @ = "down" THEN "idle" ELSE @]
  /\ Fleet[a] = "max" => worker[a] # "stopping"
  /\ NextAccount(m)
  /\ UNCHANGED <<adminVars, queueVars, hand, posted, limited, todo, account, pending, resultVars, failures>>

\* Docker refuses the start, or the stop of a stale container: the account is left
\* for a later tick.
StartFails(m) ==
  /\ Fail
  /\ mpc[m] = "act" /\ pending[m]
  /\ NextAccount(m)
  /\ UNCHANGED <<adminVars, queueVars, workerVars, todo, account, pending, resultVars>>

\* Redis raises, or the process dies: the rest of the accounts wait for a later tick.
ManagerDies(m) ==
  /\ Fail
  /\ mpc[m] # "idle"
  /\ mpc' = [mpc EXCEPT ![m] = "idle"]
  /\ todo' = [todo EXCEPT ![m] = {}]
  /\ UNCHANGED <<adminVars, queueVars, workerVars, account, pending, resultVars>>

\* Mutant: the queue is refilled with what the replaced worker was holding, whether it
\* had been settled or not.
ReplaceStale_Refill(m) ==
  LET a == account[m] IN
  /\ mpc[m] = "act" /\ pending[m] /\ Fleet[a] = "max"
  /\ \/ worker[a] = "stopping" /\ UNCHANGED failures
     \/ worker[a] \in Up /\ Fail
  /\ worker' = [worker EXCEPT ![a] = "idle"]
  /\ queue' = [queue EXCEPT ![a] = IF hand[a] = None THEN @ ELSE Append(@, hand[a])]
  /\ NextAccount(m)
  /\ UNCHANGED <<adminVars, dispatched, active, hand, posted, limited, todo, account, pending, resultVars>>

\* ensure_container_for_pending_work: a running MAX worker whose heartbeat is gone
\* (it is shutting down) or too old (a failure) is stopped and replaced.
ReplaceStale(m) ==
  LET a == account[m] IN
  /\ mpc[m] = "act" /\ pending[m] /\ Fleet[a] = "max"
  /\ \/ worker[a] = "stopping" /\ UNCHANGED failures
     \/ worker[a] \in Up /\ Fail
  /\ worker' = [worker EXCEPT ![a] = "idle"]
  /\ NextAccount(m)
  /\ UNCHANGED <<adminVars, queueVars, hand, posted, limited, todo, account, pending, resultVars>>

\* The queue was empty when its length was read.
DropAccount(m) ==
  /\ mpc[m] = "act" /\ ~pending[m]
  /\ active' = active \ {account[m]}
  /\ NextAccount(m)
  /\ UNCHANGED <<adminVars, dispatched, queue, workerVars, todo, account, pending, resultVars, failures>>

-----------------------------------------------------------------------------
(* process_wa_results and process_max_results.                             *)

FleetOf(p) == Fleet[AccountOf[batch[p][1].task]]

\* LPOP, one at a time, beside whoever else is popping.
PopResult(p) ==
  /\ ppc[p] = "pop" /\ Len(batch[p]) < BATCH
  /\ \E f \in Fleets :
       /\ results[f] # <<>> /\ (batch[p] # <<>> => FleetOf(p) = f)
       /\ batch' = [batch EXCEPT ![p] = Append(@, Head(results[f]))]
       /\ results' = [results EXCEPT ![f] = Tail(@)]
  /\ UNCHANGED <<adminVars, queueVars, workerVars, managerVars, ppc, known, sendLog, marked, failures>>

\* The list is empty or the batch is full: the session loads the groups.
LoadGroups(p) ==
  /\ ppc[p] = "pop" /\ batch[p] # <<>>
  /\ Len(batch[p]) = BATCH \/ results[FleetOf(p)] = <<>>
  /\ known' = [known EXCEPT ![p] = marked]
  /\ ppc' = [ppc EXCEPT ![p] = "write"]
  /\ UNCHANGED <<adminVars, queueVars, workerVars, managerVars, results, batch, sendLog, marked, failures>>

\* Where the verdicts of a batch are that set or clear last_error of group g.
Decisive(s, g) == {n \in DOMAIN s : GroupOf[s[n].task] = g /\ s[n].status # "fail"}

\* last_error of g as a session that loaded it as "before" leaves it: the last one decides.
Marks(s, g, before) ==
  LET d == Decisive(s, g) IN
  IF d = {} THEN before ELSE s[Max(d)].status = "no_retry"

\* Done with the batch, or with the attempt.
Release(p) ==
  /\ batch' = [batch EXCEPT ![p] = <<>>]
  /\ known' = [known EXCEPT ![p] = {}]
  /\ ppc' = [ppc EXCEPT ![p] = "pop"]

\* Mutant: only a verdict that forbids is applied, a success never clears it.
_process_results_async_NeverClears(p) ==
  /\ ppc[p] = "write"
  /\ sendLog' = sendLog \o batch[p]
  /\ marked' = marked \cup {g \in Groups : Marks(batch[p], g, FALSE)}
  /\ Release(p)
  /\ UNCHANGED <<adminVars, queueVars, workerVars, managerVars, results, failures>>

\* The commit: a row per result, and the columns of the groups the session changed.
_process_results_async(p) ==
  /\ ppc[p] = "write"
  /\ sendLog' = sendLog \o batch[p]
  /\ marked' = {g \in Groups :
       LET before == g \in known[p]
           after == Marks(batch[p], g, before) IN
       IF after = before THEN g \in marked ELSE after}
  /\ Release(p)
  /\ UNCHANGED <<adminVars, queueVars, workerVars, managerVars, results, failures>>

\* The commit raises, or the Celery process dies with the batch in memory.
ProcessorDies(p) ==
  /\ Fail
  /\ batch[p] # <<>>
  /\ Release(p)
  /\ UNCHANGED <<adminVars, queueVars, workerVars, managerVars, results, sendLog, marked>>

-----------------------------------------------------------------------------
(* The administrator: admin_restart_worker, admin_drop_task and drop_task. *)

\* The page of the account's queue, with the body of a task on it.
ReadPage ==
  /\ Administrator /\ target = None
  /\ \E a \in Accounts : \E entry \in Range(queue[a]) : target' = entry
  /\ UNCHANGED <<removed, queueVars, workerVars, managerVars, resultVars, failures>>

\* Mutant: the answer does not look at what LREM has counted.
drop_task_Trusting ==
  /\ target # None
  /\ target' = None /\ removed' = removed \cup {target.task}
  /\ queue' = [queue EXCEPT ![AccountOf[target.task]] = RemoveFirst(@, target)]
  /\ UNCHANGED <<dispatched, active, workerVars, managerVars, resultVars, failures>>

\* LREM of one element with these very bytes: an entry that has been popped, or pushed
\* back with another count or delay, is missing.
drop_task ==
  LET a == AccountOf[target.task] IN
  /\ target # None /\ target' = None
  /\ \/ /\ target \in Range(queue[a])
        /\ queue' = [queue EXCEPT ![a] = RemoveFirst(@, target)]
        /\ removed' = removed \cup {target.task}
     \/ /\ target \notin Range(queue[a]) \/ limited > 0
        /\ UNCHANGED <<queue, removed>>
  /\ UNCHANGED <<dispatched, active, workerVars, managerVars, resultVars, failures>>

\* start_container for the account: nothing to do for a running one.
admin_restart_worker(a) ==
  /\ Administrator
  /\ worker[a] = "down"
  /\ worker' = [worker EXCEPT ![a] = "idle"]
  /\ UNCHANGED <<adminVars, queueVars, hand, posted, limited, managerVars, resultVars, failures>>

-----------------------------------------------------------------------------

Consume(a) ==
  \/ Pop(a) \/ RequeueDelayed(a) \/ SendOk(a) \/ PublishOk(a)
  \/ SendForbidden(a) \/ SendRateLimited(a) \/ SendRetry(a) \/ SendExhausted(a)

Attempt(a) == SendOk(a) \/ SendForbidden(a) \/ SendRetry(a) \/ SendExhausted(a)

Manage(m) ==
  ListActive(m) \/ ReadLength(m) \/ StartContainer(m) \/ ReplaceStale(m) \/ DropAccount(m)

Record(p) == PopResult(p) \/ LoadGroups(p) \/ _process_results_async(p)

Next ==
  \/ \E t \in Tasks : Dispatch(t)
  \/ \E a \in Accounts :
       Consume(a) \/ RedisFails(a) \/ ShutdownIdle(a) \/ Exit(a) \/ WorkerDies(a)
  \/ ReadPage \/ drop_task
  \/ \E a \in Accounts : admin_restart_worker(a)
  \/ \E m \in Managers : Manage(m) \/ StartFails(m) \/ ManagerDies(m)
  \/ \E p \in Processors : Record(p) \/ ProcessorDies(p)

Spec == Init /\ [][Next]_vars

\* The consumer loops while it is up and a delay passes in the end; beat runs the
\* managers every 15 and the processors every 5 seconds.  Nothing makes anyone
\* dispatch, fail or idle.
Fairness ==
  /\ \A a \in Accounts : WF_vars(Consume(a)) /\ SF_vars(Attempt(a)) /\ WF_vars(Exit(a))
  /\ \A m \in Managers : WF_vars(Manage(m))
  /\ \A p \in Processors : WF_vars(Record(p))

FairSpec == Spec /\ Fairness

-----------------------------------------------------------------------------
(* Properties.                                                             *)

\* Where a send can be, and the sends a place has, in their order.
Places ==
  ({"queue", "hand"} \X Accounts) \cup ({"results"} \X Fleets) \cup ({"batch"} \X Processors)
  \cup {<<"history", "sendLog">>}

Kept(x) ==
  CASE x[1] = "queue"   -> queue[x[2]]
    [] x[1] = "hand"    -> IF worker[x[2]] \in {"popped", "sent"} THEN <<hand[x[2]]>> ELSE <<>>
    [] x[1] = "results" -> results[x[2]]
    [] x[1] = "batch"   -> batch[x[2]]
    [] x[1] = "history" -> sendLog

\* A task is never in two places: retries, replaced containers and overlapping runs
\* of the Celery tasks never fork it, so it gets at most one SendLog row.
OneCopy ==
  \A x, y \in Places : \A m \in DOMAIN Kept(x), n \in DOMAIN Kept(y) :
    Kept(x)[m].task = Kept(y)[n].task => x = y /\ m = n

Nowhere(t) == \A x \in Places : \A n \in DOMAIN Kept(x) : Kept(x)[n].task # t

\* A group receives a task at most once per attempt (the first, the MAX_RETRIES retries
\* and one for each WhatsApp rate limit answer), and the history says "ok" only of a task
\* that was posted, whatever was retried, replaced or lost on the way.
PostedAsLogged ==
  /\ \A t \in Tasks : posted[t] <= MAX_RETRIES + 1 + limited
  /\ \A n \in DOMAIN sendLog : sendLog[n].status = "ok" => posted[sendLog[n].task] > 0

\* With one run of process_*_results at a time a group shows an error exactly when the
\* last verdict in its history forbids it.
MarkFollowsHistory ==
  \A g \in Groups : g \in marked <=> Marks(sendLog, g, FALSE)

\* Every dispatched task gets its SendLog row, but for one an administrator has dropped.
DispatchedIsLogged ==
  \A t \in Tasks :
    t \in dispatched ~> (t \in removed \/ \E n \in DOMAIN sendLog : sendLog[n].task = t)

\* The answer "dropped" is true: the task is nowhere, not even in a hand or under a retry,
\* so that no one sends it afterwards and the history has no row of it.
RemovedIsGone == \A t \in removed : Nowhere(t)

\* What became of a task: its verdict once it is in the history, "lost" when no list,
\* worker or batch holds it any more.
OutcomeOf(t) ==
  IF t \notin dispatched THEN "new"
  ELSE IF \E n \in DOMAIN sendLog : sendLog[n].task = t
       THEN (CHOOSE v \in Range(sendLog) : v.task = t).status
  ELSE IF Nowhere(t) THEN "lost" ELSE "inflight"

outcome == [t \in Tasks |-> OutcomeOf(t)]

Outcome == INSTANCE SendOutcome

\* The pipeline implements SendOutcome: a task is submitted once and settled once, its
\* verdict is never revised, and a lost task never comes back.
ImplementsSendOutcome == Outcome!Spec

=============================================================================
