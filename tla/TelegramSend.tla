--------------------------- MODULE TelegramSend ---------------------------
(***************************************************************************)
(* Telegram sends and the "retry" of the history, for one ad, one group    *)
(* and one account of a user:                                              *)
(*                                                                         *)
(*   history_retry   --retry_send-->  queue "default"                      *)
(*   retry_send, beat --send_telegram_message-->  queue "telegram"         *)
(*   send_message_once: the post, a row of send_logs, the group's mark     *)
(*                                                                         *)
(* Celery acknowledges a message when it starts to run it: a worker that   *)
(* dies loses it.  A message that waits for rate_limit is not acknowledged *)
(* yet and Redis delivers it again after the visibility timeout.           *)
(***************************************************************************)
EXTENDS Integers, Sequences, FiniteSets

CONSTANTS
  Tasks,            \* messages of the queue "telegram"
  Workers,          \* processes of that queue
  Retriers,         \* processes of the queue "default"
  Presses,          \* the requests of history_retry
  None, Done,
  MaxRedeliveries,  \* bound on the messages delivered again
  MaxDisturbances   \* bound on edits, crashes and lost answers together

Deliveries == Tasks \X (1 .. MaxRedeliveries + 1)

\* Ids of send_logs: a delivery leaves at most one row.
Rows == 1 .. Cardinality(Tasks) + MaxRedeliveries

\* mine: the row has the owner of the ad (0 is written when the ad is gone);
\* tried: the messenger was called.
Log == [delivery : Deliveries, status : {"ok", "fail", "account_disconnected"},
        mine : BOOLEAN, tried : BOOLEAN]

Send == [delivery : Deliveries, step : {"ready", "tried", "logged"}, ok : BOOLEAN,
         marked : BOOLEAN]

Request == [row : Rows, step : {"claimed", "allowed"}]

ASSUME TelegramSendAssumption ==
  /\ IsFiniteSet(Tasks) /\ MaxRedeliveries \in Nat /\ MaxDisturbances \in Nat
  /\ None \notin Send \cup Request \cup Rows /\ Done \notin Request \cup {None}

VARIABLES
  ad, group, account,  \* the rows a send reads
  access,              \* the verdict of check_access_cached
  fresh,               \* messages not sent to the broker yet
  queue,               \* the queue "telegram"
  given,               \* given[t]: deliveries of t so far
  worker,              \* worker[w]: the send in progress
  sendLog,             \* send_logs
  marked,              \* group.last_error
  posted,              \* posted[d]: messages in the group from delivery d
  press,               \* press[p]: the row history_retry works on, and how far it is
  window,              \* _RETRY_IN_FLIGHT: rows whose retry is refused
  retryQueue,          \* retryQueue[i]: retry_send messages of row i
  retrying,            \* retrying[r]: the row retry_send has let through
  asked,               \* history: asked[i] messages queued in the present window of i
  overlapped,          \* history: two sends have run at the same time
  edits, failures

world     == <<ad, group, account, access>>
broker    == <<fresh, queue, given>>
logVars   == <<sendLog, marked, posted>>
retryVars == <<press, window, retryQueue, retrying, asked>>
vars == <<world, broker, worker, logVars, retryVars, overlapped, edits, failures>>

TypeOK ==
  /\ ad \in {"ready", "draft", "gone"} /\ group \in {"on", "off", "gone"}
  /\ account \in {"active", "other", "gone"} /\ access \in BOOLEAN
  /\ fresh \subseteq Tasks /\ queue \subseteq Deliveries
  /\ given \in [Tasks -> 0 .. MaxRedeliveries + 1]
  /\ worker \in [Workers -> Send \cup {None}]
  /\ sendLog \in Seq(Log) /\ marked \in BOOLEAN /\ posted \in [Deliveries -> Nat]
  /\ press \in [Presses -> Request \cup {None, Done}]
  /\ window \subseteq Rows /\ retryQueue \in [Rows -> Nat]
  /\ retrying \in [Retriers -> Rows \cup {None}]
  /\ asked \in [Rows -> Nat]
  /\ overlapped \in BOOLEAN /\ edits \in 0 .. MaxDisturbances /\ failures \in 0 .. MaxDisturbances

Init ==
  /\ ad = "ready" /\ group = "on" /\ account = "active" /\ access = TRUE
  /\ fresh = Tasks /\ queue = {} /\ given = [t \in Tasks |-> 0]
  /\ worker = [w \in Workers |-> None]
  /\ sendLog = <<>> /\ marked = FALSE /\ posted = [d \in Deliveries |-> 0]
  /\ press = [p \in Presses |-> None] /\ window = {}
  /\ retryQueue = [i \in Rows |-> 0] /\ retrying = [r \in Retriers |-> None]
  /\ asked = [i \in Rows |-> 0]
  /\ overlapped = FALSE /\ edits = 0 /\ failures = 0

\* The bound on disturbances is not reached.
Quiet == edits + failures < MaxDisturbances

-----------------------------------------------------------------------------
(* The broker.                                                             *)

\* apply_async of send_telegram_message.
Enqueue(t) ==
  /\ t \in fresh
  /\ fresh' = fresh \ {t}
  /\ given' = [given EXCEPT ![t] = 1]
  /\ queue' = queue \cup {<<t, 1>>}

\* dispatch_send_tasks of a tick.
Dispatch(t) ==
  /\ Enqueue(t)
  /\ UNCHANGED <<world, worker, logVars, retryVars, overlapped, edits, failures>>

\* The deliveries so far.
Given == {d \in Deliveries : d[2] <= given[d[1]]}

\* The visibility timeout passes while a message waits for the rate limit.
Redeliver(t) ==
  /\ <<t, given[t]>> \in queue /\ Cardinality(Given) < Cardinality(Tasks \ fresh) + MaxRedeliveries
  /\ given' = [given EXCEPT ![t] = @ + 1]
  /\ queue' = queue \cup {<<t, given[t] + 1>>}
  /\ UNCHANGED <<world, fresh, worker, logVars, retryVars, overlapped, edits, failures>>

-----------------------------------------------------------------------------
(* send_telegram_message, send_message_once, TelegramUserMessenger.        *)

SetWorker(w, v) == worker' = [worker EXCEPT ![w] = v]

WriteLog(d, status, mine, tried) ==
  sendLog' = Append(sendLog, [delivery |-> d, status |-> status, mine |-> mine, tried |-> tried])

\* The three rows are read; a send that must not go out is logged, and that is all.
send_message_once(w, d) ==
  IF "gone" \in {ad, group, account} \/ ad = "draft"
  THEN WriteLog(d, "fail", ad # "gone", FALSE) /\ UNCHANGED worker
  ELSE IF account # "active"
  THEN WriteLog(d, "account_disconnected", TRUE, FALSE) /\ UNCHANGED worker
  ELSE /\ SetWorker(w, [delivery |-> d, step |-> "ready", ok |-> FALSE, marked |-> marked])
       /\ UNCHANGED sendLog

\* Mutant: the message is acknowledged late and given to a second process meanwhile.
Take_Peek(w, d) ==
  /\ worker[w] = None /\ d \in queue
  /\ \E late \in BOOLEAN : queue' = IF late THEN queue ELSE queue \ {d}
  /\ send_message_once(w, d)
  /\ overlapped' = (overlapped \/ \E v \in Workers \ {w} : worker[v] # None)
  /\ UNCHANGED <<world, fresh, given, marked, posted, retryVars, edits, failures>>

\* The message is acknowledged, the task starts and reads.
Take(w, d) ==
  /\ worker[w] = None /\ d \in queue
  /\ queue' = queue \ {d}
  /\ send_message_once(w, d)
  /\ overlapped' = (overlapped \/ \E v \in Workers \ {w} : worker[v] # None)
  /\ UNCHANGED <<world, fresh, given, marked, posted, retryVars, edits, failures>>

\* send_message: posted with its images, or as text where media are forbidden; or an
\* error (slow mode, forbidden, peer unreachable, an image that cannot be fetched, a
\* broken connection), in the worst case one after the post.
send_message(w) ==
  /\ worker[w] # None /\ worker[w].step = "ready"
  /\ \E ok \in BOOLEAN, n \in 0 .. 1 :
       /\ ok => n = 1
       /\ IF ok \/ n = 0 THEN UNCHANGED failures ELSE Quiet /\ failures' = failures + 1
       /\ SetWorker(w, [worker[w] EXCEPT !.step = "tried", !.ok = ok])
       /\ posted' = [posted EXCEPT ![worker[w].delivery] = @ + n]
  /\ UNCHANGED <<world, broker, sendLog, marked, retryVars, overlapped, edits>>

\* The commit of the row.
CommitLog(w) ==
  /\ worker[w] # None /\ worker[w].step = "tried"
  /\ WriteLog(worker[w].delivery, IF worker[w].ok THEN "ok" ELSE "fail", TRUE, TRUE)
  /\ SetWorker(w, [worker[w] EXCEPT !.step = "logged"])
  /\ UNCHANGED <<world, broker, marked, posted, retryVars, overlapped, edits, failures>>

\* Mutant: an error mark is never taken away.
CommitMark_NeverClears(w) ==
  /\ worker[w] # None /\ worker[w].step = "logged"
  /\ marked' = (group # "gone" /\ (marked \/ ~worker[w].ok))
  /\ SetWorker(w, None)
  /\ UNCHANGED <<world, broker, sendLog, posted, retryVars, overlapped, edits, failures>>

\* A second commit: an error (no_retry in every branch of the messenger) marks the group;
\* a success clears the mark the send has loaded.  The UPDATE of a group that is gone fails.
CommitMark(w) ==
  /\ worker[w] # None /\ worker[w].step = "logged"
  /\ marked' = IF group = "gone" THEN FALSE
               ELSE IF ~worker[w].ok THEN TRUE
               ELSE marked /\ ~worker[w].marked
  /\ SetWorker(w, None)
  /\ UNCHANGED <<world, broker, sendLog, posted, retryVars, overlapped, edits, failures>>

\* The process dies, or a commit fails and the task ends with the exception.
WorkerDies(w) ==
  /\ worker[w] # None /\ Quiet
  /\ failures' = failures + 1
  /\ SetWorker(w, None)
  /\ UNCHANGED <<world, broker, logVars, retryVars, overlapped, edits>>

-----------------------------------------------------------------------------
(* history_retry.                                                          *)

SetPress(p, v) == press' = [press EXCEPT ![p] = v]

At(p, step) == press[p] \notin {None, Done} /\ press[p].step = step

WorksOn(p, i) == press[p] \notin {None, Done} /\ press[p].row = i

\* A failed row of the user: _claim_retry_slot, or RETRY_BUSY.
Claim(p, i) ==
  /\ press[p] = None /\ i \in DOMAIN sendLog
  /\ sendLog[i].mine /\ sendLog[i].status # "ok"
  /\ i \notin window
  /\ window' = window \cup {i}
  /\ SetPress(p, [row |-> i, step |-> "claimed"])
  /\ UNCHANGED <<world, broker, worker, logVars, retryQueue, retrying, asked, overlapped, edits,
                 failures>>

Retriable == ad = "ready" /\ group = "on" /\ account = "active"

\* _release_retry_slot.
Release(i) == window' = window \ {i}

\* Mutant: a refusal leaves the window behind.
CheckPress_KeepsWindow(p) ==
  /\ At(p, "claimed")
  /\ IF Retriable /\ access THEN SetPress(p, [press[p] EXCEPT !.step = "allowed"])
     ELSE SetPress(p, Done)
  /\ UNCHANGED <<world, broker, worker, logVars, window, retryQueue, retrying, asked, overlapped,
                 edits, failures>>

\* RETRY_GONE and RETRY_ACCESS_CLOSED give the window back.
CheckPress(p) ==
  /\ At(p, "claimed")
  /\ IF Retriable /\ access
     THEN SetPress(p, [press[p] EXCEPT !.step = "allowed"]) /\ UNCHANGED window
     ELSE SetPress(p, Done) /\ Release(press[p].row)
  /\ UNCHANGED <<world, broker, worker, logVars, retryQueue, retrying, asked, overlapped, edits,
                 failures>>

QueueRetry(i, n) ==
  /\ retryQueue' = [retryQueue EXCEPT ![i] = @ + n]
  /\ asked' = [asked EXCEPT ![i] = @ + n]

\* Mutant: "queued" is set after the call, so that any exception gives the window back.
SendRetry_ArmedAfter(p) ==
  /\ At(p, "allowed")
  /\ \/ QueueRetry(press[p].row, 1) /\ UNCHANGED <<window, failures>>
     \/ /\ Quiet /\ failures' = failures + 1
        /\ Release(press[p].row)
        /\ \E n \in 0 .. 1 : QueueRetry(press[p].row, n)
  /\ SetPress(p, Done)
  /\ UNCHANGED <<world, broker, worker, logVars, retrying, overlapped, edits>>

\* send_task: done; OperationalError, the broker was not reached; or an exception after
\* which the message may be there, and the window stays.
SendRetry(p) ==
  /\ At(p, "allowed")
  /\ \/ QueueRetry(press[p].row, 1) /\ UNCHANGED <<window, failures>>
     \/ /\ Quiet /\ failures' = failures + 1
        /\ \/ Release(press[p].row) /\ UNCHANGED <<retryQueue, asked>>
           \/ UNCHANGED window /\ \E n \in 0 .. 1 : QueueRetry(press[p].row, n)
  /\ SetPress(p, Done)
  /\ UNCHANGED <<world, broker, worker, logVars, retrying, overlapped, edits>>

\* RETRY_COOLDOWN_SECONDS pass.  A request is over before that.
WindowEnds(i) ==
  /\ i \in window /\ \A p \in Presses : ~WorksOn(p, i)
  /\ Release(i)
  /\ asked' = [asked EXCEPT ![i] = 0]
  /\ UNCHANGED <<world, broker, worker, logVars, press, retryQueue, retrying, overlapped, edits,
                 failures>>

\* The registry lives in the memory of the web process.
WebRestarts ==
  /\ Quiet /\ failures' = failures + 1
  /\ press' = [p \in Presses |-> IF press[p] = None THEN None ELSE Done]
  /\ window' = {} /\ asked' = [i \in Rows |-> 0]
  /\ UNCHANGED <<world, broker, worker, logVars, retryQueue, retrying, overlapped, edits>>

-----------------------------------------------------------------------------
(* retry_send.                                                             *)

\* The checks of the request once more; what fails them stops without a row.
retry_send(r, i) ==
  /\ retrying[r] = None /\ retryQueue[i] > 0
  /\ retryQueue' = [retryQueue EXCEPT ![i] = @ - 1]
  /\ retrying' = [retrying EXCEPT ![r] = IF Retriable /\ access THEN i ELSE None]
  /\ UNCHANGED <<world, broker, worker, logVars, press, window, asked, overlapped, edits, failures>>

\* dispatch_send_tasks of the one task.
DispatchRetry(r) ==
  /\ retrying[r] # None
  /\ \E t \in fresh : Enqueue(t)
  /\ retrying' = [retrying EXCEPT ![r] = None]
  /\ UNCHANGED <<world, worker, logVars, press, window, retryQueue, asked, overlapped, edits,
                 failures>>

\* The process dies, or the broker refuses; max_retries is 0.
RetryDies(r) ==
  /\ retrying[r] # None /\ Quiet
  /\ failures' = failures + 1
  /\ retrying' = [retrying EXCEPT ![r] = None]
  /\ UNCHANGED <<world, broker, worker, logVars, press, window, retryQueue, asked, overlapped,
                 edits>>

-----------------------------------------------------------------------------

\* Meanwhile the ad is unpublished or deleted, the group switched off, the account
\* disconnected or deleted with its groups, the access closed; or any of it undone.
Edit ==
  /\ Quiet /\ edits' = edits + 1
  /\ \/ ad # "gone" /\ ad' \in {"ready", "draft", "gone"} \ {ad} /\ UNCHANGED <<group, account, access>>
     \/ group # "gone" /\ group' \in {"on", "off", "gone"} \ {group} /\ UNCHANGED <<ad, account, access>>
     \/ /\ account # "gone" /\ account' \in {"active", "other", "gone"} \ {account}
        /\ group' = IF account' = "gone" THEN "gone" ELSE group
        /\ UNCHANGED <<ad, access>>
     \/ access' = ~access /\ UNCHANGED <<ad, group, account>>
  /\ marked' = (marked /\ group' # "gone")
  /\ UNCHANGED <<broker, worker, sendLog, posted, retryVars, overlapped, failures>>

Execute(w) ==
  \/ \E d \in Deliveries : Take(w, d)
  \/ send_message(w) \/ CommitLog(w) \/ CommitMark(w)

Answer(p) == CheckPress(p) \/ SendRetry(p)

Retry(r) == (\E i \in Rows : retry_send(r, i)) \/ DispatchRetry(r)

Next ==
  \/ \E t \in Tasks : Dispatch(t) \/ Redeliver(t)
  \/ \E w \in Workers : Execute(w) \/ WorkerDies(w)
  \/ \E p \in Presses : Answer(p) \/ \E i \in Rows : Claim(p, i)
  \/ \E i \in Rows : WindowEnds(i)
  \/ \E r \in Retriers : Retry(r) \/ RetryDies(r)
  \/ WebRestarts \/ Edit

Spec == Init /\ [][Next]_vars

-----------------------------------------------------------------------------
(* Properties.                                                             *)

\* history_retry: in a window of a row at most one retry goes to the queue, however
\* many requests overlap and whatever the broker answers.
OneRetryPerWindow == \A i \in Rows : asked[i] <= 1

\* history_retry: a row is locked only while a request works on it or a retry of it was
\* queued; only an exception that leaves that open may lock it for nothing.
LockedForAReason ==
  failures = 0 =>
    \A i \in window : asked[i] = 1 \/ \E p \in Presses : WorksOn(p, i)

\* The newest row of a call of the messenger says that it failed.
LastFailed ==
  \E i \in DOMAIN sendLog :
    /\ sendLog[i].tried /\ sendLog[i].status = "fail"
    /\ \A j \in DOMAIN sendLog : j > i => ~sendLog[j].tried

\* send_message_once: while sends to the group do not overlap and none dies, the group
\* shows an error exactly when the last call of the messenger in its history failed.
MarkFollowsHistory ==
  /\ ~overlapped /\ failures = 0 /\ group # "gone"
  /\ \A w \in Workers : worker[w] # None => worker[w].step # "logged"
  => (marked <=> LastFailed)

RowOf(d) == {i \in DOMAIN sendLog : sendLog[i].delivery = d}

\* What became of a delivery.
OutcomeOf(d) ==
  IF d[2] > given[d[1]] THEN "new"
  ELSE IF RowOf(d) # {}
       THEN IF \E i \in RowOf(d) : sendLog[i].status = "ok" THEN "ok" ELSE "fail"
  ELSE IF d \in queue \/ \E w \in Workers : worker[w] # None /\ worker[w].delivery = d
       THEN "inflight" ELSE "lost"

outcome == [d \in Deliveries |-> OutcomeOf(d)]

Outcome == INSTANCE SendOutcome WITH Tasks <- Deliveries

\* Every delivery of a message is a send of its own in the sense of SendOutcome: it ends
\* with one verdict or is lost for good, and no failure is tried again by the code.
ImplementsSendOutcome == Outcome!Spec

=============================================================================
