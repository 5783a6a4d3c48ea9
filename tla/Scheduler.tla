----------------------------- MODULE Scheduler -----------------------------
(***************************************************************************)
(* The schedules table between its writers: the beat task check_schedules  *)
(* (collect_due_schedules, then dispatch_send_tasks) and the web requests  *)
(* that create, edit, toggle, delete and detach schedules.  Every session  *)
(* reads without locks at READ COMMITTED, and SQLAlchemy writes back only  *)
(* the columns it has changed.                                             *)
(*                                                                         *)
(* Time is counted in minutes of a "Week"; days_of_week with times_of_day  *)
(* is the set of minutes of the week a schedule fires at.                  *)
(***************************************************************************)
EXTENDS Integers, Sequences, FiniteSets, FiniteSetsExt

CONSTANTS
  Schedules,
  Groups,
  Ticks,        \* running check_schedules
  Requests,     \* running web requests
  Week,
  MaxTime,      \* bound on the clock
  MaxFailures   \* bound on crashes of a tick

ASSUME SchedulerAssumption ==
  /\ Week \in Nat \ {0} /\ MaxTime \in Nat /\ MaxFailures \in Nat

Slots == 0 .. Week - 1

NoRun == -1

Runs == 0 .. MaxTime + Week

Row == [active : BOOLEAN, next : Runs \cup {NoRun}, slots : SUBSET Slots,
        groups : SUBSET Groups, account : BOOLEAN]

VARIABLES
  now,
  fresh,     \* ids not given to a row yet
  live,      \* ids of the rows of the table
  row,       \* row[s]: the columns
  tpc, tnow, \* the ticks and their "now"
  seen,      \* seen[t]: the due rows tick t has loaded
  out,       \* out[t]: the slots tick t has still to dispatch
  rpc,       \* the web requests
  old, new,  \* old[r], new[r]: the rows request r has loaded, and as it set them
  failures,
  settled,   \* history: the commits that moved slot m of s on, and to what end
  sent       \* history: sent[<<s, m>>] times slot m of s was dispatched

tableVars   == <<fresh, live, row>>
tickVars    == <<tpc, tnow, seen, out>>
requestVars == <<rpc, old, new>>
history     == <<settled, sent>>
vars == <<now, tableVars, tickVars, requestVars, failures, history>>

Blank == [active |-> FALSE, next |-> NoRun, slots |-> {}, groups |-> {}, account |-> FALSE]

\* What a session has loaded: some rows of the table.
Loaded == UNION {[S -> Row] : S \in SUBSET Schedules}

Nothing == [s \in {} |-> Blank]

Moments == Schedules \X Runs

Settlement == [at : 0 .. MaxTime, sent : BOOLEAN]

TypeOK ==
  /\ now \in 0 .. MaxTime
  /\ fresh \subseteq Schedules /\ live \subseteq Schedules
  /\ row \in [Schedules -> Row]
  /\ tpc \in [Ticks -> {"idle", "collect", "dispatch"}]
  /\ tnow \in [Ticks -> 0 .. MaxTime]
  /\ seen \in [Ticks -> Loaded]
  /\ out \in [Ticks -> SUBSET Moments]
  /\ rpc \in [Requests -> {"idle", "loaded"}]
  /\ old \in [Requests -> Loaded] /\ new \in [Requests -> Loaded]
  /\ failures \in 0 .. MaxFailures
  /\ sent \in [Moments -> Nat]
  /\ settled \in [Moments -> Seq(Settlement)]

Init ==
  /\ now = 0
  /\ fresh = Schedules /\ live = {} /\ row = [s \in Schedules |-> Blank]
  /\ tpc = [t \in Ticks |-> "idle"] /\ tnow = [t \in Ticks |-> 0]
  /\ seen = [t \in Ticks |-> Nothing] /\ out = [t \in Ticks |-> {}]
  /\ rpc = [r \in Requests |-> "idle"]
  /\ old = [r \in Requests |-> Nothing] /\ new = [r \in Requests |-> Nothing]
  /\ failures = 0
  /\ sent = [m \in Moments |-> 0] /\ settled = [m \in Moments |-> <<>>]

-----------------------------------------------------------------------------
(* schedule_service.py, schedule_rules.py and the session.                 *)

\* Mutant: the present minute counts as the next one.
compute_next_run_at_Now(slots, t) ==
  LET candidates == {m \in t .. t + Week : m % Week \in slots} IN
  IF candidates = {} THEN NoRun ELSE Min(candidates)

\* The nearest matching minute after t, at most a week ahead.
compute_next_run_at(slots, t) ==
  LET candidates == {m \in t + 1 .. t + Week : m % Week \in slots} IN
  IF candidates = {} THEN NoRun ELSE Min(candidates)

is_schedule_complete(r) == r.account /\ r.groups # {} /\ r.slots # {}

\* Unit of work: the columns whose value the session has changed, over the row as
\* it is when the UPDATE runs.
Flush(current, loaded, set) ==
  [c \in DOMAIN current |-> IF set[c] = loaded[c] THEN current[c] ELSE set[c]]

\* ck_schedules_active_requires_next_run.
ActiveRequiresNextRun(r) == ~(r.active /\ r.next = NoRun)

-----------------------------------------------------------------------------
(* check_schedules.                                                        *)

IsDue(s) == s \in live /\ row[s].active /\ row[s].next # NoRun /\ row[s].next <= now

\* Mutant: only the schedules of this very minute are selected.
TickSelect_ExactMinute(t) ==
  LET due == {s \in Schedules : IsDue(s) /\ row[s].next = now} IN
  /\ tpc[t] = "idle" /\ due # {}
  /\ seen' = [seen EXCEPT ![t] = [s \in due |-> row[s]]]
  /\ tnow' = [tnow EXCEPT ![t] = now]
  /\ tpc' = [tpc EXCEPT ![t] = "collect"]
  /\ UNCHANGED <<now, tableVars, out, requestVars, failures, history>>

\* The SELECT of the due rows.
TickSelect(t) ==
  LET due == {s \in Schedules : IsDue(s)} IN
  /\ tpc[t] = "idle" /\ due # {}
  /\ seen' = [seen EXCEPT ![t] = [s \in due |-> row[s]]]
  /\ tnow' = [tnow EXCEPT ![t] = now]
  /\ tpc' = [tpc EXCEPT ![t] = "collect"]
  /\ UNCHANGED <<now, tableVars, out, requestVars, failures, history>>

\* Mutant: the next run is counted from the last one, not from now.
Advanced_FromLast(t, s) ==
  LET r == seen[t][s] IN
  Flush(row[s], r, [r EXCEPT !.next = compute_next_run_at(r.slots, r.next)])

\* What the tick writes to a row it loaded: a new next_run_at, in every branch.
Advanced(t, s) ==
  LET r == seen[t][s] IN
  Flush(row[s], r, [r EXCEPT !.next = compute_next_run_at(r.slots, tnow[t])])

Accepted(t) ==
  \A s \in DOMAIN seen[t] : s \in live /\ ActiveRequiresNextRun(Advanced(t, s))

\* The rows of the batch that may be sent: the verdict on the owner, the ad, the account
\* and the groups may be anything beyond that.
Sendable(t) == {s \in DOMAIN seen[t] : seen[t][s].account /\ seen[t][s].groups # {}}

\* The loop and the commit of the whole batch: any of the rows that may be sent are.
collect_due_schedules(t) ==
  LET due == DOMAIN seen[t]
      slot(s) == <<s, seen[t][s].next>> IN
  /\ tpc[t] = "collect" /\ Accepted(t)
  /\ row' = [s \in Schedules |-> IF s \in due THEN Advanced(t, s) ELSE row[s]]
  /\ \E chosen \in SUBSET Sendable(t) :
       /\ out' = [out EXCEPT ![t] = {slot(s) : s \in chosen}]
       /\ settled' = [m \in Moments |->
            IF m \in {slot(s) : s \in due}
            THEN Append(settled[m], [at |-> tnow[t], sent |-> m \in out'[t]]) ELSE settled[m]]
       /\ tpc' = [tpc EXCEPT ![t] = IF chosen = {} THEN "idle" ELSE "dispatch"]
  /\ seen' = [seen EXCEPT ![t] = Nothing]
  /\ UNCHANGED <<now, fresh, live, tnow, requestVars, failures, sent>>

\* A row is gone (StaleDataError) or the schema refuses one: all is rolled back.
TickRefused(t) ==
  /\ tpc[t] = "collect" /\ ~Accepted(t)
  /\ tpc' = [tpc EXCEPT ![t] = "idle"]
  /\ seen' = [seen EXCEPT ![t] = Nothing]
  /\ UNCHANGED <<now, tableVars, tnow, out, requestVars, failures, history>>

\* Mutant: the batch is given up after its first message.
dispatch_send_tasks_FirstOnly(t) ==
  /\ tpc[t] = "dispatch"
  /\ \E m \in out[t] : sent' = [sent EXCEPT ![m] = @ + 1]
  /\ out' = [out EXCEPT ![t] = {}]
  /\ tpc' = [tpc EXCEPT ![t] = "idle"]
  /\ UNCHANGED <<now, tableVars, tnow, seen, requestVars, failures, settled>>

\* dispatch_send_tasks: Celery messages first, then one Redis MULTI per fleet.
dispatch_send_tasks(t) ==
  /\ tpc[t] = "dispatch"
  /\ \E m \in out[t] :
       /\ sent' = [sent EXCEPT ![m] = @ + 1]
       /\ out' = [out EXCEPT ![t] = @ \ {m}]
  /\ tpc' = [tpc EXCEPT ![t] = IF out'[t] = {} THEN "idle" ELSE "dispatch"]
  /\ UNCHANGED <<now, tableVars, tnow, seen, requestVars, failures, settled>>

\* The process dies or Redis fails.
TickDies(t) ==
  /\ tpc[t] # "idle" /\ failures < MaxFailures
  /\ failures' = failures + 1
  /\ tpc' = [tpc EXCEPT ![t] = "idle"]
  /\ seen' = [seen EXCEPT ![t] = Nothing]
  /\ out' = [out EXCEPT ![t] = {}]
  /\ UNCHANGED <<now, tableVars, tnow, requestVars, history>>

-----------------------------------------------------------------------------
(* The web requests.                                                       *)

\* The next run of a row by its values; values that cannot be run have none.
next_run_or_none(r) == compute_next_run_at(r.slots, now)

\* A row that wants to be active is, if it is complete, and gets its next run; any
\* other row is off and has none.
Scheduled(r, wanted) ==
  LET on == wanted /\ is_schedule_complete(r) IN
  [r EXCEPT !.active = on, !.next = IF on THEN next_run_or_none(r) ELSE NoRun]

\* create_schedule, schedules_create: a complete one is born active.
Create(s, slots, groups, account) ==
  LET r == [Blank EXCEPT !.slots = slots, !.groups = groups, !.account = account] IN
  /\ s \in fresh
  /\ fresh' = fresh \ {s} /\ live' = live \cup {s}
  /\ row' = [row EXCEPT ![s] = Scheduled(r, TRUE)]
  /\ UNCHANGED <<now, tickVars, requestVars, failures, history>>

\* A request has loaded some rows and set columns of them, and not committed yet.
Load(r, set) ==
  /\ rpc[r] = "idle"
  /\ rpc' = [rpc EXCEPT ![r] = "loaded"]
  /\ old' = [old EXCEPT ![r] = [s \in DOMAIN set |-> row[s]]]
  /\ new' = [new EXCEPT ![r] = set]
  /\ UNCHANGED <<now, tableVars, tickVars, failures, history>>

Toggled(e) == Scheduled(e, ~e.active)

\* toggle_schedule, schedules_toggle: an incomplete one is not resumed.
Toggle(r, s) ==
  /\ s \in live
  /\ row[s].active \/ is_schedule_complete(row[s])
  /\ Load(r, [d \in {s} |-> Toggled(row[s])])

Edited(e, slots, groups, account) ==
  Scheduled([e EXCEPT !.slots = slots, !.groups = groups, !.account = account], e.active)

\* update_schedule, schedules_update: an incomplete schedule is switched off, a
\* complete active one gets its next run, a paused one has none.
Update(r, s, slots, groups, account) ==
  /\ s \in live
  /\ Load(r, [d \in {s} |-> Edited(row[s], slots, groups, account)])

\* remove_group_ids, when a group is deleted.
RemoveGroup(r, g) ==
  LET S == {s \in live : g \in row[s].groups} IN
  /\ S # {}
  /\ Load(r, [s \in S |-> [row[s] EXCEPT !.groups = @ \ {g}]])

Written(r, s) == Flush(row[s], old[r][s], new[r][s])

\* The commit, or the 500 of a row that is gone or that the schema refuses.
CommitRequest(r) ==
  LET done == \A s \in DOMAIN old[r] : s \in live /\ ActiveRequiresNextRun(Written(r, s)) IN
  /\ rpc[r] = "loaded"
  /\ rpc' = [rpc EXCEPT ![r] = "idle"]
  /\ row' = [s \in Schedules |-> IF done /\ s \in DOMAIN old[r] THEN Written(r, s) ELSE row[s]]
  /\ old' = [old EXCEPT ![r] = Nothing] /\ new' = [new EXCEPT ![r] = Nothing]
  /\ UNCHANGED <<now, fresh, live, tickVars, failures, history>>

\* delete_schedule, schedules_delete.
Delete(s) ==
  /\ s \in live
  /\ live' = live \ {s}
  /\ row' = [row EXCEPT ![s] = Blank]
  /\ UNCHANGED <<now, fresh, tickVars, requestVars, failures, history>>

\* detach_schedules_from_account: one UPDATE of every row of the deleted account.
detach_schedules_from_account ==
  /\ \E s \in live : row[s].account
  /\ row' = [s \in Schedules |-> IF row[s].account
       THEN [row[s] EXCEPT !.active = FALSE, !.next = NoRun, !.account = FALSE] ELSE row[s]]
  /\ UNCHANGED <<now, fresh, live, tickVars, requestVars, failures, history>>

\* A request is over within the minute; a tick need not be.
Advance ==
  /\ now < MaxTime
  /\ \A r \in Requests : rpc[r] = "idle"
  /\ now' = now + 1
  /\ UNCHANGED <<tableVars, tickVars, requestVars, failures, history>>

-----------------------------------------------------------------------------

Tick(t) ==
  TickSelect(t) \/ collect_due_schedules(t) \/ TickRefused(t) \/ dispatch_send_tasks(t)

Edit ==
  \E s \in Schedules, slots \in SUBSET Slots, groups \in SUBSET Groups, account \in BOOLEAN :
    Create(s, slots, groups, account) \/ \E r \in Requests : Update(r, s, slots, groups, account)

Next ==
  \/ Advance \/ Edit \/ detach_schedules_from_account
  \/ \E t \in Ticks : Tick(t) \/ TickDies(t)
  \/ \E r \in Requests :
       CommitRequest(r) \/ (\E s \in Schedules : Toggle(r, s)) \/ (\E g \in Groups : RemoveGroup(r, g))
  \/ \E s \in Schedules : Delete(s)

Spec == Init /\ [][Next]_vars

\* Beat starts a tick every celery_beat_interval seconds and a worker runs it; a
\* request is run to its end.
Fairness ==
  /\ \A t \in Ticks : WF_vars(Tick(t))
  /\ \A r \in Requests : WF_vars(CommitRequest(r))

FairSpec == Spec /\ Fairness

-----------------------------------------------------------------------------
(* Properties.                                                             *)

\* A slot is settled once, dispatched at most once, and never dispatched after it was
\* passed over (a draft, a closed access, a disabled group): neither edits, pauses
\* and resumes around a tick nor its crashes bring a past slot back.
SlotSettledOnce ==
  \A m \in Moments :
    /\ Len(settled[m]) <= 1
    /\ sent[m] <= Cardinality({n \in DOMAIN settled[m] : settled[m][n].sent})

\* Slots missed while nothing ran, or while the ad was a draft or the access was
\* closed, are not made up for in a burst: whatever is settled after a tick lies in
\* the future of that tick.
NoBurst ==
  \A m, k \in Moments :
    m[1] = k[1] /\ m[2] < k[2] /\ settled[m] # <<>> /\ settled[k] # <<>>
      => k[2] > settled[m][1].at

\* While no tick crashes, a slot settled to be sent has been dispatched or is in the
\* hands of its tick, and a batch that was rolled back has dispatched nothing.
NothingLost ==
  failures = 0 =>
    \A m \in Moments : \A n \in DOMAIN settled[m] :
      settled[m][n].sent => sent[m] > 0 \/ \E t \in Ticks : m \in out[t]

\* Every due schedule is handled: sent or moved on, paused or deleted.
DueIsHandled == \A s \in Schedules : IsDue(s) ~> ~IsDue(s)

=============================================================================
