--------------------------- MODULE GroupSyncProofs ---------------------------
(***************************************************************************)
(* Theorems about GroupSync, for any number of groups, presses, tasks,     *)
(* polls, edits and crashes.                                               *)
(***************************************************************************)
EXTENDS GroupSync, TLAPS

(* Where a request or its task is responsible for an account in "syncing". *)
Watching(t) == pc[t] \in {"committed", "polling", "loading", "applying", "failing", "recording"}

(* What a run writes to a row it loaded is a row. *)
LEMMA WrittenIsRow ==
  ASSUME TypeOK, NEW s \in Syncs, NEW g \in Ids,
         loaded[s][g] # NoRow, rows[g] # NoRow
  PROVE  Written(s, g) \in Row
<1>1. rows[g] \in Row /\ loaded[s][g] \in Row
  BY DEF TypeOK
<1>2. Marked(s, g) \in Syncs \cup {Present}
  BY <1>1 DEF Marked, Row
<1>3. Written(s, g) = [rows[g] EXCEPT !.missing_since =
          IF Marked(s, g) = loaded[s][g].missing_since THEN rows[g].missing_since ELSE Marked(s, g)]
  BY DEF Written
<1> QED BY <1>1, <1>2, <1>3 DEF Row

(* The flush leaves a table of rows. *)
LEMMA AppliedIsTable ==
  ASSUME TypeOK, NEW s \in Syncs, NEW renamed \in SUBSET (Known(s) \cap list[s])
  PROVE  ApplyRows(s, renamed) \in [Ids -> Row \cup {NoRow}]
<1> SUFFICES ASSUME NEW g \in Ids
             PROVE  ApplyRows(s, renamed)[g] \in Row \cup {NoRow}
  BY DEF ApplyRows
<1>1. CASE g \in Fresh(s)
  BY <1>1 DEF ApplyRows, Row, TypeOK
<1>2. CASE g \notin Fresh(s) /\ g \in Dirty(s, renamed) /\ ~Gone(s, g)
  <2>1. g \in Known(s)
    BY <1>2 DEF Dirty
  <2>2. loaded[s][g] # NoRow /\ rows[g] # NoRow
    BY <1>2, <2>1 DEF Known, Gone
  <2>3. Written(s, g) \in Row
    BY <2>2, WrittenIsRow
  <2> QED BY <1>2, <2>3 DEF ApplyRows
<1>3. CASE g \notin Fresh(s) /\ ~(g \in Dirty(s, renamed) /\ ~Gone(s, g))
  BY <1>3 DEF ApplyRows, TypeOK
<1> QED BY <1>1, <1>2, <1>3

(* Ending a run keeps the parts of the state it touches well typed. *)
LEMMA FinishTypes ==
  ASSUME TypeOK, NEW s \in Syncs, Finish(s)
  PROVE  /\ pc' \in [Syncs -> {"idle", "loaded", "committed", "polling", "loading", "applying",
                               "failing", "recording", "conflict", "done"}]
         /\ list' \in [Syncs -> {NotAList} \cup SUBSET Ids]
         /\ loaded' \in [Syncs -> [Ids -> Row \cup {NoRow}]]
         /\ slot' \in BOOLEAN
<1>1. NoRows \in [Ids -> Row \cup {NoRow}]
  BY DEF NoRows
<1> QED BY <1>1 DEF TypeOK, Finish

LEMMA TypeStep == TypeOK /\ [Next]_vars => TypeOK'
<1> SUFFICES ASSUME TypeOK, [Next]_vars PROVE TypeOK'
  OBVIOUS
<1> USE GroupSyncAssumption DEF Syncs
<1>0. NoRows \in [Ids -> Row \cup {NoRow}]
  BY DEF NoRows
<1>1. ASSUME NEW t \in Tasks, StartTask(t) PROVE TypeOK'
  BY <1>1 DEF StartTask, accounts_connect_status, accounts_retry_sync, TypeOK, Statuses
<1>2. ASSUME NEW t \in Tasks, CommitSyncing(t) PROVE TypeOK'
  BY <1>2 DEF CommitSyncing, TypeOK, Statuses
<1>3. ASSUME NEW t \in Tasks, SendTask(t) \/ PollPending(t) \/ PollReady(t) \/ TaskFails(t)
      PROVE  TypeOK'
  BY <1>3 DEF SendTask, PollPending, PollReady, TaskFails, TypeOK
<1>4. ASSUME NEW t \in Tasks, RecordFailure(t) PROVE TypeOK'
  BY <1>4, FinishTypes DEF RecordFailure, TypeOK, Statuses
<1>5. ASSUME NEW t \in Tasks, TaskDies(t) PROVE TypeOK'
  BY <1>5, FinishTypes DEF TaskDies, TypeOK
<1>6. ASSUME NEW p \in Pages, accounts_sync_groups(p) PROVE TypeOK'
  BY <1>6 DEF accounts_sync_groups, TypeOK
<1>7. ASSUME NEW p \in Pages, RunPage(p) PROVE TypeOK'
  <2>1. account' \in [status : Statuses, result : {"never", "ok", "error"},
                      synced : Syncs \cup {Never}]
    <3>1. account' = [account EXCEPT !.result = "error"] \/ account' = account
      BY <1>7 DEF RunPage, FetchFails, RecordConflict
    <3> QED BY <3>1 DEF TypeOK
  <2>2. Finish(p) /\ UNCHANGED <<rows, born, read, polls, edits, failures>>
    BY <1>7 DEF RunPage, FetchFails, RecordConflict
  <2> QED BY <2>1, <2>2, FinishTypes DEF TypeOK
<1>8. ASSUME NEW s \in Syncs, LoadRows(s) PROVE TypeOK'
  BY <1>0, <1>8 DEF LoadRows, TypeOK
<1>9. ASSUME NEW s \in Syncs, CommitRejected(s) PROVE TypeOK'
  BY <1>9, FinishTypes DEF CommitRejected, StatusAfter, TypeOK, Statuses
<1>10. ASSUME NEW s \in Syncs, CommitResync(s) PROVE TypeOK'
  <2>1. rows' \in [Ids -> Row \cup {NoRow}]
    BY <1>10, AppliedIsTable DEF CommitResync
  <2>2. born' \in Nat
    BY <1>10 DEF CommitResync, TypeOK
  <2>3. StatusAfter(s) \in Statuses
    BY DEF StatusAfter, TypeOK, Statuses
  <2>4. account' \in [status : Statuses, result : {"never", "ok", "error"},
                      synced : Syncs \cup {Never}]
    BY <1>10, <2>3 DEF CommitResync
  <2> QED BY <1>10, <2>1, <2>2, <2>4, FinishTypes DEF CommitResync, TypeOK
<1>11. ASSUME NEW s \in Syncs, CommitConflict(s) \/ CommitStale(s) PROVE TypeOK'
  <2>1. list' \in [Syncs -> {NotAList} \cup SUBSET Ids]
    BY <1>11 DEF CommitConflict, CommitStale, TypeOK
  <2>2. loaded' \in [Syncs -> [Ids -> Row \cup {NoRow}]]
    BY <1>0, <1>11 DEF CommitConflict, CommitStale, TypeOK
  <2>3. pc' \in [Syncs -> {"idle", "loaded", "committed", "polling", "loading", "applying",
                           "failing", "recording", "conflict", "done"}]
    BY <1>11 DEF CommitConflict, CommitStale, TypeOK
  <2>4. slot' \in BOOLEAN
    BY <1>11 DEF CommitConflict, CommitStale, TypeOK
  <2>5. UNCHANGED <<account, rows, born, read, polls, edits, failures>>
    BY <1>11 DEF CommitConflict, CommitStale
  <2> QED BY <2>1, <2>2, <2>3, <2>4, <2>5 DEF TypeOK
<1>12. ASSUME NEW g \in Ids, account_groups_toggle(g) \/ account_groups_delete(g) PROVE TypeOK'
  <2>1. CASE account_groups_toggle(g)
    <3>1. rows[g] \in Row
      BY <2>1 DEF account_groups_toggle, TypeOK
    <3>2. [rows[g] EXCEPT !.is_active = ~rows[g].is_active] \in Row
      BY <3>1 DEF Row
    <3>3. rows' \in [Ids -> Row \cup {NoRow}]
      BY <2>1, <3>2 DEF account_groups_toggle, TypeOK
    <3> QED BY <2>1, <3>3 DEF account_groups_toggle, TypeOK
  <2>2. CASE account_groups_delete(g)
    BY <2>2 DEF account_groups_delete, TypeOK
  <2> QED BY <1>12, <2>1, <2>2
<1>13. CASE delete_account
  <2>1. account' \in [status : Statuses, result : {"never", "ok", "error"},
                      synced : Syncs \cup {Never}]
    BY <1>13 DEF delete_account, TypeOK, Statuses
  <2>2. rows' \in [Ids -> Row \cup {NoRow}] /\ edits' \in 0 .. MaxEdits
    BY <1>0, <1>13 DEF delete_account, TypeOK
  <2>3. UNCHANGED <<born, slot, pc, read, list, loaded, polls, failures>>
    BY <1>13 DEF delete_account
  <2> QED BY <2>1, <2>2, <2>3 DEF TypeOK
<1>14. CASE WebDies
  <2>1. pc' \in [Syncs -> {"idle", "loaded", "committed", "polling", "loading", "applying",
                           "failing", "recording", "conflict", "done"}]
    BY <1>14 DEF WebDies, TypeOK
  <2>2. list' \in [Syncs -> {NotAList} \cup SUBSET Ids]
    <3>1. \A s \in Syncs : list'[s] = {} \/ list'[s] = list[s]
      BY <1>14 DEF WebDies
    <3>2. list' = [s \in Syncs |-> list'[s]]
      BY <1>14 DEF WebDies
    <3>3. \A s \in Syncs : list'[s] \in {NotAList} \cup SUBSET Ids
      BY <3>1 DEF TypeOK
    <3> QED BY <3>2, <3>3
  <2>3. loaded' \in [Syncs -> [Ids -> Row \cup {NoRow}]]
    <3>1. \A s \in Syncs : loaded'[s] = NoRows \/ loaded'[s] = loaded[s]
      BY <1>14 DEF WebDies
    <3>2. loaded' = [s \in Syncs |-> loaded'[s]]
      BY <1>14 DEF WebDies
    <3>3. \A s \in Syncs : loaded'[s] \in [Ids -> Row \cup {NoRow}]
      BY <1>0, <3>1 DEF TypeOK
    <3> QED BY <3>2, <3>3
  <2>4. slot' \in BOOLEAN
    BY <1>14 DEF WebDies
  <2>6. failures' \in 0 .. MaxFailures
    BY <1>14 DEF WebDies, TypeOK
  <2>5. UNCHANGED <<account, rows, born, read, polls, edits>>
    BY <1>14 DEF WebDies
  <2> QED BY <2>1, <2>2, <2>3, <2>4, <2>5, <2>6 DEF TypeOK
<1>15. CASE UNCHANGED vars
  BY <1>15 DEF vars, TypeOK
<1> QED BY <1>1, <1>2, <1>3, <1>4, <1>5, <1>6, <1>7, <1>8, <1>9, <1>10, <1>11, <1>12, <1>13,
           <1>14, <1>15 DEF Next, RunTask, Apply, Edit

(* Every state of GroupSync is well typed. *)
THEOREM TypeCorrect == Spec => []TypeOK
<1>1. Init => TypeOK
  <2> SUFFICES ASSUME Init PROVE TypeOK
    OBVIOUS
  <2>1. NoRows \in [Ids -> Row \cup {NoRow}]
    BY DEF NoRows
  <2>2. [id |-> 0, is_active |-> TRUE, missing_since |-> Present] \in Row
    BY DEF Row
  <2>3. rows \in [Ids -> Row \cup {NoRow}]
    BY <2>1, <2>2 DEF Init
  <2>4. account \in [status : Statuses, result : {"never", "ok", "error"},
                     synced : Syncs \cup {Never}]
    BY DEF Init, Statuses
  <2>5. list \in [Syncs -> {NotAList} \cup SUBSET Ids]
    BY DEF Init
  <2>6. loaded \in [Syncs -> [Ids -> Row \cup {NoRow}]]
    BY <2>1 DEF Init
  <2>7. pc \in [Syncs -> {"idle", "loaded", "committed", "polling", "loading", "applying",
                          "failing", "recording", "conflict", "done"}]
    BY DEF Init
  <2>8. read \in [Tasks -> Statuses \cup {"none"}] /\ polls \in [Tasks -> 0 .. MaxPolls]
    BY GroupSyncAssumption DEF Init
  <2>9. slot \in BOOLEAN
    BY DEF Init
  <2>10. born = 1 /\ edits = 0 /\ failures = 0
    BY DEF Init
  <2>11. born \in Nat /\ edits \in 0 .. MaxEdits /\ failures \in 0 .. MaxFailures
    BY <2>10, GroupSyncAssumption
  <2> QED BY <2>3, <2>4, <2>5, <2>6, <2>7, <2>8, <2>9, <2>11 DEF TypeOK
<1> QED BY <1>1, TypeStep, PTL DEF Spec

----------------------------------------------------------------------------
(* Ending a press frees a slot nobody else holds; ending a task leaves it. *)
LEMMA FinishKeepsSlot ==
  ASSUME TypeOK, SlotIsHeld, NEW s \in Syncs, InFlight(s), Finish(s)
  PROVE  SlotIsHeld'
<1>1. \A q \in Syncs : q # s => pc'[q] = pc[q]
  BY DEF Finish, TypeOK
<1>2. pc'[s] = "done"
  BY DEF Finish, TypeOK
<1>3. CASE s \in Pages
  <2>1. slot' = FALSE
    BY <1>3 DEF Finish
  <2>2. \A q \in Pages : ~InFlight(q)'
    BY <1>1, <1>2, <1>3 DEF SlotIsHeld, InFlight, Syncs
  <2> QED BY <2>1, <2>2 DEF SlotIsHeld
<1>4. CASE s \notin Pages
  <2>1. slot' = slot
    BY <1>4 DEF Finish, TypeOK
  <2>2. \A q \in Pages : InFlight(q)' <=> InFlight(q)
    BY <1>1, <1>4 DEF InFlight, Syncs
  <2> QED BY <2>1, <2>2 DEF SlotIsHeld
<1> QED BY <1>3, <1>4

LEMMA SlotStep == TypeOK /\ SlotIsHeld /\ [Next]_vars => SlotIsHeld'
<1> SUFFICES ASSUME TypeOK, SlotIsHeld, [Next]_vars PROVE SlotIsHeld'
  OBVIOUS
<1> USE GroupSyncAssumption
(* A step that leaves the slot alone and keeps every press in or out of flight. *)
<1>0. ASSUME slot' = slot, \A q \in Pages : InFlight(q)' <=> InFlight(q)
      PROVE  SlotIsHeld'
  BY <1>0 DEF SlotIsHeld
<1>1. ASSUME NEW t \in Tasks,
             StartTask(t) \/ CommitSyncing(t) \/ SendTask(t) \/ PollPending(t) \/ PollReady(t)
               \/ TaskFails(t)
      PROVE  SlotIsHeld'
  <2>1. slot' = slot
    BY <1>1 DEF StartTask, accounts_connect_status, accounts_retry_sync, CommitSyncing, SendTask,
                PollPending, PollReady, TaskFails
  <2>2. \A q \in Pages : pc'[q] = pc[q]
    BY <1>1 DEF StartTask, accounts_connect_status, accounts_retry_sync, CommitSyncing, SendTask,
                PollPending, PollReady, TaskFails, TypeOK, Syncs
  <2> QED BY <1>0, <2>1, <2>2 DEF InFlight
<1>2. ASSUME NEW t \in Tasks, RecordFailure(t) \/ TaskDies(t) PROVE SlotIsHeld'
  <2>1. t \in Syncs /\ InFlight(t) /\ Finish(t)
    BY <1>2 DEF RecordFailure, TaskDies, InFlight, Syncs
  <2> QED BY <2>1, FinishKeepsSlot
<1>3. ASSUME NEW p \in Pages, accounts_sync_groups(p) PROVE SlotIsHeld'
  <2>1. slot' = TRUE /\ ~slot
    BY <1>3 DEF accounts_sync_groups
  <2>2. \A q \in Pages : ~InFlight(q)
    BY <2>1 DEF SlotIsHeld
  <2>3. pc'[p] = "loading" /\ \A q \in Pages : q # p => pc'[q] = pc[q]
    BY <1>3 DEF accounts_sync_groups, TypeOK, Syncs
  <2> QED BY <2>1, <2>2, <2>3 DEF SlotIsHeld, InFlight
<1>4. ASSUME NEW p \in Pages, RunPage(p) PROVE SlotIsHeld'
  <2>1. p \in Syncs /\ InFlight(p) /\ Finish(p)
    BY <1>4 DEF RunPage, FetchFails, RecordConflict, InFlight, Syncs
  <2> QED BY <2>1, FinishKeepsSlot
<1>5. ASSUME NEW s \in Syncs, LoadRows(s) \/ CommitConflict(s) PROVE SlotIsHeld'
  <2>1. slot' = slot
    BY <1>5 DEF LoadRows, CommitConflict
  <2>2. InFlight(s) /\ pc'[s] \in {"applying", "conflict", "failing"}
    BY <1>5 DEF LoadRows, CommitConflict, InFlight, TypeOK
  <2>3. \A q \in Pages : q # s => pc'[q] = pc[q]
    BY <1>5 DEF LoadRows, CommitConflict, TypeOK, Syncs
  <2> QED BY <1>0, <2>1, <2>2, <2>3 DEF InFlight
<1>6. ASSUME NEW s \in Syncs, CommitRejected(s) \/ CommitResync(s) PROVE SlotIsHeld'
  <2>1. InFlight(s) /\ Finish(s)
    BY <1>6 DEF CommitRejected, CommitResync, InFlight
  <2> QED BY <2>1, FinishKeepsSlot
<1>7. ASSUME NEW s \in Syncs, CommitStale(s) PROVE SlotIsHeld'
  <2>1. CASE s \in Pages
    <3>1. InFlight(s) /\ Finish(s)
      BY <1>7, <2>1 DEF CommitStale, InFlight, Finish
    <3> QED BY <3>1, FinishKeepsSlot
  <2>2. CASE s \notin Pages
    <3>1. slot' = slot
      BY <1>7, <2>2 DEF CommitStale, TypeOK
    <3>2. \A q \in Pages : pc'[q] = pc[q]
      BY <1>7, <2>2 DEF CommitStale, TypeOK, Syncs
    <3> QED BY <1>0, <3>1, <3>2 DEF InFlight
  <2> QED BY <2>1, <2>2
<1>8. CASE Edit
  <2>1. slot' = slot /\ pc' = pc
    BY <1>8 DEF Edit, account_groups_toggle, account_groups_delete, delete_account
  <2> QED BY <1>0, <2>1 DEF InFlight
<1>9. CASE WebDies
  <2>1. slot' = FALSE
    BY <1>9 DEF WebDies
  <2>2. \A q \in Pages : ~InFlight(q)'
    BY <1>9 DEF WebDies, InFlight, Syncs
  <2> QED BY <2>1, <2>2 DEF SlotIsHeld
<1>10. CASE UNCHANGED vars
  BY <1>0, <1>10 DEF vars, InFlight
<1> QED BY <1>1, <1>2, <1>3, <1>4, <1>5, <1>6, <1>7, <1>8, <1>9, <1>10 DEF Next, RunTask, Apply

(* However many presses there are, one at a time holds the slot of the account,
   and the slot is free once it ended, in whatever way. *)
THEOREM SlotIsHeldHolds == Spec => []SlotIsHeld
<1>1. Init => SlotIsHeld
  BY DEF Init, SlotIsHeld, InFlight, Syncs
<1> QED BY <1>1, TypeCorrect, SlotStep, PTL DEF Spec

----------------------------------------------------------------------------
LEMMA WatchStep == TypeOK /\ SyncingIsWatched /\ [Next]_vars => SyncingIsWatched'
<1> SUFFICES ASSUME TypeOK, SyncingIsWatched, [Next]_vars,
                    account'.status = "syncing", failures' = 0
             PROVE  \E t \in Tasks : Watching(t)'
  BY DEF SyncingIsWatched, Watching
<1> USE GroupSyncAssumption
(* A step after which every watching task still watches. *)
<1>0. ASSUME account.status = "syncing", failures = 0,
             \A t \in Tasks : Watching(t) => Watching(t)'
      PROVE  \E t \in Tasks : Watching(t)'
  BY <1>0 DEF SyncingIsWatched, Watching
<1>1. ASSUME NEW t \in Tasks, StartTask(t) \/ SendTask(t) \/ PollPending(t)
      PROVE  \E u \in Tasks : Watching(u)'
  <2>1. account' = account /\ failures' = failures
    BY <1>1 DEF StartTask, accounts_connect_status, accounts_retry_sync, SendTask, PollPending
  <2>2. \A u \in Tasks : Watching(u) => Watching(u)'
    BY <1>1 DEF StartTask, accounts_connect_status, accounts_retry_sync, SendTask, PollPending,
                Watching, TypeOK, Syncs
  <2> QED BY <1>0, <2>1, <2>2
<1>2. ASSUME NEW t \in Tasks, CommitSyncing(t) PROVE \E u \in Tasks : Watching(u)'
  <2>1. CASE pc'[t] = "committed"
    BY <2>1 DEF Watching
  <2>2. CASE pc'[t] # "committed"
    <3>1. account' = account /\ failures' = failures /\ ~Exists
      BY <1>2, <2>2 DEF CommitSyncing, TypeOK, Syncs
    <3> QED BY <3>1 DEF Exists
  <2> QED BY <2>1, <2>2
<1>3. ASSUME NEW t \in Tasks, PollReady(t) \/ TaskFails(t)
      PROVE  \E u \in Tasks : Watching(u)'
  <2>1. account.status = "syncing"
    BY <1>3 DEF PollReady, TaskFails
  <2>2. pc'[t] \in {"loading", "recording"}
    BY <1>3, <2>1 DEF PollReady, TaskFails, TypeOK, Syncs
  <2> QED BY <2>2 DEF Watching
<1>4. ASSUME NEW t \in Tasks, RecordFailure(t) PROVE \E u \in Tasks : Watching(u)'
  <2>1. account'.status # "syncing"
    BY <1>4 DEF RecordFailure, Exists, TypeOK
  <2> QED BY <2>1
<1>5. ASSUME NEW t \in Tasks, TaskDies(t) PROVE \E u \in Tasks : Watching(u)'
  BY <1>5 DEF TaskDies, TypeOK
<1>6. ASSUME NEW p \in Pages, accounts_sync_groups(p) PROVE \E u \in Tasks : Watching(u)'
  BY <1>6 DEF accounts_sync_groups
<1>7. ASSUME NEW p \in Pages, RunPage(p) PROVE \E u \in Tasks : Watching(u)'
  <2>1. account'.status = account.status /\ failures' = failures
    BY <1>7 DEF RunPage, FetchFails, RecordConflict, TypeOK
  <2>2. \A u \in Tasks : Watching(u) => Watching(u)'
    BY <1>7 DEF RunPage, FetchFails, RecordConflict, Finish, Watching, TypeOK, Syncs
  <2> QED BY <1>0, <2>1, <2>2
<1>8. ASSUME NEW s \in Syncs, LoadRows(s) \/ CommitConflict(s) \/ CommitStale(s)
      PROVE  \E u \in Tasks : Watching(u)'
  <2>1. account' = account /\ failures' = failures
    BY <1>8 DEF LoadRows, CommitConflict, CommitStale
  <2>2. s \in Tasks => pc'[s] \in {"applying", "failing"}
    BY <1>8 DEF LoadRows, CommitConflict, CommitStale, TypeOK, Syncs
  <2>3. \A u \in Tasks : u # s => pc'[u] = pc[u]
    BY <1>8 DEF LoadRows, CommitConflict, CommitStale, TypeOK, Syncs
  <2> QED BY <1>0, <2>1, <2>2, <2>3 DEF Watching
<1>9. ASSUME NEW s \in Syncs, CommitRejected(s) \/ CommitResync(s)
      PROVE  \E u \in Tasks : Watching(u)'
  <2>0. account \in [status : Statuses, result : {"never", "ok", "error"},
                     synced : Syncs \cup {Never}]
    BY DEF TypeOK
  <2>1. account'.status = StatusAfter(s) /\ failures' = failures
    <3>1. CASE CommitRejected(s)
      BY <2>0, <3>1 DEF CommitRejected
    <3>2. CASE CommitResync(s)
      BY <3>2 DEF CommitResync
    <3> QED BY <1>9, <3>1, <3>2
  <2>2. s \in Pages /\ account.status = "syncing"
    BY <2>1 DEF StatusAfter, Syncs
  <2>3. \A u \in Tasks : pc'[u] = pc[u]
    BY <1>9, <2>2 DEF CommitRejected, CommitResync, Finish, TypeOK, Syncs
  <2> QED BY <1>0, <2>1, <2>2, <2>3 DEF Watching
<1>10. CASE Edit
  <2>1. CASE delete_account
    <3>1. account'.status = "deleted"
      BY <2>1 DEF delete_account, TypeOK
    <3> QED BY <3>1
  <2>2. CASE ~delete_account
    <3>1. UNCHANGED <<account, failures, pc>>
      BY <1>10, <2>2 DEF Edit, account_groups_toggle, account_groups_delete
    <3> QED BY <1>0, <3>1 DEF Watching
  <2> QED BY <2>1, <2>2
<1>11. CASE WebDies
  BY <1>11 DEF WebDies, TypeOK
<1>12. CASE UNCHANGED vars
  BY <1>0, <1>12 DEF vars, Watching
<1> QED BY <1>1, <1>2, <1>3, <1>4, <1>5, <1>6, <1>7, <1>8, <1>9, <1>10, <1>11, <1>12
        DEF Next, RunTask, Apply

(* However many tasks compete for an account, none of them leaves it in
   "syncing" with nobody in charge, unless a process died. *)
THEOREM SyncingIsWatchedHolds == Spec => []SyncingIsWatched
<1>1. Init => SyncingIsWatched
  BY DEF Init, SyncingIsWatched
<1> QED BY <1>1, TypeCorrect, WatchStep, PTL DEF Spec

----------------------------------------------------------------------------
(* The parties other than a commit of a list and the user leave the groups and
   the date of the last sync alone. *)
OthersStep ==
  \/ \E t \in Tasks : StartTask(t) \/ RunTask(t) \/ TaskDies(t)
  \/ \E p \in Pages : accounts_sync_groups(p) \/ RunPage(p)
  \/ \E s \in Syncs : LoadRows(s) \/ CommitRejected(s) \/ CommitConflict(s) \/ CommitStale(s)
  \/ WebDies

LEMMA OthersKeepRows ==
  ASSUME TypeOK, OthersStep
  PROVE  rows' = rows /\ account'.synced = account.synced
<1>0. account \in [status : Statuses, result : {"never", "ok", "error"},
                   synced : Syncs \cup {Never}]
  BY DEF TypeOK
<1>1. ASSUME NEW t \in Tasks, StartTask(t) \/ RunTask(t) \/ TaskDies(t)
      PROVE  rows' = rows /\ account'.synced = account.synced
  <2>1. rows' = rows
    BY <1>1 DEF StartTask, RunTask, accounts_connect_status, accounts_retry_sync, CommitSyncing,
                SendTask, PollPending, PollReady, TaskFails, RecordFailure, TaskDies
  <2>2. \/ account' = account
        \/ account' = [account EXCEPT !.status = "syncing"]
        \/ account' = [account EXCEPT !.status = "sync_failed", !.result = "error"]
    BY <1>1 DEF StartTask, RunTask, accounts_connect_status, accounts_retry_sync, CommitSyncing,
                SendTask, PollPending, PollReady, TaskFails, RecordFailure, TaskDies
  <2> QED BY <1>0, <2>1, <2>2
<1>2. ASSUME NEW p \in Pages, accounts_sync_groups(p) \/ RunPage(p)
      PROVE  rows' = rows /\ account'.synced = account.synced
  <2>1. rows' = rows
    BY <1>2 DEF accounts_sync_groups, RunPage, FetchFails, RecordConflict
  <2>2. account' = account \/ account' = [account EXCEPT !.result = "error"]
    BY <1>2 DEF accounts_sync_groups, RunPage, FetchFails, RecordConflict
  <2> QED BY <1>0, <2>1, <2>2
<1>3. ASSUME NEW s \in Syncs, LoadRows(s) \/ CommitRejected(s) \/ CommitConflict(s) \/ CommitStale(s)
      PROVE  rows' = rows /\ account'.synced = account.synced
  <2>1. rows' = rows
    BY <1>3 DEF LoadRows, CommitRejected, CommitConflict, CommitStale
  <2>2. \/ account' = account
        \/ account' = [account EXCEPT !.status = StatusAfter(s), !.result = "error"]
    BY <1>3 DEF LoadRows, CommitRejected, CommitConflict, CommitStale
  <2> QED BY <1>0, <2>1, <2>2
<1>4. CASE WebDies
  BY <1>4 DEF WebDies
<1> QED BY <1>1, <1>2, <1>3, <1>4 DEF OthersStep

LEMMA NextCases ==
  ASSUME Next
  PROVE  OthersStep \/ Edit \/ \E s \in Syncs : CommitResync(s)
BY DEF Next, OthersStep, Apply

(* What a commit of a list does to one row. *)
LEMMA ResyncRow ==
  ASSUME TypeOK, NEW s \in Syncs, CommitResync(s), NEW g \in Ids
  PROVE  \/ rows'[g] = rows[g]
         \/ rows[g] = NoRow /\ loaded[s][g] = NoRow /\ g \in list[s]
         \/ /\ rows[g] \in Row /\ rows'[g] \in Row
            /\ rows'[g].is_active = rows[g].is_active
<1>1. PICK renamed \in SUBSET (Known(s) \cap list[s]) : rows' = ApplyRows(s, renamed)
  BY DEF CommitResync
<1>2. CASE g \in Fresh(s)
  BY <1>2 DEF CommitResync, Duplicate, Fresh, Known
<1>3. CASE g \notin Fresh(s) /\ g \in Dirty(s, renamed) /\ ~Gone(s, g)
  <2>1. loaded[s][g] # NoRow /\ rows[g] # NoRow
    BY <1>3 DEF Dirty, Known, Gone
  <2>2. rows[g] \in Row
    BY <2>1 DEF TypeOK
  <2>3. rows'[g] = Written(s, g)
    BY <1>1, <1>3 DEF ApplyRows
  <2>4. Written(s, g) \in Row
    BY <2>1, WrittenIsRow
  <2>5. Written(s, g).is_active = rows[g].is_active
    BY <2>2 DEF Written, Row
  <2> QED BY <2>2, <2>3, <2>4, <2>5
<1>4. CASE g \notin Fresh(s) /\ ~(g \in Dirty(s, renamed) /\ ~Gone(s, g))
  BY <1>1, <1>4 DEF ApplyRows
<1> QED BY <1>2, <1>3, <1>4

(* Edits are the user's: they move no run and no date. *)
LEMMA EditKeeps ==
  ASSUME TypeOK, Edit
  PROVE  /\ pc' = pc
         /\ account'.synced = account.synced
         /\ \A g \in Ids : rows'[g] = rows[g] \/ rows'[g] = NoRow
                           \/ (rows[g] # NoRow /\ account' = account)
<1>0. account \in [status : Statuses, result : {"never", "ok", "error"},
                   synced : Syncs \cup {Never}]
  BY DEF TypeOK
<1>1. CASE delete_account
  BY <1>0, <1>1 DEF delete_account, NoRows
<1>2. ASSUME NEW g \in Ids, account_groups_toggle(g) \/ account_groups_delete(g)
      PROVE  /\ pc' = pc
             /\ account' = account
             /\ \A h \in Ids : rows'[h] = rows[h] \/ rows[h] # NoRow
  BY <1>2 DEF account_groups_toggle, account_groups_delete, TypeOK
<1> QED BY <1>1, <1>2 DEF Edit

(* A synchronisation never switches a group on or off, however late it commits. *)
THEOREM OnlyTheUserTogglesHolds == Spec => OnlyTheUserToggles
<1>1. ASSUME TypeOK, [Next]_vars, NEW g \in Ids,
             rows[g] # NoRow, rows'[g] # NoRow,
             rows[g].is_active # rows'[g].is_active
      PROVE  UNCHANGED <<account, pc>>
  <2>1. rows' # rows
    BY <1>1
  <2>2. ~OthersStep
    BY <1>1, <2>1, OthersKeepRows
  <2>3. ASSUME NEW s \in Syncs, CommitResync(s) PROVE FALSE
    BY <1>1, <2>3, ResyncRow
  <2>4. Edit
    BY <1>1, <2>1, <2>2, <2>3, NextCases DEF vars
  <2>5. pc' = pc /\ account' = account
    <3>1. rows'[g] # rows[g]
      BY <1>1
    <3> QED BY <1>1, <2>4, <3>1, EditKeeps
  <2> QED BY <2>5
<1>2. TypeOK /\ [Next]_vars =>
        [\A g \in Ids :
           (/\ rows[g] # NoRow /\ rows'[g] # NoRow
            /\ rows[g].id = rows'[g].id
            /\ rows[g].is_active # rows'[g].is_active) => UNCHANGED <<account, pc>>]_vars
  BY <1>1
<1> QED BY <1>2, TypeCorrect, PTL DEF Spec, OnlyTheUserToggles

(* A group appears only from a list that names it, committed by a run that did
   not know it: what the user deletes in between does not come back. *)
THEOREM DeletedStaysDeletedHolds == Spec => DeletedStaysDeleted
<1>1. ASSUME TypeOK, [Next]_vars, NEW g \in Ids, rows[g] = NoRow, rows'[g] # NoRow
      PROVE  \E s \in Syncs : /\ pc[s] = "applying" /\ pc'[s] = "done"
                              /\ loaded[s][g] = NoRow /\ g \in list[s]
  <2>1. rows'[g] # rows[g] /\ rows' # rows
    BY <1>1
  <2>2. ~OthersStep
    BY <1>1, <2>1, OthersKeepRows
  <2>3. ~Edit
    BY <1>1, <2>1, EditKeeps
  <2>4. PICK s \in Syncs : CommitResync(s)
    BY <1>1, <2>1, <2>2, <2>3, NextCases DEF vars
  <2>5. pc[s] = "applying" /\ pc'[s] = "done"
    BY <1>1, <2>4 DEF CommitResync, Finish, TypeOK
  <2>6. loaded[s][g] = NoRow /\ g \in list[s]
    <3>1. PICK renamed \in SUBSET (Known(s) \cap list[s]) : rows' = ApplyRows(s, renamed)
      BY <2>4 DEF CommitResync
    <3>2. ~(g \in Dirty(s, renamed) /\ ~Gone(s, g))
      BY <1>1 DEF Gone
    <3>3. g \in Fresh(s)
      BY <1>1, <3>1, <3>2 DEF ApplyRows
    <3> QED BY <3>3 DEF Fresh, Known
  <2> QED BY <2>5, <2>6
<1>2. TypeOK /\ [Next]_vars =>
        [\A g \in Ids : rows[g] = NoRow /\ rows'[g] # NoRow =>
           \E s \in Syncs : /\ pc[s] = "applying" /\ pc'[s] = "done"
                            /\ loaded[s][g] = NoRow /\ g \in list[s]]_vars
  BY <1>1
<1> QED BY <1>2, TypeCorrect, PTL DEF Spec, DeletedStaysDeleted

(* Groups change with the date and a summary without an error, or not at all. *)
THEOREM FailureChangesNothingHolds == Spec => FailureChangesNothing
<1>1. ASSUME TypeOK, [Next]_vars,
             (rows' # rows /\ pc' # pc) \/ account'.synced # account.synced
      PROVE  /\ account'.result = "ok"
             /\ account'.synced \in {s \in Syncs : pc[s] = "applying" /\ pc'[s] = "done"}
  <2>1. ~OthersStep
    BY <1>1, OthersKeepRows
  <2>2. ~Edit
    BY <1>1, EditKeeps
  <2>3. PICK s \in Syncs : CommitResync(s)
    BY <1>1, <2>1, <2>2, NextCases DEF vars
  <2>4. account'.result = "ok" /\ account'.synced = s
    BY <2>3 DEF CommitResync
  <2>5. pc[s] = "applying" /\ pc'[s] = "done"
    BY <1>1, <2>3 DEF CommitResync, Finish, TypeOK
  <2> QED BY <2>4, <2>5
<1>2. TypeOK /\ [Next]_vars =>
        [(rows' # rows /\ pc' # pc) \/ account'.synced # account.synced =>
           /\ account'.result = "ok"
           /\ account'.synced \in {s \in Syncs : pc[s] = "applying" /\ pc'[s] = "done"}]_vars
  BY <1>1
<1> QED BY <1>2, TypeCorrect, PTL DEF Spec, FailureChangesNothing
=============================================================================
