------------------------------ MODULE GroupSync ------------------------------
(***************************************************************************)
(* The groups of one WhatsApp or MAX account, and three parties that       *)
(* change them: the page's synchronisation button (accounts_sync_groups),  *)
(* the background task started by the connection wizard or the retry       *)
(* button (_sync_groups_async), and the user who switches, deletes and     *)
(* disconnects.  The first two share apply_group_resync, which compares    *)
(* the rows it loaded with the list the messenger answered; the commit     *)
(* comes later and may meet rows that changed meanwhile.                   *)
(*                                                                         *)
(* A run of the button or of a task is one member of Syncs; its identity   *)
(* stands for the moment marked_at it writes.  What the messenger answers  *)
(* is a free choice at every poll and every fetch.                         *)
(***************************************************************************)
EXTENDS Integers, FiniteSets

CONSTANTS
  Ids,          \* external identifiers of groups
  Pages,        \* presses of the synchronisation button
  Tasks,        \* requests that start a background task, each with its task
  MaxPolls,     \* MAX_POLLS
  MaxEdits,     \* bound: what the user does besides
  MaxFailures,  \* bound: crashes of the web process or of a task
  NoRow, Present, Never, NotAList

Syncs == Pages \cup Tasks

ASSUME GroupSyncAssumption ==
  /\ MaxPolls \in Nat /\ MaxEdits \in Nat /\ MaxFailures \in Nat
  /\ Pages \cap Tasks = {}
  /\ Present \notin Syncs /\ Never \notin Syncs

VARIABLES
  account,   \* the row of messenger_accounts: status, last_sync_result, last_synced_at
  rows,      \* the groups table: external id -> row
  born,      \* the next primary key
  slot,      \* _SYNC_IN_FLIGHT holds the account
  pc,        \* where each run is
  read,      \* the status a request found when it loaded the account
  list,      \* the list a run has in hand
  loaded,    \* the rows a run has loaded
  polls,     \* polls a task has made
  edits, failures

vars == <<account, rows, born, slot, pc, read, list, loaded, polls, edits, failures>>

Statuses == {"connecting", "syncing", "active", "sync_failed", "deleted"}
Row == [id : Nat, is_active : BOOLEAN, missing_since : Syncs \cup {Present}]
NoRows == [g \in Ids |-> NoRow]

(* A run that has read something and not finished. *)
InFlight(s) == pc[s] \notin {"idle", "done"}
Exists == account.status # "deleted"

(* A new account, or one from before the two columns of its last sync were
   added, or one whose sync failed. *)
Init ==
  /\ \/ /\ account = [status |-> "connecting", result |-> "never", synced |-> Never]
        /\ rows = NoRows
     \/ /\ account \in {[status |-> "active", result |-> "never", synced |-> Never],
                       [status |-> "sync_failed", result |-> "error", synced |-> Never]}
        /\ rows \in [Ids -> {NoRow, [id |-> 0, is_active |-> TRUE, missing_since |-> Present]}]
  /\ born = 1
  /\ slot = FALSE
  /\ pc = [s \in Syncs |-> "idle"]
  /\ read = [t \in Tasks |-> "none"]
  /\ list = [s \in Syncs |-> {}]
  /\ loaded = [s \in Syncs |-> NoRows]
  /\ polls = [t \in Tasks |-> 0]
  /\ edits = 0 /\ failures = 0

(* A run ends and forgets what it held; a button press also gives the slot back. *)
Finish(s) ==
  /\ pc' = [pc EXCEPT ![s] = "done"]
  /\ list' = [list EXCEPT ![s] = {}]
  /\ loaded' = [loaded EXCEPT ![s] = NoRows]
  /\ slot' = (slot /\ s \notin Pages)

----------------------------------------------------------------------------
(* The two requests that start a task. *)

(* accounts_connect_*_status: the wizard sees that the messenger is connected. *)
accounts_connect_status(t) ==
  /\ pc[t] = "idle" /\ account.status = "connecting"
  /\ pc' = [pc EXCEPT ![t] = "loaded"]
  /\ read' = [read EXCEPT ![t] = account.status]
  /\ UNCHANGED <<account, rows, born, slot, list, loaded, polls, edits, failures>>

(* accounts_retry_sync loads the account whatever its status and then asks the
   worker for a new list; that call cannot fail the request. *)
accounts_retry_sync(t) ==
  /\ pc[t] = "idle" /\ Exists
  /\ pc' = [pc EXCEPT ![t] = "loaded"]
  /\ read' = [read EXCEPT ![t] = account.status]
  /\ UNCHANGED <<account, rows, born, slot, list, loaded, polls, edits, failures>>

(* The commit writes the status only if it differs from the one that was
   loaded; an UPDATE of a deleted account is an error and sends no task. *)
CommitSyncing(t) ==
  /\ pc[t] = "loaded"
  /\ IF read[t] = "syncing"
     THEN /\ pc' = [pc EXCEPT ![t] = "committed"]
          /\ UNCHANGED account
     ELSE IF Exists
     THEN /\ pc' = [pc EXCEPT ![t] = "committed"]
          /\ account' = [account EXCEPT !.status = "syncing"]
     ELSE /\ pc' = [pc EXCEPT ![t] = "done"]
          /\ UNCHANGED account
  /\ read' = [read EXCEPT ![t] = "none"]
  /\ UNCHANGED <<rows, born, slot, list, loaded, polls, edits, failures>>

(* celery.send_task. *)
SendTask(t) ==
  /\ pc[t] = "committed"
  /\ pc' = [pc EXCEPT ![t] = "polling"]
  /\ UNCHANGED <<account, rows, born, slot, read, list, loaded, polls, edits, failures>>

----------------------------------------------------------------------------
(* _sync_groups_async: the poll loop. *)

(* The worker is not ready yet, or did not answer. *)
PollPending(t) ==
  /\ pc[t] = "polling" /\ polls[t] < MaxPolls
  /\ polls' = [polls EXCEPT ![t] = @ + 1]
  /\ UNCHANGED <<account, rows, born, slot, pc, read, list, loaded, edits, failures>>

(* The worker is ready: go on only with an account that is still syncing. *)
PollReady(t) ==
  /\ pc[t] = "polling" /\ polls[t] < MaxPolls
  /\ pc' = [pc EXCEPT ![t] = IF account.status = "syncing" THEN "loading" ELSE "done"]
  /\ UNCHANGED <<account, rows, born, slot, read, list, loaded, polls, edits, failures>>

(* The worker reports a failure, the polls are used up, or an exception brought
   the task here; the account is loaded again before the failure is recorded. *)
TaskFails(t) ==
  /\ pc[t] \in {"polling", "failing"}
  /\ pc' = [pc EXCEPT ![t] = IF account.status = "syncing" THEN "recording" ELSE "done"]
  /\ UNCHANGED <<account, rows, born, slot, read, list, loaded, polls, edits, failures>>

(* Mutant: the failure is recorded and the status forgotten. *)
RecordFailure_KeepsStatus(t) ==
  /\ pc[t] = "recording"
  /\ account' = IF Exists
                THEN [account EXCEPT !.result = "error"]
                ELSE account
  /\ Finish(t)
  /\ UNCHANGED <<rows, born, read, polls, edits, failures>>

(* record_sync_failure and the status, in one commit. *)
RecordFailure(t) ==
  /\ pc[t] = "recording"
  /\ account' = IF Exists
                THEN [account EXCEPT !.status = "sync_failed", !.result = "error"]
                ELSE account
  /\ Finish(t)
  /\ UNCHANGED <<rows, born, read, polls, edits, failures>>

----------------------------------------------------------------------------
(* accounts_sync_groups: the button. *)

(* The guards: the account is there, no background run is under way, and the
   slot of this process is free (_claim_sync_slot). *)
accounts_sync_groups(p) ==
  /\ pc[p] = "idle"
  /\ account.status \notin {"deleted", "syncing"}
  /\ ~slot
  /\ slot' = TRUE
  /\ pc' = [pc EXCEPT ![p] = "loading"]
  /\ UNCHANGED <<account, rows, born, read, list, loaded, polls, edits, failures>>

(* get_groups raises: the failure is the summary, nothing else changes. *)
FetchFails(p) ==
  /\ p \in Pages /\ pc[p] = "loading"
  /\ account' = IF Exists THEN [account EXCEPT !.result = "error"] ELSE account
  /\ Finish(p)
  /\ UNCHANGED <<rows, born, read, polls, edits, failures>>

----------------------------------------------------------------------------
(* apply_group_resync. *)

(* The answer arrives and the rows of the account are loaded, unless the
   answer is no list at all. *)
LoadRows(s) ==
  /\ pc[s] = "loading"
  /\ \E answer \in {NotAList} \cup SUBSET Ids :
       /\ list' = [list EXCEPT ![s] = answer]
       /\ loaded' = [loaded EXCEPT ![s] = IF answer = NotAList THEN NoRows ELSE rows]
  /\ pc' = [pc EXCEPT ![s] = "applying"]
  /\ UNCHANGED <<account, rows, born, slot, read, polls, edits, failures>>

Known(s) == {g \in Ids : loaded[s][g] # NoRow}

(* No list, or an empty one for an account that has groups. *)
Rejected(s) == list[s] = NotAList \/ (Known(s) # {} /\ list[s] = {})

Fresh(s) == list[s] \ Known(s)

(* missing_since as the run leaves it: cleared for a group that came back, set
   for one that is gone, and kept if it was set before. *)
Marked(s, g) ==
  CASE g \in list[s] -> Present
    [] g \notin list[s] /\ loaded[s][g].missing_since = Present -> s
    [] OTHER -> loaded[s][g].missing_since

(* The rows the unit of work writes: those marked otherwise than loaded, and
   those that were renamed. *)
Dirty(s, renamed) == {g \in Known(s) : Marked(s, g) # loaded[s][g].missing_since} \cup renamed

(* The row a run loaded is no longer there (or another one of that id is). *)
Gone(s, g) == ~(rows[g] # NoRow /\ rows[g].id = loaded[s][g].id)

(* uq_groups_account_external refuses a row that is there already. *)
Duplicate(s) == \E g \in Fresh(s) : rows[g] # NoRow

(* Mutant: the whole loaded row is written, as a merge of a detached object does. *)
Written_WholeRow(s, g) == [loaded[s][g] EXCEPT !.missing_since = Marked(s, g)]

(* An UPDATE sets the one column that changed. *)
Written(s, g) == [rows[g] EXCEPT !.missing_since =
                    IF Marked(s, g) = loaded[s][g].missing_since THEN @ ELSE Marked(s, g)]

(* Mutant: a row that vanished is written again. *)
ApplyRows_Upsert(s, renamed) ==
  [g \in Ids |->
     IF g \in Fresh(s) \/ (g \in Dirty(s, renamed) /\ Gone(s, g))
     THEN [id |-> born, is_active |-> TRUE, missing_since |-> Present]
     ELSE IF g \in Dirty(s, renamed) THEN Written(s, g)
     ELSE rows[g]]

(* The table after the flush.  An UPDATE of a vanished row matches nothing. *)
ApplyRows(s, renamed) ==
  [g \in Ids |->
     IF g \in Fresh(s) THEN [id |-> born, is_active |-> TRUE, missing_since |-> Present]
     ELSE IF g \in Dirty(s, renamed) /\ ~Gone(s, g) THEN Written(s, g)
     ELSE rows[g]]

(* A task also ends the syncing; the button leaves the status alone. *)
StatusAfter(s) == IF s \in Tasks THEN "active" ELSE account.status

(* The list is rejected: only the summary says so. *)
CommitRejected(s) ==
  /\ pc[s] = "applying" /\ Exists
  /\ Rejected(s)
  /\ account' = [account EXCEPT !.status = StatusAfter(s), !.result = "error"]
  /\ Finish(s)
  /\ UNCHANGED <<rows, born, read, polls, edits, failures>>

(* The list is applied: rows, date, summary and status become visible together. *)
CommitResync(s) ==
  /\ pc[s] = "applying" /\ Exists
  /\ ~Rejected(s) /\ ~Duplicate(s)
  /\ \E renamed \in SUBSET (Known(s) \cap list[s]) : rows' = ApplyRows(s, renamed)
  /\ born' = IF Fresh(s) = {} THEN born ELSE born + 1
  /\ account' = [status |-> StatusAfter(s), result |-> "ok", synced |-> s]
  /\ Finish(s)
  /\ UNCHANGED <<read, polls, edits, failures>>

(* Mutant: the task swallows the error instead of recording it. *)
CommitConflict_Swallowed(s) ==
  /\ pc[s] = "applying"
  /\ ~Rejected(s)
  /\ Fresh(s) # {} /\ (Duplicate(s) \/ ~Exists)
  /\ pc' = [pc EXCEPT ![s] = IF s \in Pages THEN "conflict" ELSE "done"]
  /\ list' = [list EXCEPT ![s] = {}]
  /\ loaded' = [loaded EXCEPT ![s] = NoRows]
  /\ UNCHANGED <<account, rows, born, slot, read, polls, edits, failures>>

(* The commit hits the unique index or the deleted account and is rolled back. *)
CommitConflict(s) ==
  /\ pc[s] = "applying"
  /\ ~Rejected(s)
  /\ Fresh(s) # {} /\ (Duplicate(s) \/ ~Exists)
  /\ pc' = [pc EXCEPT ![s] = IF s \in Pages THEN "conflict" ELSE "failing"]
  /\ list' = [list EXCEPT ![s] = {}]
  /\ loaded' = [loaded EXCEPT ![s] = NoRows]
  /\ UNCHANGED <<account, rows, born, slot, read, polls, edits, failures>>

(* Mutant: the release stands behind the commit instead of in the finally. *)
CommitStale_KeepsSlot(s) ==
  /\ pc[s] = "applying"
  /\ \/ ~Exists
     \/ /\ ~Rejected(s)
        /\ \E renamed \in SUBSET (Known(s) \cap list[s]) :
             \E g \in Dirty(s, renamed) : Gone(s, g)
  /\ list' = [list EXCEPT ![s] = {}]
  /\ loaded' = [loaded EXCEPT ![s] = NoRows]
  /\ pc' = [pc EXCEPT ![s] = IF s \in Pages THEN "done" ELSE "failing"]
  /\ UNCHANGED <<account, rows, born, slot, read, polls, edits, failures>>

(* Mutant: the groups were committed before the account, the error comes after. *)
CommitStale_Partial(s) ==
  /\ pc[s] = "applying"
  /\ ~Rejected(s) /\ Exists /\ ~Duplicate(s)
  /\ \E renamed \in SUBSET (Known(s) \cap list[s]) :
       /\ \E g \in Dirty(s, renamed) : Gone(s, g)
       /\ rows' = ApplyRows(s, renamed)
  /\ list' = [list EXCEPT ![s] = {}]
  /\ loaded' = [loaded EXCEPT ![s] = NoRows]
  /\ pc' = [pc EXCEPT ![s] = IF s \in Pages THEN "done" ELSE "failing"]
  /\ slot' = (slot /\ s \notin Pages)
  /\ UNCHANGED <<account, born, read, polls, edits, failures>>

(* The UPDATE of a row or of an account that is no longer there raises
   StaleDataError.  The button's request ends with it, its slot released; the
   task goes to its except branch. *)
CommitStale(s) ==
  /\ pc[s] = "applying"
  /\ \/ ~Exists
     \/ /\ ~Rejected(s)
        /\ \E renamed \in SUBSET (Known(s) \cap list[s]) :
             \E g \in Dirty(s, renamed) : Gone(s, g)
  /\ list' = [list EXCEPT ![s] = {}]
  /\ loaded' = [loaded EXCEPT ![s] = NoRows]
  /\ pc' = [pc EXCEPT ![s] = IF s \in Pages THEN "done" ELSE "failing"]
  /\ slot' = (slot /\ s \notin Pages)
  /\ UNCHANGED <<account, rows, born, read, polls, edits, failures>>

(* After the rollback the button loads the account again and records the conflict. *)
RecordConflict(p) ==
  /\ pc[p] = "conflict"
  /\ account' = IF Exists THEN [account EXCEPT !.result = "error"] ELSE account
  /\ Finish(p)
  /\ UNCHANGED <<rows, born, read, polls, edits, failures>>

----------------------------------------------------------------------------
(* The user, and crashes. *)

account_groups_toggle(g) ==
  /\ edits < MaxEdits /\ rows[g] # NoRow
  /\ rows' = [rows EXCEPT ![g].is_active = ~@]
  /\ edits' = edits + 1
  /\ UNCHANGED <<account, born, slot, pc, read, list, loaded, polls, failures>>

account_groups_delete(g) ==
  /\ edits < MaxEdits /\ rows[g] # NoRow
  /\ rows' = [rows EXCEPT ![g] = NoRow]
  /\ edits' = edits + 1
  /\ UNCHANGED <<account, born, slot, pc, read, list, loaded, polls, failures>>

(* The groups go with their account (ON DELETE CASCADE).  Opening the connection
   page does the same to an account that is connecting or has failed. *)
delete_account ==
  /\ edits < MaxEdits /\ Exists
  /\ account' = [account EXCEPT !.status = "deleted"]
  /\ rows' = NoRows
  /\ edits' = edits + 1
  /\ UNCHANGED <<born, slot, pc, read, list, loaded, polls, failures>>

(* The one web process dies with every request in it; its slots live in memory. *)
WebDies ==
  LET dying == {s \in Syncs : InFlight(s) /\ (s \in Pages \/ pc[s] \in {"loaded", "committed"})}
  IN /\ failures < MaxFailures /\ dying # {}
     /\ pc' = [s \in Syncs |-> IF s \in dying THEN "done" ELSE pc[s]]
     /\ list' = [s \in Syncs |-> IF s \in dying THEN {} ELSE list[s]]
     /\ loaded' = [s \in Syncs |-> IF s \in dying THEN NoRows ELSE loaded[s]]
     /\ slot' = FALSE
     /\ failures' = failures + 1
     /\ UNCHANGED <<account, rows, born, read, polls, edits>>

(* A task is acknowledged before it runs: one that dies is not repeated. *)
TaskDies(t) ==
  /\ failures < MaxFailures
  /\ pc[t] \in {"polling", "loading", "applying", "failing", "recording"}
  /\ Finish(t)
  /\ failures' = failures + 1
  /\ UNCHANGED <<account, rows, born, read, polls, edits>>

----------------------------------------------------------------------------
StartTask(t) == accounts_connect_status(t) \/ accounts_retry_sync(t)

RunTask(t) ==
  \/ CommitSyncing(t) \/ SendTask(t)
  \/ PollPending(t) \/ PollReady(t) \/ TaskFails(t) \/ RecordFailure(t)

Apply(s) ==
  \/ LoadRows(s)
  \/ CommitRejected(s) \/ CommitResync(s) \/ CommitConflict(s) \/ CommitStale(s)

RunPage(p) == FetchFails(p) \/ RecordConflict(p)

Edit ==
  \/ \E g \in Ids : account_groups_toggle(g) \/ account_groups_delete(g)
  \/ delete_account

Next ==
  \/ \E t \in Tasks : StartTask(t) \/ RunTask(t) \/ TaskDies(t)
  \/ \E p \in Pages : accounts_sync_groups(p) \/ RunPage(p)
  \/ \E s \in Syncs : Apply(s)
  \/ Edit
  \/ WebDies

Spec == Init /\ [][Next]_vars

(* Requests end and tasks go on: every await in them has a timeout.  Nothing
   makes anyone press a button, edit or crash. *)
Fairness ==
  /\ \A t \in Tasks : WF_vars(RunTask(t))
  /\ \A p \in Pages : WF_vars(RunPage(p))
  /\ \A s \in Syncs : WF_vars(Apply(s))

FairSpec == Spec /\ Fairness

----------------------------------------------------------------------------
TypeOK ==
  /\ account \in [status : Statuses, result : {"never", "ok", "error"},
                  synced : Syncs \cup {Never}]
  /\ rows \in [Ids -> Row \cup {NoRow}]
  /\ born \in Nat /\ slot \in BOOLEAN
  /\ pc \in [Syncs -> {"idle", "loaded", "committed", "polling", "loading", "applying",
                       "failing", "recording", "conflict", "done"}]
  /\ read \in [Tasks -> Statuses \cup {"none"}]
  /\ list \in [Syncs -> {NotAList} \cup SUBSET Ids]
  /\ loaded \in [Syncs -> [Ids -> Row \cup {NoRow}]]
  /\ polls \in [Tasks -> 0 .. MaxPolls]
  /\ edits \in 0 .. MaxEdits /\ failures \in 0 .. MaxFailures

(* The slot of the button is held exactly while one press is under way: two
   presses never fetch at once, and no way out of accounts_sync_groups - error,
   conflict or crash - leaves the account locked. *)
SlotIsHeld ==
  /\ slot <=> \E p \in Pages : InFlight(p)
  /\ \A p, q \in Pages : InFlight(p) /\ InFlight(q) => p = q

(* Whether a group is on is the user's choice: a synchronisation that loaded the
   row before the user switched it does not switch it back. *)
OnlyTheUserToggles ==
  [][\A g \in Ids :
       (/\ rows[g] # NoRow /\ rows'[g] # NoRow
        /\ rows[g].id = rows'[g].id
        /\ rows[g].is_active # rows'[g].is_active) => UNCHANGED <<account, pc>>]_vars

(* A group the user deletes while a synchronisation is between its SELECT and
   its commit is not brought back by that synchronisation. *)
DeletedStaysDeleted ==
  [][\A g \in Ids : rows[g] = NoRow /\ rows'[g] # NoRow =>
       \E s \in Syncs : /\ pc[s] = "applying" /\ pc'[s] = "done"
                        /\ loaded[s][g] = NoRow /\ g \in list[s]]_vars

(* A synchronisation changes groups only together with the date and a summary
   without an error: one that fails, conflicts or is refused leaves every row
   and last_synced_at as they were. *)
FailureChangesNothing ==
  [][(rows' # rows /\ pc' # pc) \/ account'.synced # account.synced =>
       account'.result = "ok" /\ account'.synced \in {s \in Syncs : pc[s] = "applying" /\ pc'[s] = "done"}]_vars

(* As long as nobody dies, somebody is responsible for an account in "syncing":
   a request about to send its task, or a task that will end the syncing.  No
   way out of a task - skipped, refused, conflicting or failing - abandons it. *)
SyncingIsWatched ==
  account.status = "syncing" /\ failures = 0 =>
    \E t \in Tasks : pc[t] \in {"committed", "polling", "loading", "applying", "failing", "recording"}

(* An account does not stay in "syncing", the status that keeps the button, the
   wizard and the scheduler away from it, unless a process died. *)
SyncEnds == account.status = "syncing" ~> (account.status # "syncing" \/ failures > 0)
=============================================================================
