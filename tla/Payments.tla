------------------------------ MODULE Payments ------------------------------
(***************************************************************************)
(* The money path of app/services/payment_service.py: create_payment (the  *)
(* lazy sweep, the reserve, the call of the YooKassa SDK, the record of    *)
(* the remote id) running beside handle_webhook (the row lock, the claim,  *)
(* the extension of the subscription), over PostgreSQL at READ COMMITTED.  *)
(*                                                                         *)
(* An intent i is one call of create_payment together with the one row of  *)
(* "payments" and the one remote payment it can create.  A delivery slot d *)
(* is one running handle_webhook.  A step is what one transaction or one   *)
(* statement does that another session can observe; a row lock is held     *)
(* from ReceivePaid to the commit or the rollback.                         *)
(***************************************************************************)
EXTENDS Integers, FiniteSets

CONSTANTS
  Users,
  Intents,      \* calls of create_payment, each naming the row it may insert
  Deliveries,   \* concurrently running webhook handlers
  Owner,        \* Owner[i]: the user_id the call is made for
  Kind,         \* Kind[i]: the subject of the purchase
  TTL,          \* PENDING_INTENT_TTL_HOURS, in ticks
  Month,        \* what add_one_month adds, in ticks
  TrialEnd,     \* the latest expires_at a user starts with
  MaxTime,      \* bound on the clock
  MaxFailures   \* bound on crashes and 500 answers

\* A package row may carry no messages_count; the webhook refuses that one.
Kinds == {"subscription", "package", "package_without_count"}

ASSUME PaymentsAssumption ==
  /\ Intents # {}
  /\ Owner \in [Intents -> Users]
  /\ Kind \in [Intents -> Kinds]
  /\ TTL \in Nat /\ TrialEnd \in Nat /\ MaxTime \in Nat /\ MaxFailures \in Nat
  /\ Month \in Nat \ {0}

VARIABLES
  now,        \* the wall clock
  pc,         \* pc[i]: where call i of create_payment is
  cutoff,     \* cutoff[i]: the local "cutoff" of the sweep of call i
  stale,      \* stale[i]: the rows the sweep of call i has selected
  status,     \* status[i]: the column; "none" while there is no row
  born,       \* born[i]: created_at
  linked,     \* linked[i]: the row carries its yookassa_payment_id
  remote,     \* remote[i]: the payment at YooKassa
  notice,     \* notice[i]: YooKassa's notification, due until answered 200
  dpc,        \* dpc[d]: where the webhook handler d is
  held,       \* held[d]: the row whose lock handler d holds
  dnow,       \* dnow[d]: the local "now" of handler d
  seen,       \* seen[d]: the expires_at handler d has read
  expires,    \* expires[u]: expires_at of the active subscription, or NoSub
  failures,   \* crashes so far
  credits,    \* history: credits[i] extensions committed for payment i
  grants,     \* history: grants[u] extensions committed for user u
  reopened    \* history: times a sweep took payment i out of a final status

requestVars == <<pc, cutoff, stale>>
rowVars     == <<status, born, linked>>
yooVars     == <<remote, notice>>
handlerVars == <<dpc, held, dnow, seen>>
history     == <<credits, grants, reopened>>
vars == <<now, requestVars, rowVars, yooVars, handlerVars, expires, failures, history>>

NoSub == -1

\* Mutant: an expired intent is final, its late payment is ignored.
TERMINAL_STATUSES_WithExpired == {"succeeded", "canceled", "expired"}

TERMINAL_STATUSES == {"succeeded", "canceled"}

Statuses == {"none", "pending", "expired"} \cup TERMINAL_STATUSES

OpenRequest == {"sweep", "reserve", "conflict", "sdk", "record"}

InTransaction == {"claimed", "insert", "inserted", "extend"}

TypeOK ==
  /\ now \in Nat
  /\ pc \in [Intents -> OpenRequest \cup {"idle", "capped", "failed", "crashed", "returned"}]
  /\ cutoff \in [Intents -> Int]
  /\ stale \in [Intents -> SUBSET Intents]
  /\ status \in [Intents -> Statuses]
  /\ born \in [Intents -> Nat]
  /\ linked \in [Intents -> BOOLEAN]
  /\ remote \in [Intents -> {"none", "open", "paid", "canceled"}]
  /\ notice \in [Intents -> {"none", "due", "answered"}]
  /\ dpc \in [Deliveries -> InTransaction \cup {"idle", "committed"}]
  /\ held \in [Deliveries -> Intents]
  /\ dnow \in [Deliveries -> Nat]
  /\ seen \in [Deliveries -> Nat \cup {NoSub}]
  /\ expires \in [Users -> Nat \cup {NoSub}]
  /\ failures \in Nat
  /\ credits \in [Intents -> Nat]
  /\ grants \in [Users -> Nat]
  /\ reopened \in [Intents -> Nat]

Init ==
  /\ now = 0
  /\ pc = [i \in Intents |-> "idle"]
  /\ cutoff = [i \in Intents |-> 0]
  /\ stale = [i \in Intents |-> {}]
  /\ status = [i \in Intents |-> "none"]
  /\ born = [i \in Intents |-> 0]
  /\ linked = [i \in Intents |-> FALSE]
  /\ remote = [i \in Intents |-> "none"]
  /\ notice = [i \in Intents |-> "none"]
  /\ dpc = [d \in Deliveries |-> "idle"]
  /\ held = [d \in Deliveries |-> CHOOSE i \in Intents : TRUE]
  /\ dnow = [d \in Deliveries |-> 0]
  /\ seen = [d \in Deliveries |-> NoSub]
  /\ expires \in [Users -> 0 .. TrialEnd \cup {NoSub}]
  /\ failures = 0
  /\ credits = [i \in Intents |-> 0]
  /\ grants = [u \in Users |-> 0]
  /\ reopened = [i \in Intents |-> 0]

-----------------------------------------------------------------------------
(* subscription_period.py: the date a payment confirmed at time t moves to. *)

countdown_base(current, t) == IF current <= t THEN t ELSE current

\* Mutant: a day too many.
next_expiry_OffByOne(current, t) == countdown_base(current, t) + Month + 1

next_expiry(current, t) == countdown_base(current, t) + Month

-----------------------------------------------------------------------------
(* The tables as another session sees them.                                *)

Locked(i) == \E d \in Deliveries : dpc[d] \in InTransaction /\ held[d] = i

\* The predicate of the partial unique index uq_payments_open_subscription_intent.
OpenIntent(i) == Kind[i] = "subscription" /\ status[i] = "pending"

OpenIntentsOf(u) == {i \in Intents : Owner[i] = u /\ OpenIntent(i)}

\* Mutant: a reserve that has no remote id yet is never stale.
_stale_subscription_intents_Linked(u, limit) ==
  {i \in OpenIntentsOf(u) : born[i] < limit /\ linked[i]}

_stale_subscription_intents(u, limit) == {i \in OpenIntentsOf(u) : born[i] < limit}

-----------------------------------------------------------------------------
(* create_payment.                                                         *)

\* The sweep reads: a plain SELECT, then a filter in Python.
SelectStale(i) ==
  /\ pc[i] = "idle" /\ Kind[i] = "subscription"
  /\ cutoff' = [cutoff EXCEPT ![i] = now - TTL]
  /\ stale' = [stale EXCEPT ![i] = _stale_subscription_intents(Owner[i], now - TTL)]
  /\ pc' = [pc EXCEPT ![i] = IF stale'[i] = {} THEN "reserve" ELSE "sweep"]
  /\ UNCHANGED <<now, rowVars, yooVars, handlerVars, expires, failures, history>>

\* The sweep writes: UPDATE ... WHERE id IN (...), which waits for row locks
\* and does not look at the status again; then its own commit.
ExpireStale(i) ==
  /\ pc[i] = "sweep"
  /\ \A j \in stale[i] : ~Locked(j)
  /\ status' = [j \in Intents |-> IF j \in stale[i] THEN "expired" ELSE status[j]]
  /\ reopened' = [j \in Intents |->
       IF j \in stale[i] /\ status[j] \in TERMINAL_STATUSES
       THEN reopened[j] + 1 ELSE reopened[j]]
  /\ pc' = [pc EXCEPT ![i] = "reserve"]
  /\ UNCHANGED <<now, cutoff, stale, born, linked, yooVars, handlerVars, expires,
                 failures, credits, grants>>

\* The reserve: INSERT in a savepoint, checked by the partial index.  A row whose
\* claim is not committed yet makes the insert wait for that transaction.
Reserve(i) ==
  /\ pc[i] = "reserve"
  /\ \A j \in OpenIntentsOf(Owner[i]) : ~Locked(j)
  /\ IF OpenIntentsOf(Owner[i]) = {}
     THEN /\ status' = [status EXCEPT ![i] = "pending"]
          /\ born' = [born EXCEPT ![i] = now]
          /\ pc' = [pc EXCEPT ![i] = "sdk"]
     ELSE /\ pc' = [pc EXCEPT ![i] = "conflict"]
          /\ UNCHANGED <<status, born>>
  /\ UNCHANGED <<now, cutoff, stale, linked, yooVars, handlerVars, expires, failures, history>>

\* _is_open_intent_conflict: the refusal is the cap only if an open intent is
\* still there; otherwise the IntegrityError goes up.
_is_open_intent_conflict(i) ==
  /\ pc[i] = "conflict"
  /\ pc' = [pc EXCEPT ![i] = IF OpenIntentsOf(Owner[i]) # {} THEN "capped" ELSE "failed"]
  /\ UNCHANGED <<now, cutoff, stale, rowVars, yooVars, handlerVars, expires, failures, history>>

\* A package goes to the SDK with no row of its own.
StartPackage(i) ==
  /\ pc[i] = "idle" /\ Kind[i] # "subscription"
  /\ pc' = [pc EXCEPT ![i] = "sdk"]
  /\ UNCHANGED <<now, cutoff, stale, rowVars, yooVars, handlerVars, expires, failures, history>>

CreateRemote(i) ==
  /\ pc[i] = "sdk"
  /\ remote' = [remote EXCEPT ![i] = "open"]
  /\ pc' = [pc EXCEPT ![i] = "record"]
  /\ UNCHANGED <<now, cutoff, stale, rowVars, notice, handlerVars, expires, failures, history>>

\* The SDK raises: the reserve is expired, a package leaves nothing.  YooKassa may
\* have created the payment all the same (a timeout), with nobody to see its url.
SdkFails(i) ==
  /\ pc[i] = "sdk" /\ failures < MaxFailures
  /\ failures' = failures + 1
  /\ \E created \in {"none", "open"} : remote' = [remote EXCEPT ![i] = created]
  /\ status' = [status EXCEPT ![i] = IF Kind[i] = "subscription" THEN "expired" ELSE @]
  /\ pc' = [pc EXCEPT ![i] = "failed"]
  /\ UNCHANGED <<now, cutoff, stale, born, linked, notice, handlerVars, expires, history>>

\* Mutant: the url is returned and the id is not written.
RecordRemote_NoId(i) ==
  /\ pc[i] = "record"
  /\ IF Kind[i] = "subscription"
     THEN UNCHANGED <<status, born>>
     ELSE /\ status' = [status EXCEPT ![i] = "pending"]
          /\ born' = [born EXCEPT ![i] = now]
  /\ pc' = [pc EXCEPT ![i] = "returned"]
  /\ UNCHANGED <<now, cutoff, stale, linked, yooVars, handlerVars, expires, failures, history>>

\* The id is written to the reserve, or the package row is inserted with it; the
\* confirmation url is returned after the commit.
RecordRemote(i) ==
  /\ pc[i] = "record"
  /\ linked' = [linked EXCEPT ![i] = TRUE]
  /\ IF Kind[i] = "subscription"
     THEN UNCHANGED <<status, born>>
     ELSE /\ status' = [status EXCEPT ![i] = "pending"]
          /\ born' = [born EXCEPT ![i] = now]
  /\ pc' = [pc EXCEPT ![i] = "returned"]
  /\ UNCHANGED <<now, cutoff, stale, yooVars, handlerVars, expires, failures, history>>

\* The web process dies, or a statement raises, between two steps of the call.
RequestDies(i) ==
  /\ pc[i] \in OpenRequest /\ failures < MaxFailures
  /\ failures' = failures + 1
  /\ pc' = [pc EXCEPT ![i] = "crashed"]
  /\ UNCHANGED <<now, cutoff, stale, rowVars, yooVars, handlerVars, expires, history>>

-----------------------------------------------------------------------------
(* YooKassa.  A payment is paid on the page whose url the call returned; it *)
(* may be canceled (refused, or abandoned) whether the url was seen or not. *)

Pay(i) ==
  /\ remote[i] = "open" /\ pc[i] = "returned"
  /\ remote' = [remote EXCEPT ![i] = "paid"]
  /\ notice' = [notice EXCEPT ![i] = "due"]
  /\ UNCHANGED <<now, requestVars, rowVars, handlerVars, expires, failures, history>>

CancelRemote(i) ==
  /\ remote[i] = "open"
  /\ remote' = [remote EXCEPT ![i] = "canceled"]
  /\ notice' = [notice EXCEPT ![i] = "due"]
  /\ UNCHANGED <<now, requestVars, rowVars, handlerVars, expires, failures, history>>

-----------------------------------------------------------------------------
(* handle_webhook.  A notification may be delivered again after an answer. *)

Arrives(d, i) == dpc[d] = "idle" /\ notice[i] # "none"

\* SELECT ... FOR UPDATE has found the row, its lock is free.
RowTaken(i) == linked[i] /\ ~Locked(i)

\* Mutant: the claim does not look at the status.
_claim_payment_Always(i) == TRUE

_claim_payment(i) == status[i] \notin TERMINAL_STATUSES

\* No row (answered {"ok": false} with status 200), a row already in a final
\* status, or a package row without messages_count: nothing is written.
ReceiveIgnored(d, i) ==
  /\ Arrives(d, i)
  /\ \/ ~linked[i]
     \/ RowTaken(i) /\ status[i] \in TERMINAL_STATUSES
     \/ RowTaken(i) /\ remote[i] = "paid" /\ Kind[i] = "package_without_count"
  /\ notice' = [notice EXCEPT ![i] = "answered"]
  /\ UNCHANGED <<now, requestVars, rowVars, remote, handlerVars, expires, failures, history>>

ReceiveCanceled(d, i) ==
  /\ Arrives(d, i) /\ remote[i] = "canceled"
  /\ RowTaken(i) /\ _claim_payment(i)
  /\ status' = [status EXCEPT ![i] = "canceled"]
  /\ notice' = [notice EXCEPT ![i] = "answered"]
  /\ UNCHANGED <<now, requestVars, born, linked, remote, handlerVars, expires, failures, history>>

\* A package is only marked: the currency it bought no longer exists.
ReceivePackagePaid(d, i) ==
  /\ Arrives(d, i) /\ remote[i] = "paid" /\ Kind[i] = "package"
  /\ RowTaken(i) /\ _claim_payment(i)
  /\ status' = [status EXCEPT ![i] = "succeeded"]
  /\ notice' = [notice EXCEPT ![i] = "answered"]
  /\ UNCHANGED <<now, requestVars, born, linked, remote, handlerVars, expires, failures, history>>

\* The claim of a subscription payment: written, not committed.
ReceivePaid(d, i) ==
  /\ Arrives(d, i) /\ remote[i] = "paid" /\ Kind[i] = "subscription"
  /\ RowTaken(i) /\ _claim_payment(i)
  /\ dpc' = [dpc EXCEPT ![d] = "claimed"]
  /\ held' = [held EXCEPT ![d] = i]
  /\ dnow' = [dnow EXCEPT ![d] = now]
  /\ UNCHANGED <<now, requestVars, rowVars, yooVars, seen, expires, failures, history>>

\* _active_subscription: a plain SELECT, no lock.
_active_subscription(d) ==
  LET u == Owner[held[d]] IN
  /\ dpc[d] = "claimed"
  /\ seen' = [seen EXCEPT ![d] = expires[u]]
  /\ dpc' = [dpc EXCEPT ![d] = IF expires[u] = NoSub THEN "insert" ELSE "extend"]
  /\ UNCHANGED <<now, requestVars, rowVars, yooVars, held, dnow, expires, failures, history>>

\* The INSERT waits for an uncommitted insert of the same user; if a row is
\* there the savepoint is rolled back and the row is read again.
InsertSubscription(d) ==
  LET u == Owner[held[d]] IN
  /\ dpc[d] = "insert"
  /\ \A e \in Deliveries : ~(dpc[e] = "inserted" /\ Owner[held[e]] = u)
  /\ dpc' = [dpc EXCEPT ![d] = IF expires[u] = NoSub THEN "inserted" ELSE "claimed"]
  /\ UNCHANGED <<now, requestVars, rowVars, yooVars, held, dnow, seen, expires, failures, history>>

\* The commit: the claim and the new date become visible together.
CommitExtension(d) ==
  LET i == held[d]
      u == Owner[i] IN
  /\ dpc[d] \in {"inserted", "extend"}
  /\ status' = [status EXCEPT ![i] = "succeeded"]
  /\ expires' = [expires EXCEPT ![u] = next_expiry(seen[d], dnow[d])]
  /\ credits' = [credits EXCEPT ![i] = @ + 1]
  /\ grants' = [grants EXCEPT ![u] = @ + 1]
  /\ dpc' = [dpc EXCEPT ![d] = "committed"]
  /\ UNCHANGED <<now, requestVars, born, linked, yooVars, held, dnow, seen, failures, reopened>>

\* The access cache is dropped (module AccessCache) and 200 is answered.
AnswerDelivery(d) ==
  /\ dpc[d] = "committed"
  /\ notice' = [notice EXCEPT ![held[d]] = "answered"]
  /\ dpc' = [dpc EXCEPT ![d] = "idle"]
  /\ UNCHANGED <<now, requestVars, rowVars, remote, held, dnow, seen, expires, failures, history>>

\* A crash or a 500: the transaction is rolled back, no 200 is answered.
DeliveryDies(d) ==
  /\ dpc[d] # "idle" /\ failures < MaxFailures
  /\ failures' = failures + 1
  /\ dpc' = [dpc EXCEPT ![d] = "idle"]
  /\ UNCHANGED <<now, requestVars, rowVars, yooVars, held, dnow, seen, expires, history>>

Tick ==
  /\ now < MaxTime
  /\ now' = now + 1
  /\ UNCHANGED <<requestVars, rowVars, yooVars, handlerVars, expires, failures, history>>

-----------------------------------------------------------------------------

CreatePayment(i) ==
  \/ SelectStale(i) \/ ExpireStale(i) \/ Reserve(i) \/ _is_open_intent_conflict(i)
  \/ StartPackage(i) \/ CreateRemote(i) \/ SdkFails(i) \/ RecordRemote(i) \/ RequestDies(i)

Receive(d, i) ==
  ReceiveIgnored(d, i) \/ ReceiveCanceled(d, i) \/ ReceivePackagePaid(d, i) \/ ReceivePaid(d, i)

Handle(d) ==
  \/ _active_subscription(d) \/ InsertSubscription(d) \/ CommitExtension(d) \/ AnswerDelivery(d)

Next ==
  \/ Tick
  \/ \E i \in Intents : CreatePayment(i) \/ Pay(i) \/ CancelRemote(i)
  \/ \E d \in Deliveries : Handle(d) \/ DeliveryDies(d) \/ \E i \in Intents : Receive(d, i)

Spec == Init /\ [][Next]_vars

\* A started handler is run to its end by the event loop; YooKassa repeats a
\* notification that has not been answered 200.
Fairness ==
  /\ \A d \in Deliveries : WF_vars(Handle(d))
  /\ \A i \in Intents : SF_vars(notice[i] = "due" /\ \E d \in Deliveries : Receive(d, i))

FairSpec == Spec /\ Fairness

-----------------------------------------------------------------------------
(* Properties.                                                             *)

\* At most one open subscription intent per user, whatever the interleaving of
\* sweeps, reserves and claims (create_payment, uq_payments_open_subscription_intent).
OneOpenIntent == \A u \in Users : Cardinality(OpenIntentsOf(u)) <= 1

\* By the time a call of create_payment inserts its reserve, no open intent older
\* than its cutoff is left to refuse it: a forgotten intent, a crashed one with no
\* remote id included, never locks its owner out of paying.
StaleIntentNeverBlocks ==
  \A i \in Intents : pc[i] = "reserve" =>
    \A j \in OpenIntentsOf(Owner[i]) : born[j] >= cutoff[i]

\* A payment moves the subscription once; each further time is paid for by a sweep
\* that took the row out of a final status (handle_webhook, _expire_stale_intents).
CreditedOncePerReopening == \A i \in Intents : credits[i] <= 1 + reopened[i]

\* Nobody's access runs past what the confirmed payments bought, whatever stale
\* expires_at a handler worked from (_extend_subscription, next_expiry).
NoFreeMonths ==
  \A u \in Users :
    expires[u] <= (IF now < TrialEnd THEN TrialEnd ELSE now) + Month * grants[u]

\* Money never arrives for a payment the database cannot address, and days are
\* only given for money: the order reserve, network, record; the claim's event.
MoneyMatchesRows ==
  \A i \in Intents :
    /\ remote[i] = "paid" => linked[i]
    /\ credits[i] > 0 => remote[i] = "paid"

\* No step of a sweep, a failed SDK call or a redelivery turns a confirmed payment into
\* a canceled or an open one, or the reverse: a final status is only left for "expired".
FinalStatusNeverSwitches ==
  [][\A i \in Intents : status[i] \in TERMINAL_STATUSES =>
       status'[i] \in {status[i], "expired"}]_vars

\* A paid subscription payment moves the date in the end, through crashes between
\* the claim and the commit and through redeliveries.
PaidIsCredited ==
  \A i \in Intents :
    (remote[i] = "paid" /\ Kind[i] = "subscription") ~> credits[i] > 0

\* handle_webhook promises one credit per payment ("protection against a double
\* credit"); the sweep's UPDATE does not look at the status again, so it can take a
\* confirmed payment out of its final status and a redelivery then credits it again.
CreditedOnce == \A i \in Intents : credits[i] <= 1

=============================================================================
