--------------------------- MODULE PaymentsProofs ---------------------------
(***************************************************************************)
(* Theorems about Payments for any number of users, calls and deliveries,  *)
(* any TTL, any horizon and any number of crashes; at the end, about the   *)
(* access cache beside it.                                                 *)
(***************************************************************************)
EXTENDS Payments, AccessCache, TLAPS, FiniteSetTheorems

USE DEF Statuses, TERMINAL_STATUSES, OpenRequest, InTransaction, NoSub

LEMMA InitType == Init => TypeOK
  BY PaymentsAssumption DEF Init, TypeOK

\* Every step of every handler keeps the columns and the locals in their types.
LEMMA NextType == TypeOK /\ [Next]_vars => TypeOK'
<1> SUFFICES ASSUME TypeOK, [Next]_vars PROVE TypeOK'
  OBVIOUS
<1> USE PaymentsAssumption DEF TypeOK, requestVars, rowVars, yooVars, handlerVars, history
<1>1. CASE Tick
  BY <1>1 DEF Tick
<1>2. ASSUME NEW i \in Intents, SelectStale(i) PROVE TypeOK'
  <2>1. _stale_subscription_intents(Owner[i], now - TTL) \in SUBSET Intents
    BY DEF _stale_subscription_intents, OpenIntentsOf
  <2> QED BY <1>2, <2>1 DEF SelectStale
<1>3. ASSUME NEW i \in Intents, ExpireStale(i) PROVE TypeOK'
  BY <1>3 DEF ExpireStale
<1>4. ASSUME NEW i \in Intents, Reserve(i) PROVE TypeOK'
  BY <1>4 DEF Reserve
<1>5. ASSUME NEW i \in Intents, _is_open_intent_conflict(i) PROVE TypeOK'
  BY <1>5 DEF _is_open_intent_conflict
<1>6. ASSUME NEW i \in Intents, StartPackage(i) PROVE TypeOK'
  BY <1>6 DEF StartPackage
<1>7. ASSUME NEW i \in Intents, CreateRemote(i) PROVE TypeOK'
  BY <1>7 DEF CreateRemote
<1>8. ASSUME NEW i \in Intents, SdkFails(i) PROVE TypeOK'
  BY <1>8 DEF SdkFails
<1>9. ASSUME NEW i \in Intents, RecordRemote(i) PROVE TypeOK'
  BY <1>9 DEF RecordRemote
<1>10. ASSUME NEW i \in Intents, RequestDies(i) PROVE TypeOK'
  BY <1>10 DEF RequestDies
<1>11. ASSUME NEW i \in Intents, Pay(i) PROVE TypeOK'
  BY <1>11 DEF Pay
<1>12. ASSUME NEW i \in Intents, CancelRemote(i) PROVE TypeOK'
  BY <1>12 DEF CancelRemote
<1>13. ASSUME NEW d \in Deliveries, NEW i \in Intents, Receive(d, i) PROVE TypeOK'
  <2>1. CASE ReceiveIgnored(d, i)
    BY <2>1 DEF ReceiveIgnored
  <2>2. CASE ReceiveCanceled(d, i)
    BY <2>2 DEF ReceiveCanceled
  <2>3. CASE ReceivePackagePaid(d, i)
    BY <2>3 DEF ReceivePackagePaid
  <2>4. CASE ReceivePaid(d, i)
    BY <2>4 DEF ReceivePaid
  <2> QED BY <1>13, <2>1, <2>2, <2>3, <2>4 DEF Receive
<1>14. ASSUME NEW d \in Deliveries, _active_subscription(d) PROVE TypeOK'
  BY <1>14 DEF _active_subscription
<1>15. ASSUME NEW d \in Deliveries, InsertSubscription(d) PROVE TypeOK'
  BY <1>15 DEF InsertSubscription
<1>16. ASSUME NEW d \in Deliveries, CommitExtension(d) PROVE TypeOK'
  <2>1. next_expiry(seen[d], dnow[d]) \in Nat
    BY DEF next_expiry, countdown_base
  <2> QED BY <1>16, <2>1 DEF CommitExtension
<1>17. ASSUME NEW d \in Deliveries, AnswerDelivery(d) PROVE TypeOK'
  BY <1>17 DEF AnswerDelivery
<1>18. ASSUME NEW d \in Deliveries, DeliveryDies(d) PROVE TypeOK'
  BY <1>18 DEF DeliveryDies
<1>19. CASE UNCHANGED vars
  BY <1>19 DEF vars
<1> QED
  BY <1>1, <1>2, <1>3, <1>4, <1>5, <1>6, <1>7, <1>8, <1>9, <1>10, <1>11, <1>12,
     <1>13, <1>14, <1>15, <1>16, <1>17, <1>18, <1>19
  DEF Next, CreatePayment, Handle

\* The columns and the locals of every handler keep their types forever.
THEOREM TypeCorrect == Spec => []TypeOK
  BY InitType, NextType, PTL DEF Spec

-----------------------------------------------------------------------------
(***************************************************************************)
(* The inductive invariant.  LockInv is what a handler knows of the row it *)
(* holds; LinkInv is what the order reserve, network, record buys;         *)
(* CreditInv counts the credits against the final status.                  *)
(***************************************************************************)

LockInv ==
  \A d \in Deliveries : dpc[d] \in InTransaction =>
    /\ linked[held[d]] /\ remote[held[d]] = "paid"
    /\ status[held[d]] \notin TERMINAL_STATUSES
    /\ \A e \in Deliveries : dpc[e] \in InTransaction /\ held[e] = held[d] => e = d

LinkInv ==
  \A i \in Intents :
    /\ linked[i] <=> pc[i] = "returned"
    /\ ~linked[i] => status[i] \notin TERMINAL_STATUSES /\ remote[i] # "paid"

CreditInv ==
  \A i \in Intents :
    /\ credits[i] > 0 => remote[i] = "paid"
    /\ status[i] \in TERMINAL_STATUSES => credits[i] <= 1 + reopened[i]
    /\ status[i] \notin TERMINAL_STATUSES => credits[i] <= reopened[i]

MoneyInv == TypeOK /\ LockInv /\ LinkInv /\ CreditInv

LEMMA MoneyInit == Init => MoneyInv
<1> SUFFICES ASSUME Init PROVE LockInv /\ LinkInv /\ CreditInv
  BY InitType DEF MoneyInv
<1> QED BY DEF Init, LockInv, LinkInv, CreditInv

LEMMA MoneyNext == MoneyInv /\ [Next]_vars => MoneyInv'
<1> SUFFICES ASSUME MoneyInv, [Next]_vars PROVE (LockInv /\ LinkInv /\ CreditInv)'
  BY NextType DEF MoneyInv
<1> USE PaymentsAssumption DEF MoneyInv, TypeOK, LockInv, LinkInv, CreditInv,
      requestVars, rowVars, yooVars, handlerVars, history
<1> DEFINE Goal == (LockInv /\ LinkInv /\ CreditInv)'
<1>1. CASE Tick
  BY <1>1 DEF Tick
<1>2. ASSUME NEW i \in Intents, SelectStale(i) PROVE Goal
  BY <1>2 DEF SelectStale
<1>3. ASSUME NEW i \in Intents, ExpireStale(i) PROVE Goal
  <2>1. LockInv' /\ LinkInv'
    BY <1>3 DEF ExpireStale, Locked
  <2>2. CreditInv'
    BY <1>3 DEF ExpireStale
  <2> QED BY <2>1, <2>2
<1>4. ASSUME NEW i \in Intents, Reserve(i) PROVE Goal
  BY <1>4 DEF Reserve
<1>5. ASSUME NEW i \in Intents, _is_open_intent_conflict(i) PROVE Goal
  BY <1>5 DEF _is_open_intent_conflict
<1>6. ASSUME NEW i \in Intents, StartPackage(i) PROVE Goal
  BY <1>6 DEF StartPackage
<1>7. ASSUME NEW i \in Intents, CreateRemote(i) PROVE Goal
  BY <1>7 DEF CreateRemote
<1>8. ASSUME NEW i \in Intents, SdkFails(i) PROVE Goal
  BY <1>8 DEF SdkFails
<1>9. ASSUME NEW i \in Intents, RecordRemote(i) PROVE Goal
  BY <1>9 DEF RecordRemote
<1>10. ASSUME NEW i \in Intents, RequestDies(i) PROVE Goal
  BY <1>10 DEF RequestDies
<1>11. ASSUME NEW i \in Intents, Pay(i) PROVE Goal
  BY <1>11 DEF Pay
<1>12. ASSUME NEW i \in Intents, CancelRemote(i) PROVE Goal
  BY <1>12 DEF CancelRemote
<1>13. ASSUME NEW d \in Deliveries, NEW i \in Intents, ReceiveIgnored(d, i) PROVE Goal
  BY <1>13 DEF ReceiveIgnored
<1>14. ASSUME NEW d \in Deliveries, NEW i \in Intents, ReceiveCanceled(d, i) PROVE Goal
  <2> USE <1>14 DEF ReceiveCanceled, RowTaken, Locked, _claim_payment
  <2>1. LockInv' /\ LinkInv'
    OBVIOUS
  <2>2. CreditInv'
    OBVIOUS
  <2> QED BY <2>1, <2>2
<1>15. ASSUME NEW d \in Deliveries, NEW i \in Intents, ReceivePackagePaid(d, i) PROVE Goal
  BY <1>15 DEF ReceivePackagePaid, RowTaken, Locked, _claim_payment
<1>16. ASSUME NEW d \in Deliveries, NEW i \in Intents, ReceivePaid(d, i) PROVE Goal
  BY <1>16 DEF ReceivePaid, RowTaken, Locked, _claim_payment, Arrives
<1>17. ASSUME NEW d \in Deliveries, _active_subscription(d) PROVE Goal
  BY <1>17 DEF _active_subscription
<1>18. ASSUME NEW d \in Deliveries, InsertSubscription(d) PROVE Goal
  BY <1>18 DEF InsertSubscription
<1>19. ASSUME NEW d \in Deliveries, CommitExtension(d) PROVE Goal
  <2>1. LockInv' /\ LinkInv'
    BY <1>19 DEF CommitExtension
  <2>2. CreditInv'
    BY <1>19 DEF CommitExtension
  <2> QED BY <2>1, <2>2
<1>20. ASSUME NEW d \in Deliveries, AnswerDelivery(d) PROVE Goal
  BY <1>20 DEF AnswerDelivery
<1>21. ASSUME NEW d \in Deliveries, DeliveryDies(d) PROVE Goal
  BY <1>21 DEF DeliveryDies
<1>22. CASE UNCHANGED vars
  BY <1>22 DEF vars
<1> QED
  BY <1>1, <1>2, <1>3, <1>4, <1>5, <1>6, <1>7, <1>8, <1>9, <1>10, <1>11, <1>12, <1>13,
     <1>14, <1>15, <1>16, <1>17, <1>18, <1>19, <1>20, <1>21, <1>22
  DEF Next, CreatePayment, Receive, Handle

LEMMA MoneyInvariant == Spec => []MoneyInv
  BY MoneyInit, MoneyNext, PTL DEF Spec

\* handle_webhook moves the date once per payment; a further time needs a sweep that
\* took the row out of its final status.  The claim and the row lock give this for
\* any number of overlapping and repeated deliveries.
THEOREM CreditedOncePerReopeningHolds == Spec => []CreditedOncePerReopening
<1>1. MoneyInv => CreditedOncePerReopening
  BY DEF MoneyInv, TypeOK, CreditInv, CreditedOncePerReopening
<1> QED BY <1>1, MoneyInvariant, PTL

\* Whoever has paid has a row the webhook finds, and only the paid are credited.
THEOREM MoneyMatchesRowsHolds == Spec => []MoneyMatchesRows
<1>1. MoneyInv => MoneyMatchesRows
  BY DEF MoneyInv, LinkInv, CreditInv, MoneyMatchesRows
<1> QED BY <1>1, MoneyInvariant, PTL

\* A confirmed payment is never turned into a canceled one, nor the reverse.
THEOREM FinalStatusNeverSwitchesHolds == Spec => FinalStatusNeverSwitches
<1>1. ASSUME MoneyInv, [Next]_vars, NEW i \in Intents, status[i] \in TERMINAL_STATUSES
      PROVE  status'[i] \in {status[i], "expired"}
  <2> USE DEF MoneyInv, TypeOK, requestVars, rowVars, yooVars, handlerVars, history
  <2>1. linked[i] /\ pc[i] = "returned" /\ ~Locked(i)
    BY <1>1 DEF LinkInv, LockInv, Locked
  <2>2. ASSUME NEW j \in Intents, CreatePayment(j) PROVE status'[i] \in {status[i], "expired"}
    BY <1>1, <2>1, <2>2 DEF CreatePayment, SelectStale, ExpireStale, Reserve,
       _is_open_intent_conflict, StartPackage, CreateRemote, SdkFails, RecordRemote, RequestDies
  <2>3. ASSUME NEW d \in Deliveries, Handle(d) PROVE status'[i] = status[i]
    BY <1>1, <2>1, <2>3 DEF Handle, _active_subscription, InsertSubscription,
       CommitExtension, AnswerDelivery, Locked
  <2>4. ASSUME NEW d \in Deliveries, NEW j \in Intents, Receive(d, j) PROVE status'[i] = status[i]
    BY <1>1, <2>4 DEF Receive, ReceiveIgnored, ReceiveCanceled, ReceivePackagePaid,
       ReceivePaid, _claim_payment
  <2>5. ASSUME \/ Tick
               \/ \E j \in Intents : Pay(j) \/ CancelRemote(j)
               \/ \E d \in Deliveries : DeliveryDies(d)
               \/ UNCHANGED vars
        PROVE  status'[i] = status[i]
    BY <2>5 DEF Tick, Pay, CancelRemote, DeliveryDies, vars
  <2> QED BY <1>1, <2>2, <2>3, <2>4, <2>5 DEF Next
<1>2. MoneyInv /\ [Next]_vars =>
        [\A i \in Intents : status[i] \in TERMINAL_STATUSES =>
           status'[i] \in {status[i], "expired"}]_vars
  BY <1>1
<1> QED BY <1>2, MoneyInvariant, PTL DEF Spec, FinalStatusNeverSwitches

-----------------------------------------------------------------------------
(***************************************************************************)
(* The cap.  SweepInv: what a call that is about to insert knows of the    *)
(* open rows in its way; every row born later is younger than its cutoff.  *)
(***************************************************************************)

OpenInv ==
  \A i, j \in Intents : Owner[i] = Owner[j] /\ OpenIntent(i) /\ OpenIntent(j) => i = j

SweepInv ==
  \A i \in Intents :
    /\ cutoff[i] <= now
    /\ \A j \in Intents : Owner[j] = Owner[i] /\ OpenIntent(j) =>
         /\ pc[i] = "sweep" => born[j] >= cutoff[i] \/ j \in stale[i]
         /\ pc[i] = "reserve" => born[j] >= cutoff[i]

CapInv == TypeOK /\ OpenInv /\ SweepInv

LEMMA CapInit == Init => CapInv
  BY InitType DEF CapInv, Init, OpenInv, SweepInv, OpenIntent

LEMMA CapNext == CapInv /\ [Next]_vars => CapInv'
<1> SUFFICES ASSUME CapInv, [Next]_vars PROVE (OpenInv /\ SweepInv)'
  BY NextType DEF CapInv
<1> USE PaymentsAssumption DEF CapInv, TypeOK, OpenInv, SweepInv, OpenIntent,
      requestVars, rowVars, yooVars, handlerVars, history
<1> DEFINE Goal == (OpenInv /\ SweepInv)'
<1>1. CASE Tick
  BY <1>1 DEF Tick
<1>2. ASSUME NEW i \in Intents, SelectStale(i) PROVE Goal
  BY <1>2 DEF SelectStale, _stale_subscription_intents, OpenIntentsOf
<1>3. ASSUME NEW i \in Intents, ExpireStale(i) PROVE Goal
  BY <1>3 DEF ExpireStale
<1>4. ASSUME NEW i \in Intents, Reserve(i) PROVE Goal
  <2>1. CASE OpenIntentsOf(Owner[i]) = {}
    <3>1. /\ status' = [status EXCEPT ![i] = "pending"] /\ born' = [born EXCEPT ![i] = now]
          /\ pc' = [pc EXCEPT ![i] = "sdk"] /\ UNCHANGED <<now, cutoff, stale>>
      BY <1>4, <2>1 DEF Reserve
    <3>2. \A j \in Intents : Owner[j] = Owner[i] => ~OpenIntent(j)
      BY <2>1 DEF OpenIntentsOf
    <3>3. \A j \in Intents : j # i => (OpenIntent(j)' <=> OpenIntent(j)) /\ born'[j] = born[j]
      BY <3>1
    <3>4. OpenInv'
      BY <3>2, <3>3
    <3>5. SweepInv'
      BY <3>1, <3>3
    <3> QED BY <3>4, <3>5
  <2>2. CASE OpenIntentsOf(Owner[i]) # {}
    BY <1>4, <2>2 DEF Reserve
  <2> QED BY <2>1, <2>2
<1>5. ASSUME NEW i \in Intents, _is_open_intent_conflict(i) PROVE Goal
  BY <1>5 DEF _is_open_intent_conflict
<1>6. ASSUME NEW i \in Intents, StartPackage(i) PROVE Goal
  BY <1>6 DEF StartPackage
<1>7. ASSUME NEW i \in Intents, CreateRemote(i) PROVE Goal
  BY <1>7 DEF CreateRemote
<1>8. ASSUME NEW i \in Intents, SdkFails(i) PROVE Goal
  BY <1>8 DEF SdkFails
<1>9. ASSUME NEW i \in Intents, RecordRemote(i) PROVE Goal
  <2>1. CASE Kind[i] = "subscription"
    BY <1>9, <2>1 DEF RecordRemote
  <2>2. CASE Kind[i] # "subscription"
    <3>1. \A j \in Intents : OpenIntent(j)' => OpenIntent(j) /\ born'[j] = born[j]
      BY <1>9, <2>2 DEF RecordRemote
    <3> QED BY <1>9, <3>1 DEF RecordRemote
  <2> QED BY <2>1, <2>2
<1>10. ASSUME NEW i \in Intents, RequestDies(i) PROVE Goal
  BY <1>10 DEF RequestDies
<1>11. ASSUME NEW i \in Intents, Pay(i) \/ CancelRemote(i) PROVE Goal
  BY <1>11 DEF Pay, CancelRemote
<1>12. ASSUME NEW d \in Deliveries, NEW i \in Intents, ReceiveIgnored(d, i) PROVE Goal
  BY <1>12 DEF ReceiveIgnored
<1>13. ASSUME NEW d \in Deliveries, NEW i \in Intents,
              ReceiveCanceled(d, i) \/ ReceivePackagePaid(d, i)
       PROVE  Goal
  <2>1. \A j \in Intents : OpenIntent(j)' => OpenIntent(j)
    BY <1>13 DEF ReceiveCanceled, ReceivePackagePaid
  <2>2. UNCHANGED <<now, cutoff, stale, pc, born>>
    BY <1>13 DEF ReceiveCanceled, ReceivePackagePaid
  <2> QED BY <2>1, <2>2
<1>14. ASSUME NEW d \in Deliveries, NEW i \in Intents, ReceivePaid(d, i) PROVE Goal
  BY <1>14 DEF ReceivePaid
<1>15. ASSUME NEW d \in Deliveries, CommitExtension(d) PROVE Goal
  BY <1>15 DEF CommitExtension
<1>16. ASSUME NEW d \in Deliveries,
              \/ _active_subscription(d) \/ InsertSubscription(d)
              \/ AnswerDelivery(d) \/ DeliveryDies(d)
       PROVE  Goal
  BY <1>16 DEF _active_subscription, InsertSubscription, AnswerDelivery, DeliveryDies
<1>17. CASE UNCHANGED vars
  BY <1>17 DEF vars
<1> QED
  BY <1>1, <1>2, <1>3, <1>4, <1>5, <1>6, <1>7, <1>8, <1>9, <1>10, <1>11, <1>12, <1>13,
     <1>14, <1>15, <1>16, <1>17
  DEF Next, CreatePayment, Receive, Handle

LEMMA CapInvariant == Spec => []CapInv
  BY CapInit, CapNext, PTL DEF Spec

\* A user never has two open subscription intents.
THEOREM OneOpenIntentHolds == Spec => []OneOpenIntent
<1>1. CapInv => OneOpenIntent
  <2> SUFFICES ASSUME CapInv, NEW u \in Users PROVE Cardinality(OpenIntentsOf(u)) <= 1
    BY DEF OneOpenIntent
  <2>1. CASE OpenIntentsOf(u) = {}
    BY <2>1, FS_EmptySet
  <2>2. CASE OpenIntentsOf(u) # {}
    <3> PICK i : i \in OpenIntentsOf(u)
      BY <2>2
    <3>1. OpenIntentsOf(u) = {i}
      BY DEF CapInv, OpenInv, OpenIntentsOf
    <3>2. Cardinality({i}) = 1
      BY FS_Singleton
    <3> QED BY <3>1, <3>2
  <2> QED BY <2>1, <2>2
<1> QED BY <1>1, CapInvariant, PTL

\* A call that has swept is refused only by an intent younger than its cutoff.
THEOREM StaleIntentNeverBlocksHolds == Spec => []StaleIntentNeverBlocks
<1>1. CapInv => StaleIntentNeverBlocks
  BY DEF CapInv, SweepInv, StaleIntentNeverBlocks, OpenIntentsOf
<1> QED BY <1>1, CapInvariant, PTL

-----------------------------------------------------------------------------
(***************************************************************************)
(* The date.  A handler works from an expires_at that may be out of date,  *)
(* but never from one that was beyond what had been bought.                *)
(***************************************************************************)

Bought(u) == (IF now < TrialEnd THEN TrialEnd ELSE now) + Month * grants[u]

DateInv ==
  /\ \A u \in Users : expires[u] <= Bought(u)
  /\ \A d \in Deliveries :
       /\ dpc[d] \in InTransaction => dnow[d] <= now
       /\ dpc[d] \in InTransaction \ {"claimed"} => seen[d] <= Bought(Owner[held[d]])

LEMMA BoughtIsNat ==
  ASSUME TypeOK, NEW u \in Users PROVE Bought(u) \in Nat
<1>1. grants[u] \in Nat /\ Month \in Nat
  BY PaymentsAssumption DEF TypeOK
<1>2. Month * grants[u] \in Nat
  BY <1>1
<1> QED BY <1>2, PaymentsAssumption DEF TypeOK, Bought

LEMMA DateInit == Init => DateInv
<1> SUFFICES ASSUME Init PROVE DateInv
  OBVIOUS
<1>1. \A u \in Users : Bought(u) = TrialEnd \/ (TrialEnd = 0 /\ Bought(u) = 0)
  BY PaymentsAssumption DEF Init, Bought
<1> QED BY <1>1, PaymentsAssumption DEF Init, DateInv

LEMMA DateNext == TypeOK /\ DateInv /\ [Next]_vars => DateInv'
<1> SUFFICES ASSUME TypeOK, DateInv, [Next]_vars PROVE DateInv'
  OBVIOUS
<1> USE PaymentsAssumption DEF requestVars, rowVars, yooVars, handlerVars, history
<1>0. \A u \in Users : Bought(u) \in Nat /\ Bought(u)' \in Nat
  <2>1. TypeOK'
    BY NextType
  <2>2. ASSUME NEW u \in Users PROVE Bought(u)' \in Nat
    <3>1. now' \in Nat /\ grants'[u] \in Nat
      BY <2>1 DEF TypeOK
    <3>2. Month * grants'[u] \in Nat
      BY <3>1
    <3> QED BY <3>1, <3>2 DEF Bought
  <2> QED BY <2>2, BoughtIsNat
<1>1. CASE Tick
  <2>1. \A u \in Users : Bought(u) <= Bought(u)'
    <3> SUFFICES ASSUME NEW u \in Users PROVE Bought(u) <= Bought(u)'
      OBVIOUS
    <3> DEFINE m == Month * grants[u]
    <3>1. m \in Nat /\ m' = m
      BY <1>1 DEF Tick, TypeOK
    <3> HIDE DEF m
    <3>2. Bought(u) = (IF now < TrialEnd THEN TrialEnd ELSE now) + m
      BY DEF Bought, m
    <3>3. Bought(u)' = (IF now' < TrialEnd THEN TrialEnd ELSE now') + m
      BY <3>1 DEF Bought, m
    <3> QED BY <1>1, <3>1, <3>2, <3>3 DEF Tick, TypeOK
  <2> QED BY <1>0, <1>1, <2>1 DEF Tick, TypeOK, DateInv
<1>2. ASSUME UNCHANGED <<now, grants, expires, dpc, held, dnow, seen>> PROVE DateInv'
  BY <1>2 DEF DateInv, Bought
<1>3. ASSUME NEW d \in Deliveries, NEW i \in Intents, ReceivePaid(d, i) PROVE DateInv'
  <2>1. \A u \in Users : Bought(u)' = Bought(u)
    BY <1>3 DEF ReceivePaid, Bought
  <2> QED BY <1>3, <2>1 DEF ReceivePaid, TypeOK, DateInv
<1>4. ASSUME NEW d \in Deliveries, _active_subscription(d) PROVE DateInv'
  <2>1. \A u \in Users : Bought(u)' = Bought(u)
    BY <1>4 DEF _active_subscription, Bought
  <2> QED BY <1>4, <2>1 DEF _active_subscription, TypeOK, DateInv
<1>5. ASSUME NEW d \in Deliveries, InsertSubscription(d) PROVE DateInv'
  <2>1. \A u \in Users : Bought(u)' = Bought(u)
    BY <1>5 DEF InsertSubscription, Bought
  <2> QED BY <1>5, <2>1 DEF InsertSubscription, TypeOK, DateInv
<1>6. ASSUME NEW d \in Deliveries, CommitExtension(d) PROVE DateInv'
  <2> DEFINE w == Owner[held[d]]
  <2>0. w \in Users /\ held[d] \in Intents
    BY DEF TypeOK
  <2>1. \A u \in Users : Bought(u)' = IF u = w THEN Bought(u) + Month ELSE Bought(u)
    <3> SUFFICES ASSUME NEW u \in Users
                 PROVE  Bought(u)' = IF u = w THEN Bought(u) + Month ELSE Bought(u)
      OBVIOUS
    <3>1. now' = now /\ grants' = [grants EXCEPT ![w] = @ + 1]
      BY <1>6 DEF CommitExtension
    <3>2. grants[u] \in Nat /\ Month \in Nat
      BY DEF TypeOK
    <3>3. Month * (grants[u] + 1) = Month * grants[u] + Month
      BY <3>2
    <3>4. grants'[u] = IF u = w THEN grants[u] + 1 ELSE grants[u]
      BY <3>1, <2>0 DEF TypeOK
    <3>5. Month * grants'[u] = IF u = w THEN Month * grants[u] + Month ELSE Month * grants[u]
      BY <3>3, <3>4
    <3>6. Month * grants[u] \in Nat
      BY <3>2
    <3> QED BY <3>1, <3>5, <3>6 DEF Bought, TypeOK
  <2> HIDE DEF w
  <2>2. seen[d] <= Bought(w) /\ dnow[d] <= Bought(w)
    <3>1. seen[d] <= Bought(w) /\ dnow[d] <= now
      BY <1>6 DEF CommitExtension, DateInv, w
    <3>2. Month * grants[w] \in Nat
      BY <2>0 DEF TypeOK
    <3>3. now <= Bought(w)
      BY <3>2 DEF Bought, TypeOK
    <3> QED BY <3>1, <3>3, <2>0, <1>0 DEF TypeOK
  <2>3. next_expiry(seen[d], dnow[d]) <= Bought(w) + Month
    BY <2>2, <2>0, <1>0 DEF next_expiry, countdown_base, TypeOK
  <2>4. \A u \in Users : expires'[u] = IF u = w THEN next_expiry(seen[d], dnow[d]) ELSE expires[u]
    BY <1>6, <2>0 DEF CommitExtension, TypeOK, w
  <2>5. \A u \in Users : expires'[u] <= Bought(u)'
    BY <2>1, <2>3, <2>4, <1>0 DEF DateInv
  <2>6. \A u \in Users : Bought(u) <= Bought(u)'
    BY <2>1, <1>0
  <2>7. UNCHANGED <<now, held, dnow, seen>> /\ dpc' = [dpc EXCEPT ![d] = "committed"]
    BY <1>6 DEF CommitExtension
  <2>8. ASSUME NEW e \in Deliveries, dpc'[e] \in InTransaction \ {"claimed"}
        PROVE  seen[e] <= Bought(Owner[held[e]])'
    <3>1. seen[e] <= Bought(Owner[held[e]])
      BY <2>7, <2>8 DEF DateInv, TypeOK
    <3>2. Owner[held[e]] \in Users
      BY DEF TypeOK
    <3> QED BY <3>1, <3>2, <2>6, <2>7, <1>0 DEF TypeOK
  <2>9. \A e \in Deliveries : dpc'[e] \in InTransaction => dnow[e] <= now
    BY <2>7 DEF DateInv, TypeOK
  <2> QED BY <2>5, <2>7, <2>8, <2>9 DEF DateInv
<1>7. ASSUME NEW d \in Deliveries, AnswerDelivery(d) \/ DeliveryDies(d) PROVE DateInv'
  <2>1. \A u \in Users : Bought(u)' = Bought(u)
    BY <1>7 DEF AnswerDelivery, DeliveryDies, Bought
  <2> QED BY <1>7, <2>1 DEF AnswerDelivery, DeliveryDies, TypeOK, DateInv
<1>8. ASSUME NEW i \in Intents, CreatePayment(i) \/ Pay(i) \/ CancelRemote(i) PROVE DateInv'
  BY <1>2, <1>8 DEF CreatePayment, SelectStale, ExpireStale, Reserve, Pay, CancelRemote,
     _is_open_intent_conflict, StartPackage, CreateRemote, SdkFails, RecordRemote, RequestDies
<1>9. ASSUME NEW d \in Deliveries, NEW i \in Intents,
             ReceiveIgnored(d, i) \/ ReceiveCanceled(d, i) \/ ReceivePackagePaid(d, i)
      PROVE  DateInv'
  BY <1>2, <1>9 DEF ReceiveIgnored, ReceiveCanceled, ReceivePackagePaid
<1>10. CASE UNCHANGED vars
  BY <1>2, <1>10 DEF vars
<1> QED
  BY <1>1, <1>3, <1>4, <1>5, <1>6, <1>7, <1>8, <1>9, <1>10 DEF Next, Receive, Handle

\* No interleaving of deliveries gives a user more time than was paid for: a stale
\* read of expires_at can lose a month, never add one.
THEOREM NoFreeMonthsHolds == Spec => []NoFreeMonths
<1>1. Spec => []DateInv
  BY TypeCorrect, DateInit, DateNext, PTL DEF Spec
<1>2. DateInv => NoFreeMonths
  BY DEF DateInv, Bought, NoFreeMonths
<1> QED BY <1>1, <1>2, PTL

-----------------------------------------------------------------------------
(* The access cache that the webhook drops: module AccessCache, for any    *)
(* number of readers and writers and any TTL of the key.                   *)

\* A wrong key has been wrong no longer than it has aged, and a reader holds a wrong
\* verdict only as long as time has not moved.
CacheInv ==
  /\ CacheTypeOK
  /\ cache # "none" /\ cache # access_is_open => steady + left <= billing_cache_ttl
  /\ cache # "none" => left > 0
  /\ \A r \in Readers : rpc[r] = "store" /\ verdict[r] # access_is_open => steady = 0

\* A step of time moves one unit from what the key has left to what has passed.
LEMMA CacheAge ==
  ASSUME NEW s \in Nat, NEW s1 \in Nat, NEW l \in Nat, NEW l1 \in Nat,
         s1 <= s + 1, l1 = l - 1, s + l <= billing_cache_ttl
  PROVE  s1 + l1 <= billing_cache_ttl
BY AccessCacheAssumption

\* Every variable of the cache, its readers and its writers keeps its type.
THEOREM CacheTypeCorrect == CacheSpec => []CacheTypeOK
<1> USE AccessCacheAssumption DEF Verdicts
<1>1. CacheInit => CacheTypeOK
  BY DEF CacheInit, CacheTypeOK, Verdicts
<1>2. CacheTypeOK /\ [CacheNext]_accessVars => CacheTypeOK'
  <2> SUFFICES ASSUME CacheTypeOK, [CacheNext]_accessVars PROVE CacheTypeOK'
    OBVIOUS
  <2> USE DEF CacheTypeOK, dbVars, cacheVars, readerVars
  <2>1. CASE PeriodEnds
    <3>1. paid' \in BOOLEAN
      BY <2>1, Zenon DEF PeriodEnds
    <3> QED BY <2>1, <3>1 DEF PeriodEnds, Changed
  <2>2. CASE Age
    BY <2>2 DEF Age
  <2>3. ASSUME NEW r \in Readers, Miss(r) \/ check_access(r) \/ StoreFails(r) PROVE CacheTypeOK'
    BY <2>3 DEF Miss, check_access, StoreFails, access_is_open
  <2>4. ASSUME NEW r \in Readers, Store(r) PROVE CacheTypeOK'
    BY <2>4 DEF Store
  <2>5. ASSUME NEW w \in Writers, Extend(w) PROVE CacheTypeOK'
    BY <2>5 DEF Extend, Changed
  <2>6. ASSUME NEW w \in Writers, ToggleFreeAccess(w) PROVE CacheTypeOK'
    BY <2>6 DEF ToggleFreeAccess, Changed
  <2>7. ASSUME NEW w \in Writers, invalidate_access_cache(w) PROVE CacheTypeOK'
    BY <2>7 DEF invalidate_access_cache
  <2>8. ASSUME NEW w \in Writers, InvalidateFails(w) PROVE CacheTypeOK'
    BY <2>8 DEF InvalidateFails
  <2>9. CASE UNCHANGED accessVars
    BY <2>9 DEF accessVars
  <2> QED BY <2>1, <2>2, <2>3, <2>4, <2>5, <2>6, <2>7, <2>8, <2>9 DEF CacheNext
<1> QED BY <1>1, <1>2, PTL DEF CacheSpec

\* No reader or writer, however they interleave and whatever Redis loses, leaves a
\* verdict that contradicts the database for more than the TTL of the key.
THEOREM SettlesWithinTTLHolds == CacheSpec => []SettlesWithinTTL
<1> USE AccessCacheAssumption DEF Verdicts
<1>1. CacheInit /\ CacheTypeOK => CacheInv
  BY DEF CacheInit, CacheInv
<1>2. CacheInv /\ CacheTypeOK' /\ [CacheNext]_accessVars => CacheInv'
  <2> SUFFICES ASSUME CacheInv, CacheTypeOK', [CacheNext]_accessVars PROVE CacheInv'
    OBVIOUS
  <2> USE DEF CacheInv, CacheTypeOK, access_is_open, dbVars, cacheVars, readerVars
  <2>1. CASE PeriodEnds
    BY <2>1 DEF PeriodEnds, Changed
  <2>2. CASE Age
    <3>1. /\ access_is_open' = access_is_open
          /\ cache' # "none" => cache' = cache /\ left' = left - 1 /\ left' > 0
          /\ \A r \in Readers : rpc'[r] # "store"
      BY <2>2 DEF Age
    <3>2. steady' <= steady + 1
      BY <2>2 DEF Age
    <3>3. ASSUME cache' # "none", cache' # access_is_open' PROVE steady' + left' <= billing_cache_ttl
      <4>1. left' = left - 1 /\ steady + left <= billing_cache_ttl
        BY <3>1, <3>3
      <4>2. left \in Nat /\ left' \in Nat /\ steady \in Nat /\ steady' \in Nat
        OBVIOUS
      <4> QED BY <3>2, <4>1, <4>2, CacheAge
    <3> QED BY <3>1, <3>3
  <2>3. ASSUME NEW r \in Readers, Miss(r) \/ StoreFails(r) PROVE CacheInv'
    <3>1. CASE Miss(r)
      BY <3>1 DEF Miss
    <3>2. CASE StoreFails(r)
      BY <3>2 DEF StoreFails
    <3> QED BY <2>3, <3>1, <3>2
  <2>4. ASSUME NEW r \in Readers, check_access(r) PROVE CacheInv'
    BY <2>4 DEF check_access
  <2>5. ASSUME NEW r \in Readers, Store(r) PROVE CacheInv'
    BY <2>5 DEF Store
  <2>6. ASSUME NEW w \in Writers, Extend(w) PROVE CacheInv'
    BY <2>6 DEF Extend, Changed
  <2>7. ASSUME NEW w \in Writers, ToggleFreeAccess(w) PROVE CacheInv'
    BY <2>7 DEF ToggleFreeAccess, Changed
  <2>8. ASSUME NEW w \in Writers, invalidate_access_cache(w) PROVE CacheInv'
    BY <2>8 DEF invalidate_access_cache
  <2>9. ASSUME NEW w \in Writers, InvalidateFails(w) PROVE CacheInv'
    BY <2>9 DEF InvalidateFails
  <2>10. CASE UNCHANGED accessVars
    BY <2>10 DEF accessVars
  <2> QED BY <2>1, <2>2, <2>3, <2>4, <2>5, <2>6, <2>7, <2>8, <2>9, <2>10 DEF CacheNext
<1>3. CacheInv => SettlesWithinTTL
  BY DEF CacheInv, CacheTypeOK, SettlesWithinTTL
<1> QED BY <1>1, <1>2, <1>3, CacheTypeCorrect, PTL DEF CacheSpec

=============================================================================
