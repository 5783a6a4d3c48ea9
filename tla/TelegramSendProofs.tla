------------------------- MODULE TelegramSendProofs -------------------------
(***************************************************************************)
(* Theorems about TelegramSend, for any tasks, processes, requests,        *)
(* redeliveries and disturbances.                                          *)
(***************************************************************************)
EXTENDS TelegramSend, FiniteSetTheorems, TLAPS

-----------------------------------------------------------------------------
(* Deliveries are counted.                                                 *)

(* A message is given as long as it is not fresh, and the deliveries are as few as the    *)
(* bound says.                                                                             *)
CountInv ==
  /\ \A t \in Tasks : t \in fresh <=> given[t] = 0
  /\ \A d \in queue : d \in Given
  /\ IsFiniteSet(Given) /\ Cardinality(Given) <= Cardinality(Tasks \ fresh) + MaxRedeliveries

LEMMA DeliveryIsPair ==
  /\ \A t \in Tasks, n \in 1 .. MaxRedeliveries + 1 :
       <<t, n>> \in Deliveries /\ <<t, n>>[1] = t /\ <<t, n>>[2] = n
  /\ \A d \in Deliveries : d = <<d[1], d[2]>> /\ d[1] \in Tasks /\ d[2] \in 1 .. MaxRedeliveries + 1
BY DEF Deliveries

(* A message that may still be delivered again has not used up the deliveries: every other *)
(* message that was sent has one delivery at least.                                         *)
LEMMA OneMore ==
  ASSUME TypeOK, CountInv, NEW t \in Tasks, t \notin fresh,
         Cardinality(Given) < Cardinality(Tasks \ fresh) + MaxRedeliveries
  PROVE  given[t] <= MaxRedeliveries
<1> DEFINE sent == Tasks \ fresh
           first == {<<u, 1>> : u \in sent}
           again == {<<t, n>> : n \in 2 .. given[t]}
<1>0. MaxRedeliveries \in Nat /\ IsFiniteSet(Tasks) /\ given \in [Tasks -> 0 .. MaxRedeliveries + 1]
  BY TelegramSendAssumption DEF TypeOK
<1>1. IsFiniteSet(sent) /\ Cardinality(sent) \in Nat
  BY <1>0, FS_Subset, FS_CardinalityType
<1>2. IsFiniteSet(first) /\ Cardinality(first) = Cardinality(sent)
  <2> DEFINE f == [u \in sent |-> <<u, 1>>]
  <2>1. f \in [sent -> first] /\ \A p \in first : \E u \in sent : f[u] = p
    OBVIOUS
  <2>2. \A u, v \in sent : f[u] = f[v] => u = v
    OBVIOUS
  <2> HIDE DEF f, first, sent
  <2>3. f \in Bijection(sent, first)
    BY <2>1, <2>2 DEF Bijection, Injection, Surjection, IsInjective
  <2> QED BY <1>1, <2>3, FS_Bijection DEF ExistsBijection
<1>3. given[t] \in 1 .. MaxRedeliveries + 1
  BY <1>0 DEF CountInv
<1>4. IsFiniteSet(again) /\ Cardinality(again) = given[t] - 1
  <2> DEFINE g == [n \in 2 .. given[t] |-> <<t, n>>]
  <2>a. g \in [2 .. given[t] -> again] /\ \A p \in again : \E n \in 2 .. given[t] : g[n] = p
    OBVIOUS
  <2>b. \A m, n \in 2 .. given[t] : g[m] = g[n] => m = n
    OBVIOUS
  <2> HIDE DEF g, again
  <2>1. g \in Bijection(2 .. given[t], again)
    BY <2>a, <2>b DEF Bijection, Injection, Surjection, IsInjective
  <2>2. IsFiniteSet(2 .. given[t]) /\ Cardinality(2 .. given[t]) = given[t] - 1
    BY <1>3, FS_Interval
  <2> QED BY <2>1, <2>2, FS_Bijection DEF ExistsBijection
<1>5. first \cap again = {}
  OBVIOUS
<1>6. Cardinality(first \cup again) = Cardinality(sent) + given[t] - 1
  <2>1. Cardinality(first \cap again) = 0
    BY <1>5, FS_EmptySet
  <2> QED BY <1>1, <1>2, <1>3, <1>4, <2>1, FS_Union
<1>7. first \cup again \subseteq Given
  <2>1. first \subseteq Given
    <3> SUFFICES ASSUME NEW u \in sent PROVE <<u, 1>> \in Given
      OBVIOUS
    <3>1. given[u] \in 1 .. MaxRedeliveries + 1
      BY <1>0 DEF CountInv
    <3> QED BY <1>0, <3>1, DeliveryIsPair DEF Given
  <2>2. again \subseteq Given
    <3> SUFFICES ASSUME NEW n \in 2 .. given[t] PROVE <<t, n>> \in Given
      OBVIOUS
    <3>1. n \in 1 .. MaxRedeliveries + 1 /\ n <= given[t]
      BY <1>0, <1>3
    <3> QED BY <3>1, DeliveryIsPair DEF Given
  <2> QED BY <2>1, <2>2
<1>8. Cardinality(first \cup again) <= Cardinality(Given)
  BY <1>7, FS_Subset DEF CountInv
<1>9. Cardinality(Given) \in Nat
  BY FS_CardinalityType DEF CountInv
<1> HIDE DEF sent, first, again
<1>10. Cardinality(Given) < Cardinality(sent) + MaxRedeliveries
  BY DEF sent
<1> QED BY <1>0, <1>1, <1>3, <1>6, <1>8, <1>9, <1>10

LEMMA EnqueueStep ==
  ASSUME TypeOK, CountInv, NEW t \in Tasks, Enqueue(t)
  PROVE  /\ fresh' \subseteq Tasks /\ queue' \subseteq Deliveries
         /\ given' \in [Tasks -> 0 .. MaxRedeliveries + 1] /\ CountInv'
         /\ Given' = Given \cup {<<t, 1>>} /\ <<t, 1>> \notin Given /\ <<t, 1>> \in Deliveries
<1>0. /\ MaxRedeliveries \in Nat /\ IsFiniteSet(Tasks) /\ given \in [Tasks -> 0 .. MaxRedeliveries + 1]
      /\ given[t] = 0 /\ fresh' = fresh \ {t} /\ given' = [given EXCEPT ![t] = 1]
      /\ queue' = queue \cup {<<t, 1>>} /\ t \in fresh /\ fresh \subseteq Tasks /\ queue \subseteq Deliveries
  BY TelegramSendAssumption DEF TypeOK, CountInv, Enqueue
<1>1. 1 \in 1 .. MaxRedeliveries + 1
  BY <1>0
<1>2. <<t, 1>> \in Deliveries /\ <<t, 1>> \notin Given
  BY <1>0, <1>1, DeliveryIsPair DEF Given
<1>3. Given' = Given \cup {<<t, 1>>}
  <2>1. ASSUME NEW d \in Deliveries
        PROVE  d[2] <= given'[d[1]] <=> d[2] <= given[d[1]] \/ d = <<t, 1>>
    <3>1. d = <<d[1], d[2]>> /\ d[1] \in Tasks /\ d[2] \in 1 .. MaxRedeliveries + 1
      BY DeliveryIsPair
    <3>2. CASE d[1] = t
      BY <1>0, <3>1, <3>2
    <3>3. CASE d[1] # t
      BY <1>0, <3>1, <3>3
    <3> QED BY <3>2, <3>3
  <2> QED BY <1>2, <2>1 DEF Given
<1>4. \A u \in Tasks : u \in fresh' <=> given'[u] = 0
  BY <1>0 DEF CountInv
<1>5. IsFiniteSet(Given') /\ Cardinality(Given') = Cardinality(Given) + 1
  BY <1>2, <1>3, FS_AddElement DEF CountInv
<1>6. Cardinality(Tasks \ fresh') = Cardinality(Tasks \ fresh) + 1
  <2>1. Tasks \ fresh' = (Tasks \ fresh) \cup {t} /\ t \notin Tasks \ fresh
    BY <1>0
  <2>2. IsFiniteSet(Tasks \ fresh)
    BY <1>0, FS_Subset
  <2> QED BY <2>1, <2>2, FS_AddElement
<1>7. Cardinality(Given) \in Nat /\ Cardinality(Tasks \ fresh) \in Nat
  BY <1>0, FS_CardinalityType, FS_Subset DEF CountInv
<1>8. Cardinality(Given') <= Cardinality(Tasks \ fresh') + MaxRedeliveries
  BY <1>0, <1>5, <1>6, <1>7 DEF CountInv
<1>9. \A d \in queue' : d \in Given'
  BY <1>0, <1>3 DEF CountInv
<1>10. queue' \subseteq Deliveries /\ fresh' \subseteq Tasks /\ given' \in [Tasks -> 0 .. MaxRedeliveries + 1]
  BY <1>0, <1>2
<1> QED BY <1>2, <1>3, <1>4, <1>5, <1>8, <1>9, <1>10 DEF CountInv

LEMMA RedeliverStep ==
  ASSUME TypeOK, CountInv, NEW t \in Tasks, Redeliver(t)
  PROVE  /\ queue' \subseteq Deliveries /\ given' \in [Tasks -> 0 .. MaxRedeliveries + 1] /\ CountInv'
         /\ <<t, given[t] + 1>> \in Deliveries \ Given
         /\ Given' = Given \cup {<<t, given[t] + 1>>} /\ queue' = queue \cup {<<t, given[t] + 1>>}
<1> DEFINE new == <<t, given[t] + 1>>
<1>0. /\ MaxRedeliveries \in Nat /\ IsFiniteSet(Tasks) /\ given \in [Tasks -> 0 .. MaxRedeliveries + 1]
      /\ given' = [given EXCEPT ![t] = given[t] + 1] /\ fresh' = fresh
      /\ queue' = queue \cup {new} /\ queue \subseteq Deliveries /\ <<t, given[t]>> \in queue
      /\ Cardinality(Given) < Cardinality(Tasks \ fresh) + MaxRedeliveries
  BY TelegramSendAssumption DEF TypeOK, Redeliver
<1>1. given[t] \in 1 .. MaxRedeliveries
  <2>1. given[t] # 0
    BY <1>0, DeliveryIsPair
  <2>2. t \notin fresh
    BY <2>1 DEF CountInv
  <2>3. given[t] <= MaxRedeliveries
    BY <1>0, <2>2, OneMore
  <2> QED BY <1>0, <2>1, <2>3
<1>2. new \in Deliveries /\ new \notin Given
  <2>1. given[t] + 1 \in 1 .. MaxRedeliveries + 1
    BY <1>0, <1>1
  <2> QED BY <1>1, <2>1, DeliveryIsPair DEF Given
<1>3. Given' = Given \cup {new}
  <2>1. ASSUME NEW d \in Deliveries
        PROVE  d[2] <= given'[d[1]] <=> d[2] <= given[d[1]] \/ d = new
    <3>1. d = <<d[1], d[2]>> /\ d[1] \in Tasks /\ d[2] \in 1 .. MaxRedeliveries + 1
      BY DeliveryIsPair
    <3>2. CASE d[1] = t
      <4>1. d[2] <= given[t] + 1 <=> d[2] <= given[t] \/ d[2] = given[t] + 1
        BY <1>1, <3>1
      <4> QED BY <1>0, <3>1, <3>2, <4>1
    <3>3. CASE d[1] # t
      BY <1>0, <3>1, <3>3
    <3> QED BY <3>2, <3>3
  <2> QED BY <1>2, <2>1 DEF Given
<1>4. \A u \in Tasks : u \in fresh' <=> given'[u] = 0
  BY <1>0, <1>1 DEF CountInv
<1>5. IsFiniteSet(Given') /\ Cardinality(Given') = Cardinality(Given) + 1
  BY <1>2, <1>3, FS_AddElement DEF CountInv
<1>6. Cardinality(Given) \in Nat /\ Cardinality(Tasks \ fresh) \in Nat
  BY <1>0, FS_CardinalityType, FS_Subset DEF CountInv
<1>7. Cardinality(Given') <= Cardinality(Tasks \ fresh') + MaxRedeliveries
  BY <1>0, <1>5, <1>6
<1>8. \A d \in queue' : d \in Given'
  BY <1>0, <1>3 DEF CountInv
<1>9. queue' \subseteq Deliveries /\ given' \in [Tasks -> 0 .. MaxRedeliveries + 1]
  BY <1>0, <1>1, <1>2
<1> QED BY <1>0, <1>2, <1>3, <1>4, <1>5, <1>7, <1>8, <1>9 DEF CountInv

LEMMA CountStep == TypeOK /\ CountInv /\ [Next]_vars => CountInv'
<1> SUFFICES ASSUME TypeOK, CountInv, [Next]_vars PROVE CountInv'
  OBVIOUS
<1>1. CASE UNCHANGED <<fresh, given>> /\ queue' \subseteq queue
  <2>1. Given' = Given
    BY <1>1 DEF Given
  <2> QED BY <1>1, <2>1 DEF CountInv
<1>2. ASSUME NEW t \in Tasks, Dispatch(t) \/ Redeliver(t) PROVE CountInv'
  BY <1>2, EnqueueStep, RedeliverStep DEF Dispatch
<1>3. ASSUME NEW r \in Retriers, DispatchRetry(r) PROVE CountInv'
  BY <1>3, EnqueueStep DEF DispatchRetry, TypeOK
<1>4. ASSUME NEW w \in Workers, Execute(w) \/ WorkerDies(w)
      PROVE  UNCHANGED <<fresh, given>> /\ queue' \subseteq queue
  BY <1>4 DEF Execute, Take, send_message, CommitLog, CommitMark, WorkerDies, broker
<1>5. ASSUME NEW p \in Presses, Answer(p) \/ \E i \in Rows : Claim(p, i)
      PROVE  UNCHANGED <<fresh, given>> /\ queue' \subseteq queue
  BY <1>5 DEF Answer, CheckPress, SendRetry, Claim, broker
<1>6. ASSUME NEW r \in Retriers, (\E i \in Rows : retry_send(r, i)) \/ RetryDies(r)
      PROVE  UNCHANGED <<fresh, given>> /\ queue' \subseteq queue
  BY <1>6 DEF retry_send, RetryDies, broker
<1>7. CASE (\E i \in Rows : WindowEnds(i)) \/ WebRestarts \/ Edit \/ UNCHANGED vars
  BY <1>1, <1>7 DEF WindowEnds, WebRestarts, Edit, vars, broker
<1> QED BY <1>1, <1>2, <1>3, <1>4, <1>5, <1>6, <1>7 DEF Next, Retry

-----------------------------------------------------------------------------
(* Types.                                                                  *)

LEMMA SendTypes ==
  /\ \A v \in Send : /\ v.delivery \in Deliveries /\ v.step \in {"ready", "tried", "logged"}
                     /\ v.ok \in BOOLEAN /\ v.marked \in BOOLEAN
                     /\ \A b \in BOOLEAN : [v EXCEPT !.step = "tried", !.ok = b] \in Send
                     /\ [v EXCEPT !.step = "logged"] \in Send
  /\ \A q \in Request : q.row \in Rows /\ [q EXCEPT !.step = "allowed"] \in Request
BY DEF Send, Request

(* A send in progress, and a request in progress, are records of their sets.              *)
LEMMA Busy ==
  ASSUME TypeOK
  PROVE  /\ \A w \in Workers : worker[w] # None <=> worker[w] \in Send
         /\ \A p \in Presses : press[p] \notin {None, Done} <=> press[p] \in Request
         /\ \A r \in Retriers : retrying[r] # None <=> retrying[r] \in Rows
<1>1. worker \in [Workers -> Send \cup {None}] /\ press \in [Presses -> Request \cup {None, Done}]
      /\ retrying \in [Retriers -> Rows \cup {None}]
  BY DEF TypeOK
<1>2. None \notin Send \cup Request \cup Rows /\ Done \notin Request \cup {None}
  BY TelegramSendAssumption
<1> QED BY <1>1, <1>2

LEMMA TypeInit == Init => TypeOK /\ CountInv
<1> SUFFICES ASSUME Init PROVE TypeOK /\ CountInv
  OBVIOUS
<1>0. MaxRedeliveries \in Nat /\ MaxDisturbances \in Nat /\ IsFiniteSet(Tasks)
  BY TelegramSendAssumption
<1>1. 0 \in 0 .. MaxRedeliveries + 1 /\ 0 \in 0 .. MaxDisturbances
  BY <1>0
<1>2. TypeOK
  <2>1. given \in [Tasks -> 0 .. MaxRedeliveries + 1] /\ posted \in [Deliveries -> Nat]
        /\ asked \in [Rows -> Nat] /\ retryQueue \in [Rows -> Nat]
    BY <1>1 DEF Init
  <2>2. /\ worker \in [Workers -> Send \cup {None}] /\ retrying \in [Retriers -> Rows \cup {None}]
        /\ press \in [Presses -> Request \cup {None, Done}]
    BY DEF Init
  <2>3. sendLog \in Seq(Log)
    BY DEF Init
  <2> QED BY <1>1, <2>1, <2>2, <2>3 DEF Init, TypeOK
<1>3. Given = {}
  <2>1. ASSUME NEW d \in Deliveries PROVE ~(d[2] <= given[d[1]])
    <3>1. d[1] \in Tasks /\ d[2] \in 1 .. MaxRedeliveries + 1
      BY DeliveryIsPair
    <3> QED BY <1>0, <3>1 DEF Init
  <2> QED BY <2>1 DEF Given
<1>4. IsFiniteSet(Given) /\ Cardinality(Given) = 0
  BY <1>3, FS_EmptySet
<1>5. Tasks \ fresh = {} /\ Cardinality(Tasks \ fresh) = 0
  BY FS_EmptySet DEF Init
<1> QED BY <1>0, <1>2, <1>4, <1>5 DEF CountInv, Init

LEMMA TypeStep == TypeOK /\ CountInv /\ [Next]_vars => TypeOK'
<1> SUFFICES ASSUME TypeOK, CountInv, [Next]_vars PROVE TypeOK'
  OBVIOUS
<1> USE DEF world, broker, logVars, retryVars
<1>0. MaxRedeliveries \in Nat /\ MaxDisturbances \in Nat
  BY TelegramSendAssumption
<1>q. Quiet => edits + 1 \in 0 .. MaxDisturbances /\ failures + 1 \in 0 .. MaxDisturbances
  BY <1>0 DEF Quiet, TypeOK
<1>1. ASSUME NEW t \in Tasks, Dispatch(t) \/ Redeliver(t) PROVE TypeOK'
  <2>1. CASE Dispatch(t)
    BY <2>1, EnqueueStep DEF Dispatch, TypeOK
  <2>2. CASE Redeliver(t)
    BY <2>2, RedeliverStep DEF Redeliver, TypeOK
  <2> QED BY <1>1, <2>1, <2>2
<1>2. ASSUME NEW w \in Workers, NEW d \in Deliveries, Take(w, d) PROVE TypeOK'
  <2>1. ASSUME NEW status \in {"ok", "fail", "account_disconnected"}, NEW b \in BOOLEAN,
               NEW c \in BOOLEAN, WriteLog(d, status, b, c)
        PROVE  sendLog' \in Seq(Log)
    BY <2>1 DEF WriteLog, Log, TypeOK
  <2>2. [delivery |-> d, step |-> "ready", ok |-> FALSE, marked |-> marked] \in Send
    BY DEF Send, TypeOK
  <2>3. sendLog' \in Seq(Log) /\ worker' \in [Workers -> Send \cup {None}]
    BY <1>2, <2>1, <2>2 DEF Take, send_message_once, SetWorker, TypeOK
  <2>4. queue' \subseteq Deliveries /\ overlapped' \in BOOLEAN
    BY <1>2 DEF Take, TypeOK
  <2> QED BY <1>2, <2>3, <2>4 DEF Take, TypeOK
<1>3. ASSUME NEW w \in Workers, send_message(w) PROVE TypeOK'
  <2>1. worker[w] \in Send
    BY <1>3, Busy DEF send_message
  <2>2. PICK ok \in BOOLEAN, n \in 0 .. 1 :
          /\ IF ok \/ n = 0 THEN UNCHANGED failures ELSE Quiet /\ failures' = failures + 1
          /\ worker' = [worker EXCEPT ![w] = [worker[w] EXCEPT !.step = "tried", !.ok = ok]]
          /\ posted' = [posted EXCEPT ![worker[w].delivery] = @ + n]
    BY <1>3 DEF send_message, SetWorker
  <2>3. worker' \in [Workers -> Send \cup {None}]
    BY <2>1, <2>2, SendTypes DEF TypeOK
  <2>4. posted' \in [Deliveries -> Nat]
    <3>1. worker[w].delivery \in Deliveries
      BY <2>1, SendTypes
    <3>2. posted \in [Deliveries -> Nat] /\ posted[worker[w].delivery] + n \in Nat
      BY <3>1 DEF TypeOK
    <3> HIDE DEF Deliveries
    <3> QED BY <2>2, <3>1, <3>2
  <2>5. failures' \in 0 .. MaxDisturbances
    BY <1>q, <2>2 DEF TypeOK
  <2> QED BY <1>3, <2>3, <2>4, <2>5 DEF send_message, TypeOK
<1>4. ASSUME NEW w \in Workers, CommitLog(w) PROVE TypeOK'
  <2>1. worker[w] \in Send
    BY <1>4, Busy DEF CommitLog
  <2>2. sendLog' \in Seq(Log)
    <3>1. [delivery |-> worker[w].delivery, status |-> IF worker[w].ok THEN "ok" ELSE "fail",
           mine |-> TRUE, tried |-> TRUE] \in Log
      BY <2>1, SendTypes DEF Log
    <3> QED BY <1>4, <3>1 DEF CommitLog, WriteLog, TypeOK
  <2>3. worker' \in [Workers -> Send \cup {None}]
    BY <1>4, <2>1, SendTypes DEF CommitLog, SetWorker, TypeOK
  <2> QED BY <1>4, <2>2, <2>3 DEF CommitLog, TypeOK
<1>5. ASSUME NEW w \in Workers, CommitMark(w) \/ WorkerDies(w) PROVE TypeOK'
  <2>1. worker' \in [Workers -> Send \cup {None}]
    BY <1>5 DEF CommitMark, WorkerDies, SetWorker, TypeOK
  <2>2. CASE CommitMark(w)
    <3>1. marked' \in BOOLEAN
      BY <2>2 DEF CommitMark, TypeOK
    <3> QED BY <2>1, <2>2, <3>1 DEF CommitMark, TypeOK
  <2>3. CASE WorkerDies(w)
    BY <2>1, <2>3, <1>q DEF WorkerDies, TypeOK
  <2> QED BY <1>5, <2>2, <2>3
<1>6. ASSUME NEW p \in Presses, NEW i \in Rows, Claim(p, i) PROVE TypeOK'
  <2>1. [row |-> i, step |-> "claimed"] \in Request
    BY DEF Request
  <2> QED BY <1>6, <2>1 DEF Claim, SetPress, TypeOK
<1>7. ASSUME NEW p \in Presses, CheckPress(p) PROVE TypeOK'
  <2>1. press[p] \in Request
    BY <1>7, Busy DEF CheckPress, At
  <2>2. press' \in [Presses -> Request \cup {None, Done}]
    BY <1>7, <2>1, SendTypes DEF CheckPress, SetPress, TypeOK
  <2>3. window' \subseteq Rows
    BY <1>7 DEF CheckPress, Release, TypeOK
  <2> QED BY <1>7, <2>2, <2>3 DEF CheckPress, TypeOK
<1>8. ASSUME NEW p \in Presses, SendRetry(p) PROVE TypeOK'
  <2>1. press[p] \in Request /\ press[p].row \in Rows
    BY <1>8, Busy, SendTypes DEF SendRetry, At
  <2>2. press' \in [Presses -> Request \cup {None, Done}] /\ window' \subseteq Rows
    BY <1>8, <2>1 DEF SendRetry, SetPress, Release, TypeOK
  <2>3. ASSUME NEW n \in 0 .. 1, QueueRetry(press[p].row, n)
        PROVE  retryQueue' \in [Rows -> Nat] /\ asked' \in [Rows -> Nat]
    BY <2>1, <2>3 DEF QueueRetry, TypeOK
  <2>4. retryQueue' \in [Rows -> Nat] /\ asked' \in [Rows -> Nat]
    <3>1. CASE QueueRetry(press[p].row, 1)
      BY <2>3, <3>1
    <3>2. CASE UNCHANGED <<retryQueue, asked>>
      BY <3>2 DEF TypeOK
    <3>3. CASE \E n \in 0 .. 1 : QueueRetry(press[p].row, n)
      BY <2>3, <3>3
    <3> QED BY <1>8, <3>1, <3>2, <3>3 DEF SendRetry
  <2>5. failures' \in 0 .. MaxDisturbances
    BY <1>8, <1>q DEF SendRetry, TypeOK
  <2> QED BY <1>8, <2>2, <2>4, <2>5 DEF SendRetry, TypeOK
<1>9. ASSUME NEW i \in Rows, WindowEnds(i) PROVE TypeOK'
  BY <1>9 DEF WindowEnds, Release, TypeOK
<1>10. CASE WebRestarts
  <2>1. press' \in [Presses -> Request \cup {None, Done}]
    BY <1>10 DEF WebRestarts
  <2> QED BY <1>10, <1>q, <2>1 DEF WebRestarts, TypeOK
<1>11. ASSUME NEW r \in Retriers, NEW i \in Rows, retry_send(r, i) PROVE TypeOK'
  BY <1>11 DEF retry_send, TypeOK
<1>12. ASSUME NEW r \in Retriers, DispatchRetry(r) \/ RetryDies(r) PROVE TypeOK'
  <2>1. retrying' \in [Retriers -> Rows \cup {None}]
    BY <1>12 DEF DispatchRetry, RetryDies, TypeOK
  <2>2. CASE DispatchRetry(r)
    <3>1. PICK t \in Tasks : Enqueue(t)
      BY <2>2 DEF DispatchRetry, TypeOK
    <3> QED BY <2>1, <2>2, <3>1, EnqueueStep DEF DispatchRetry, TypeOK
  <2>3. CASE RetryDies(r)
    BY <1>q, <2>1, <2>3 DEF RetryDies, TypeOK
  <2> QED BY <1>12, <2>2, <2>3
<1>13. CASE Edit
  BY <1>13, <1>q DEF Edit, TypeOK
<1>14. CASE UNCHANGED vars
  BY <1>14 DEF vars, TypeOK
<1> QED BY <1>1, <1>2, <1>3, <1>4, <1>5, <1>6, <1>7, <1>8, <1>9, <1>10, <1>11, <1>12, <1>13, <1>14
        DEF Next, Execute, Answer, Retry

(* Every variable keeps its type.                                                          *)
THEOREM TypeCorrect == Spec => []TypeOK
<1>1. TypeOK /\ CountInv /\ [Next]_vars => (TypeOK /\ CountInv)'
  BY TypeStep, CountStep
<1> QED BY TypeInit, <1>1, PTL DEF Spec

-----------------------------------------------------------------------------
(* The retry of a row.                                                     *)

(* A row outside the window has nothing queued and nobody works on it; inside the window   *)
(* one request works on it at most, and only before it has queued the retry.               *)
RetryInv ==
  \A i \in Rows :
    /\ asked[i] \in 0 .. 1
    /\ i \notin window => asked[i] = 0
    /\ \A p \in Presses : WorksOn(p, i) => i \in window /\ asked[i] = 0
    /\ \A p, q \in Presses : WorksOn(p, i) /\ WorksOn(q, i) => p = q

(* A claim takes a row nobody works on.                                                    *)
LEMMA ClaimStep ==
  ASSUME TypeOK, RetryInv, NEW p \in Presses, NEW i \in Rows, Claim(p, i)
  PROVE  /\ \A q \in Presses, j \in Rows : WorksOn(q, j)' <=> WorksOn(q, j) \/ (q = p /\ j = i)
         /\ \A q \in Presses : ~WorksOn(q, i)
         /\ window' = window \cup {i} /\ asked' = asked /\ failures' = failures
<1>1. [row |-> i, step |-> "claimed"] \in Request
  BY DEF Request
<1>2. [row |-> i, step |-> "claimed"] \notin {None, Done}
  BY <1>1, TelegramSendAssumption
<1>3. press' = [press EXCEPT ![p] = [row |-> i, step |-> "claimed"]] /\ press[p] = None
  BY DEF Claim, SetPress
<1>4. press \in [Presses -> Request \cup {None, Done}]
  BY DEF TypeOK
<1>5. ASSUME NEW q \in Presses, NEW j \in Rows
      PROVE  WorksOn(q, j)' <=> WorksOn(q, j) \/ (q = p /\ j = i)
  <2>1. CASE q = p
    <3>1. press'[q] = [row |-> i, step |-> "claimed"] /\ press[q] = None
      BY <1>3, <1>4, <2>1
    <3> QED BY <1>2, <2>1, <3>1 DEF WorksOn
  <2>2. CASE q # p
    <3>1. press'[q] = press[q]
      BY <1>3, <1>4, <2>2
    <3> QED BY <2>2, <3>1 DEF WorksOn
  <2> QED BY <2>1, <2>2
<1> QED BY <1>5 DEF Claim, RetryInv, retryVars, logVars

(* A request that answers no longer works on its row, or goes on with it.                  *)
LEMMA AnswerStep ==
  ASSUME TypeOK, NEW p \in Presses, NEW i, i = press[p].row, Answer(p)
  PROVE  /\ WorksOn(p, i) /\ i \in Rows
         /\ \A q \in Presses \ {p}, j \in Rows : WorksOn(q, j)' <=> WorksOn(q, j)
         /\ \A j \in Rows \ {i} : ~WorksOn(p, j)'
         /\ \/ WorksOn(p, i)' /\ window' = window /\ asked' = asked /\ failures' = failures
            \/ /\ ~WorksOn(p, i)'
               /\ \/ window' = window \ {i} /\ asked' = asked
                  \/ window' = window /\ asked' = [asked EXCEPT ![i] = asked[i] + 1]
                  \/ window' = window /\ failures' = failures + 1
                     /\ \E n \in 0 .. 1 : asked' = [asked EXCEPT ![i] = asked[i] + n]
               /\ failures' \in {failures, failures + 1}
<1>1. press[p] \in Request /\ i \in Rows /\ WorksOn(p, i)
  BY Busy, SendTypes DEF Answer, CheckPress, SendRetry, At, WorksOn
<1>2. press \in [Presses -> Request \cup {None, Done}]
  BY DEF TypeOK
<1>3. CASE press' = [press EXCEPT ![p] = [press[p] EXCEPT !.step = "allowed"]]
           /\ window' = window /\ asked' = asked /\ failures' = failures
  <2>1. [press[p] EXCEPT !.step = "allowed"] \in Request /\ [press[p] EXCEPT !.step = "allowed"].row = i
    BY <1>1 DEF Request
  <2>2. press'[p] = [press[p] EXCEPT !.step = "allowed"] /\ press'[p] \notin {None, Done}
    BY <1>2, <1>3, <2>1, TelegramSendAssumption
  <2>3. WorksOn(p, i)' /\ \A j \in Rows \ {i} : ~WorksOn(p, j)'
    BY <2>1, <2>2 DEF WorksOn
  <2>4. \A q \in Presses \ {p}, j \in Rows : WorksOn(q, j)' <=> WorksOn(q, j)
    BY <1>2, <1>3 DEF WorksOn
  <2> QED BY <1>1, <1>3, <2>3, <2>4
<1>4. ASSUME press' = [press EXCEPT ![p] = Done]
      PROVE  /\ \A q \in Presses \ {p}, j \in Rows : WorksOn(q, j)' <=> WorksOn(q, j)
             /\ \A j \in Rows : ~WorksOn(p, j)'
  BY <1>2, <1>4 DEF WorksOn
<1>5. CASE CheckPress(p)
  <2>1. CASE press' = [press EXCEPT ![p] = Done] /\ window' = window \ {i}
    BY <1>1, <1>4, <1>5, <2>1 DEF CheckPress
  <2> QED BY <1>3, <1>5, <2>1 DEF CheckPress, SetPress, Release
<1>6. CASE SendRetry(p)
  <2>0. press' = [press EXCEPT ![p] = Done] /\ WorksOn(p, i)
    BY <1>1, <1>6 DEF SendRetry, SetPress
  <2>1. \/ window' = window \ {i} /\ asked' = asked
        \/ window' = window /\ asked' = [asked EXCEPT ![i] = asked[i] + 1]
        \/ window' = window /\ failures' = failures + 1
           /\ \E n \in 0 .. 1 : asked' = [asked EXCEPT ![i] = asked[i] + n]
    BY <1>6 DEF SendRetry, Release, QueueRetry
  <2>2. failures' \in {failures, failures + 1}
    BY <1>6 DEF SendRetry
  <2> QED BY <1>1, <1>4, <2>0, <2>1, <2>2
<1> QED BY <1>5, <1>6 DEF Answer

LEMMA WindowStep ==
  ASSUME TypeOK, NEW i \in Rows, WindowEnds(i)
  PROVE  /\ \A q \in Presses : ~WorksOn(q, i)
         /\ \A q \in Presses, j \in Rows : WorksOn(q, j)' <=> WorksOn(q, j)
         /\ window' = window \ {i} /\ asked' = [asked EXCEPT ![i] = 0] /\ failures' = failures
BY DEF WindowEnds, Release, WorksOn

(* Every other step leaves the requests and their windows alone.                           *)
LEMMA RetryElsewhere ==
  ASSUME [Next]_vars
  PROVE  \/ \E p \in Presses : Answer(p) \/ \E i \in Rows : Claim(p, i)
         \/ \E i \in Rows : WindowEnds(i)
         \/ WebRestarts
         \/ UNCHANGED <<press, window, asked>> /\ failures' \in {failures, failures + 1}
<1> USE DEF retryVars
<1>1. ASSUME NEW t \in Tasks, Dispatch(t) \/ Redeliver(t)
      PROVE  UNCHANGED <<press, window, asked>> /\ failures' = failures
  BY <1>1 DEF Dispatch, Redeliver
<1>2. ASSUME NEW w \in Workers, Execute(w) \/ WorkerDies(w)
      PROVE  UNCHANGED <<press, window, asked>> /\ failures' \in {failures, failures + 1}
  BY <1>2 DEF Execute, Take, send_message, CommitLog, CommitMark, WorkerDies
<1>3. ASSUME NEW r \in Retriers, Retry(r) \/ RetryDies(r)
      PROVE  UNCHANGED <<press, window, asked>> /\ failures' \in {failures, failures + 1}
  BY <1>3 DEF Retry, retry_send, DispatchRetry, RetryDies
<1>4. CASE Edit \/ UNCHANGED vars
  BY <1>4 DEF Edit, vars
<1> QED BY <1>1, <1>2, <1>3, <1>4 DEF Next

LEMMA RetryInit == Init => RetryInv /\ LockedForAReason
BY DEF Init, RetryInv, WorksOn, LockedForAReason

LEMMA RetryStep == TypeOK /\ RetryInv /\ [Next]_vars => RetryInv'
<1> SUFFICES ASSUME TypeOK, RetryInv, [Next]_vars PROVE RetryInv'
  OBVIOUS
<1>0. asked \in [Rows -> Nat] /\ window \subseteq Rows
  BY DEF TypeOK
<1>1. ASSUME NEW p \in Presses, NEW i \in Rows, Claim(p, i) PROVE RetryInv'
  <2>1. \A q \in Presses, j \in Rows : WorksOn(q, j)' <=> WorksOn(q, j) \/ (q = p /\ j = i)
    BY <1>1, ClaimStep
  <2>2. \A q \in Presses : ~WorksOn(q, i)
    BY <1>1, ClaimStep
  <2>3. window' = window \cup {i} /\ asked' = asked /\ asked[i] = 0
    BY <1>1, ClaimStep DEF Claim, RetryInv
  <2>4. ASSUME NEW j \in Rows
        PROVE  /\ asked'[j] \in 0 .. 1 /\ (j \notin window' => asked'[j] = 0)
               /\ \A q \in Presses : WorksOn(q, j)' => j \in window' /\ asked'[j] = 0
               /\ \A q, r \in Presses : WorksOn(q, j)' /\ WorksOn(r, j)' => q = r
    BY <2>1, <2>2, <2>3 DEF RetryInv
  <2> QED BY <2>4 DEF RetryInv, WorksOn
<1>2. ASSUME NEW p \in Presses, Answer(p) PROVE RetryInv'
  <2>0. PICK i : i = press[p].row
    OBVIOUS
  <2>1. /\ i \in Rows /\ asked[i] = 0 /\ i \in window
        /\ \A q \in Presses \ {p} : ~WorksOn(q, i)
    BY <1>2, <2>0, AnswerStep DEF RetryInv
  <2>2. \A q \in Presses \ {p}, j \in Rows : WorksOn(q, j)' <=> WorksOn(q, j)
    BY <1>2, <2>0, AnswerStep
  <2>3. \A j \in Rows \ {i} : ~WorksOn(p, j)'
    BY <1>2, <2>0, AnswerStep
  <2>4. CASE WorksOn(p, i)' /\ window' = window /\ asked' = asked
    BY <2>1, <2>2, <2>3, <2>4 DEF RetryInv
  <2>5. CASE ~WorksOn(p, i)' /\ window' = window \ {i} /\ asked' = asked
    BY <2>1, <2>2, <2>3, <2>5 DEF RetryInv
  <2>6. ASSUME ~WorksOn(p, i)', window' = window, NEW n \in 0 .. 1,
               asked' = [asked EXCEPT ![i] = asked[i] + n]
        PROVE  RetryInv'
    <3>1. \A j \in Rows : asked'[j] = IF j = i THEN n ELSE asked[j]
      BY <1>0, <2>1, <2>6
    <3> QED BY <2>1, <2>2, <2>3, <2>6, <3>1 DEF RetryInv
  <2>7. \/ WorksOn(p, i)' /\ window' = window /\ asked' = asked
        \/ ~WorksOn(p, i)' /\ window' = window \ {i} /\ asked' = asked
        \/ ~WorksOn(p, i)' /\ window' = window /\ \E n \in 0 .. 1 : asked' = [asked EXCEPT ![i] = asked[i] + n]
    BY <1>2, <2>0, AnswerStep
  <2> QED BY <2>4, <2>5, <2>6, <2>7
<1>3. ASSUME NEW i \in Rows, WindowEnds(i) PROVE RetryInv'
  <2>1. \A j \in Rows : asked'[j] = IF j = i THEN 0 ELSE asked[j]
    BY <1>0, <1>3, WindowStep
  <2> QED BY <1>3, <2>1, WindowStep DEF RetryInv
<1>4. CASE WebRestarts
  <2>1. \A p \in Presses, i \in Rows : ~WorksOn(p, i)'
    BY <1>4 DEF WebRestarts, WorksOn
  <2>2. \A i \in Rows : asked'[i] = 0
    BY <1>4 DEF WebRestarts
  <2> QED BY <2>1, <2>2 DEF RetryInv
<1>5. CASE UNCHANGED <<press, window, asked>>
  BY <1>5 DEF RetryInv, WorksOn
<1> QED BY <1>1, <1>2, <1>3, <1>4, <1>5, RetryElsewhere

LEMMA LockedStep == TypeOK /\ RetryInv /\ LockedForAReason /\ [Next]_vars => LockedForAReason'
<1> SUFFICES ASSUME TypeOK, RetryInv, LockedForAReason, [Next]_vars, failures' = 0
             PROVE  \A j \in window' : asked'[j] = 1 \/ \E q \in Presses : WorksOn(q, j)'
  BY DEF LockedForAReason, WorksOn
<1>0. asked \in [Rows -> Nat] /\ window \subseteq Rows /\ failures \in Nat
  BY DEF TypeOK
<1>1. ASSUME NEW p \in Presses, NEW i \in Rows, Claim(p, i)
      PROVE  \A j \in window' : asked'[j] = 1 \/ \E q \in Presses : WorksOn(q, j)'
  BY <1>0, <1>1, ClaimStep DEF LockedForAReason
<1>2. ASSUME NEW p \in Presses, Answer(p)
      PROVE  \A j \in window' : asked'[j] = 1 \/ \E q \in Presses : WorksOn(q, j)'
  <2>0. PICK i : i = press[p].row
    OBVIOUS
  <2>1. i \in Rows /\ WorksOn(p, i) /\ asked[i] = 0 /\ \A j \in Rows \ {i} : ~WorksOn(p, j)
    BY <1>2, <2>0, AnswerStep DEF RetryInv, WorksOn
  <2>2. failures = 0
    BY <1>0, <1>2, <2>0, AnswerStep
  <2>3. \A j \in window : asked[j] = 1 \/ \E q \in Presses : WorksOn(q, j)
    BY <2>2 DEF LockedForAReason
  <2>4. \A q \in Presses \ {p}, j \in Rows : WorksOn(q, j)' <=> WorksOn(q, j)
    BY <1>2, <2>0, AnswerStep
  <2>5. \/ WorksOn(p, i)' /\ window' = window /\ asked' = asked
        \/ window' = window \ {i} /\ asked' = asked
        \/ window' = window /\ asked' = [asked EXCEPT ![i] = asked[i] + 1]
    BY <1>0, <1>2, <2>0, <2>2, AnswerStep
  <2>6. \A j \in window \ {i} : asked[j] = 1 \/ \E q \in Presses \ {p} : WorksOn(q, j)
    BY <1>0, <2>1, <2>3
  <2>7. \A j \in window \ {i} : asked[j] = 1 \/ \E q \in Presses : WorksOn(q, j)'
    BY <1>0, <2>4, <2>6
  <2>8. CASE WorksOn(p, i)' /\ window' = window /\ asked' = asked
    BY <2>7, <2>8
  <2>9. CASE window' = window \ {i} /\ asked' = asked
    BY <2>7, <2>9
  <2>10. CASE window' = window /\ asked' = [asked EXCEPT ![i] = asked[i] + 1]
    <3>1. \A j \in Rows : asked'[j] = IF j = i THEN 1 ELSE asked[j]
      BY <1>0, <2>1, <2>10
    <3> QED BY <1>0, <2>7, <2>10, <3>1
  <2> QED BY <2>5, <2>8, <2>9, <2>10
<1>3. ASSUME NEW i \in Rows, WindowEnds(i)
      PROVE  \A j \in window' : asked'[j] = 1 \/ \E q \in Presses : WorksOn(q, j)'
  <2>1. \A j \in Rows : asked'[j] = IF j = i THEN 0 ELSE asked[j]
    BY <1>0, <1>3, WindowStep
  <2>2. \A j \in window \ {i} : asked[j] = 1 \/ \E q \in Presses : WorksOn(q, j)
    BY <1>3, WindowStep DEF LockedForAReason
  <2>3. window' = window \ {i} /\ \A q \in Presses, j \in Rows : WorksOn(q, j)' <=> WorksOn(q, j)
    BY <1>3, WindowStep
  <2> QED BY <1>0, <2>1, <2>2, <2>3
<1>4. CASE WebRestarts
  BY <1>0, <1>4 DEF WebRestarts
<1>5. CASE UNCHANGED <<press, window, asked>> /\ failures' \in {failures, failures + 1}
  BY <1>0, <1>5 DEF LockedForAReason, WorksOn
<1> QED BY <1>1, <1>2, <1>3, <1>4, <1>5, RetryElsewhere

(* history_retry: in a window of a row at most one retry goes to the queue, however many   *)
(* requests overlap and whatever the broker answers.                                       *)
THEOREM OneRetryPerWindowHolds == Spec => []OneRetryPerWindow
<1>1. Init => TypeOK /\ CountInv /\ RetryInv
  BY TypeInit, RetryInit
<1>2. (TypeOK /\ CountInv /\ RetryInv) /\ [Next]_vars => (TypeOK /\ CountInv /\ RetryInv)'
  BY TypeStep, CountStep, RetryStep
<1>3. RetryInv => OneRetryPerWindow
  BY DEF RetryInv, OneRetryPerWindow
<1> QED BY <1>1, <1>2, <1>3, PTL DEF Spec

(* history_retry: while no call fails, a row is locked only as long as a request works on  *)
(* it or a retry of it was queued.                                                         *)
THEOREM LockedForAReasonHolds == Spec => []LockedForAReason
<1>1. Init => TypeOK /\ CountInv /\ RetryInv /\ LockedForAReason
  BY TypeInit, RetryInit
<1>2. (TypeOK /\ CountInv /\ RetryInv /\ LockedForAReason) /\ [Next]_vars
        => (TypeOK /\ CountInv /\ RetryInv /\ LockedForAReason)'
  BY TypeStep, CountStep, RetryStep, LockedStep
<1> QED BY <1>1, <1>2, PTL DEF Spec

-----------------------------------------------------------------------------
(* One send per delivery.                                                  *)

Logged(d) == \E i \in DOMAIN sendLog : sendLog[i].delivery = d

Held(d) == \E w \in Workers : worker[w] # None /\ worker[w].delivery = d

(* A delivery is in the queue, or one worker has it, or neither; it has at most one row,   *)
(* written while a worker had it.                                                           *)
DeliveryInv ==
  /\ \A d \in queue : ~Logged(d)
  /\ \A w \in Workers : worker[w] # None =>
       /\ worker[w].delivery \in Given \ queue
       /\ worker[w].step = "logged" <=> Logged(worker[w].delivery)
       /\ \A v \in Workers : worker[v] # None /\ worker[v].delivery = worker[w].delivery => v = w
  /\ \A i \in DOMAIN sendLog : sendLog[i].delivery \in Given
  /\ \A i, j \in DOMAIN sendLog : sendLog[i].delivery = sendLog[j].delivery => i = j

(* A new row is the newest; the others stay what they are.                                 *)
LEMMA AppendRow ==
  ASSUME TypeOK, NEW e, sendLog' = Append(sendLog, e)
  PROVE  LET n == Len(sendLog) + 1 IN
         /\ DOMAIN sendLog \subseteq 1 .. Len(sendLog) /\ n \in Nat /\ Len(sendLog) \in Nat
         /\ DOMAIN sendLog' = DOMAIN sendLog \cup {n} /\ n \notin DOMAIN sendLog
         /\ sendLog'[n] = e
         /\ \A i \in DOMAIN sendLog : sendLog'[i] = sendLog[i]
BY DEF TypeOK

(* What the steps do to the deliveries.                                                    *)
DeliveryComes(d) ==
  /\ d \in Deliveries \ Given /\ Given' = Given \cup {d} /\ queue' = queue \cup {d}
  /\ UNCHANGED <<worker, sendLog>>

DeliveryRefused(w, d) ==
  /\ d \in queue /\ queue' = queue \ {d} /\ Given' = Given /\ UNCHANGED worker
  /\ \E e : sendLog' = Append(sendLog, e) /\ e.delivery = d /\ e.status # "ok" /\ ~e.tried

DeliveryTaken(w, d) ==
  /\ d \in queue /\ queue' = queue \ {d} /\ Given' = Given /\ UNCHANGED sendLog
  /\ worker[w] = None
  /\ \E v \in Send : /\ v.delivery = d /\ v.step = "ready" /\ v.marked = marked
                     /\ worker' = [worker EXCEPT ![w] = v]

DeliveryTried(w) ==
  /\ worker[w] # None /\ worker[w].step = "ready"
  /\ \E v \in Send : /\ v.delivery = worker[w].delivery /\ v.step = "tried"
                     /\ v.marked = worker[w].marked /\ worker' = [worker EXCEPT ![w] = v]
  /\ Given' = Given /\ UNCHANGED <<queue, sendLog>>

DeliveryLogged(w) ==
  /\ worker[w] # None /\ worker[w].step = "tried" /\ Given' = Given /\ UNCHANGED queue
  /\ \E v \in Send : /\ v.delivery = worker[w].delivery /\ v.step = "logged" /\ v.ok = worker[w].ok
                     /\ v.marked = worker[w].marked /\ worker' = [worker EXCEPT ![w] = v]
  /\ \E e : /\ sendLog' = Append(sendLog, e) /\ e.delivery = worker[w].delivery /\ e.tried
            /\ e.status = IF worker[w].ok THEN "ok" ELSE "fail"

DeliveryLeft(w) ==
  /\ worker[w] # None /\ worker' = [worker EXCEPT ![w] = None] /\ Given' = Given
  /\ UNCHANGED <<queue, sendLog>>

(* Every step is one of these, or changes no delivery.                                     *)
LEMMA DeliverySteps ==
  ASSUME TypeOK, CountInv, [Next]_vars
  PROVE  \/ \E d \in Deliveries : DeliveryComes(d)
         \/ \E w \in Workers, d \in Deliveries :
              Take(w, d) /\ (DeliveryRefused(w, d) \/ DeliveryTaken(w, d))
         \/ \E w \in Workers : \/ send_message(w) /\ DeliveryTried(w)
                               \/ CommitLog(w) /\ DeliveryLogged(w)
                               \/ CommitMark(w) /\ DeliveryLeft(w)
                               \/ WorkerDies(w) /\ DeliveryLeft(w)
         \/ Given' = Given /\ UNCHANGED <<queue, worker, sendLog>>
<1> USE DEF broker, logVars
<1>1. ASSUME NEW t \in Tasks, Enqueue(t), UNCHANGED <<worker, sendLog>>
      PROVE  \E d \in Deliveries : DeliveryComes(d)
  <2>1. DeliveryComes(<<t, 1>>)
    BY <1>1, EnqueueStep DEF DeliveryComes, Enqueue
  <2> QED BY <2>1 DEF DeliveryComes
<1>2. ASSUME NEW t \in Tasks, Redeliver(t) PROVE \E d \in Deliveries : DeliveryComes(d)
  <2>1. DeliveryComes(<<t, given[t] + 1>>)
    BY <1>2, RedeliverStep DEF DeliveryComes, Redeliver
  <2> QED BY <2>1 DEF DeliveryComes
<1>3. ASSUME NEW w \in Workers, NEW d \in Deliveries, Take(w, d)
      PROVE  DeliveryRefused(w, d) \/ DeliveryTaken(w, d)
  <2>1. /\ d \in queue /\ queue' = queue \ {d} /\ Given' = Given /\ worker[w] = None
    BY <1>3 DEF Take, Given
  <2>2. ASSUME NEW status \in {"fail", "account_disconnected"}, NEW b, WriteLog(d, status, b, FALSE),
               UNCHANGED worker
        PROVE  DeliveryRefused(w, d)
    <3>1. PICK e : e = [delivery |-> d, status |-> status, mine |-> b, tried |-> FALSE]
      OBVIOUS
    <3>2. sendLog' = Append(sendLog, e) /\ e.delivery = d /\ e.status # "ok" /\ ~e.tried
      BY <2>2, <3>1 DEF WriteLog
    <3> QED BY <2>1, <2>2, <3>2 DEF DeliveryRefused
  <2>3. ASSUME UNCHANGED sendLog,
               SetWorker(w, [delivery |-> d, step |-> "ready", ok |-> FALSE, marked |-> marked])
        PROVE  DeliveryTaken(w, d)
    <3>1. PICK v : v = [delivery |-> d, step |-> "ready", ok |-> FALSE, marked |-> marked]
      OBVIOUS
    <3>2. v \in Send /\ v.delivery = d /\ v.step = "ready" /\ v.marked = marked
      BY <3>1 DEF Send, TypeOK
    <3> QED BY <2>1, <2>3, <3>1, <3>2 DEF DeliveryTaken, SetWorker
  <2> QED BY <1>3, <2>2, <2>3 DEF Take, send_message_once
<1>4. ASSUME NEW w \in Workers, send_message(w) PROVE DeliveryTried(w)
  <2>1. worker[w] \in Send
    BY <1>4, Busy DEF send_message
  <2>2. PICK ok \in BOOLEAN : worker' = [worker EXCEPT ![w] = [worker[w] EXCEPT !.step = "tried", !.ok = ok]]
    BY <1>4 DEF send_message, SetWorker
  <2>3. PICK v : v = [worker[w] EXCEPT !.step = "tried", !.ok = ok]
    OBVIOUS
  <2>4. /\ v \in Send /\ v.delivery = worker[w].delivery /\ v.step = "tried"
        /\ v.marked = worker[w].marked
    <3>1. ASSUME NEW x \in Send, NEW b \in BOOLEAN
          PROVE  LET y == [x EXCEPT !.step = "tried", !.ok = b] IN
                 y \in Send /\ y.delivery = x.delivery /\ y.step = "tried" /\ y.marked = x.marked
      BY DEF Send
    <3> QED BY <2>1, <2>3, <3>1
  <2> QED BY <1>4, <2>2, <2>3, <2>4 DEF DeliveryTried, send_message, Given
<1>5. ASSUME NEW w \in Workers, CommitLog(w) PROVE DeliveryLogged(w)
  <2>1. worker[w] \in Send
    BY <1>5, Busy DEF CommitLog
  <2>2. PICK v : v = [worker[w] EXCEPT !.step = "logged"]
    OBVIOUS
  <2>3. /\ v \in Send /\ v.delivery = worker[w].delivery /\ v.step = "logged"
        /\ v.ok = worker[w].ok /\ v.marked = worker[w].marked
    <3>1. ASSUME NEW x \in Send
          PROVE  LET y == [x EXCEPT !.step = "logged"] IN
                 y \in Send /\ y.delivery = x.delivery /\ y.step = "logged" /\ y.ok = x.ok /\ y.marked = x.marked
      BY DEF Send
    <3> QED BY <2>1, <2>2, <3>1
  <2>4. PICK e : e = [delivery |-> worker[w].delivery, status |-> IF worker[w].ok THEN "ok" ELSE "fail",
                      mine |-> TRUE, tried |-> TRUE]
    OBVIOUS
  <2>5. /\ sendLog' = Append(sendLog, e) /\ e.delivery = worker[w].delivery /\ e.tried
        /\ e.status = IF worker[w].ok THEN "ok" ELSE "fail"
    BY <1>5, <2>4 DEF CommitLog, WriteLog
  <2> QED BY <1>5, <2>2, <2>3, <2>5 DEF DeliveryLogged, CommitLog, SetWorker, Given
<1>6. ASSUME NEW w \in Workers, CommitMark(w) \/ WorkerDies(w) PROVE DeliveryLeft(w)
  BY <1>6 DEF DeliveryLeft, CommitMark, WorkerDies, SetWorker, Given
<1>7. ASSUME NEW r \in Retriers, DispatchRetry(r) PROVE \E d \in Deliveries : DeliveryComes(d)
  <2>1. PICK t \in Tasks : Enqueue(t)
    BY <1>7 DEF DispatchRetry, TypeOK
  <2> QED BY <1>1, <1>7, <2>1 DEF DispatchRetry
<1>8. ASSUME NEW p \in Presses, Answer(p) \/ \E i \in Rows : Claim(p, i)
      PROVE  UNCHANGED <<given, queue, worker, sendLog>>
  BY <1>8 DEF Answer, CheckPress, SendRetry, Claim
<1>9. ASSUME NEW r \in Retriers, (\E i \in Rows : retry_send(r, i)) \/ RetryDies(r)
      PROVE  UNCHANGED <<given, queue, worker, sendLog>>
  BY <1>9 DEF retry_send, RetryDies
<1>10. CASE (\E i \in Rows : WindowEnds(i)) \/ WebRestarts \/ Edit \/ UNCHANGED vars
  BY <1>10 DEF WindowEnds, WebRestarts, Edit, vars, Given
<1>11. CASE UNCHANGED <<given, queue, worker, sendLog>>
  BY <1>11 DEF Given
<1>12. ASSUME NEW t \in Tasks, Dispatch(t) PROVE \E d \in Deliveries : DeliveryComes(d)
  BY <1>1, <1>12 DEF Dispatch
<1> QED BY <1>2, <1>3, <1>4, <1>5, <1>6, <1>7, <1>8, <1>9, <1>10, <1>11, <1>12 DEF Next, Execute, Retry

(* What a new row changes.                                                                 *)
LEMMA RowStep ==
  ASSUME TypeOK, DeliveryInv, NEW e, sendLog' = Append(sendLog, e), ~Logged(e.delivery), e.delivery \in Given'
  PROVE  /\ \A d : Logged(d)' <=> Logged(d) \/ d = e.delivery
         /\ Given \subseteq Given' => \A i \in DOMAIN sendLog' : sendLog'[i].delivery \in Given'
         /\ \A i, j \in DOMAIN sendLog' : sendLog'[i].delivery = sendLog'[j].delivery => i = j
<1>1. PICK n : /\ DOMAIN sendLog' = DOMAIN sendLog \cup {n} /\ n \notin DOMAIN sendLog
               /\ sendLog'[n] = e /\ \A i \in DOMAIN sendLog : sendLog'[i] = sendLog[i]
  BY AppendRow
<1>2. \A d : Logged(d)' <=> Logged(d) \/ d = e.delivery
  BY <1>1 DEF Logged
<1>3. \A i, j \in DOMAIN sendLog' : sendLog'[i].delivery = sendLog'[j].delivery => i = j
  BY <1>1 DEF DeliveryInv, Logged
<1>4. Given \subseteq Given' => \A i \in DOMAIN sendLog' : sendLog'[i].delivery \in Given'
  BY <1>1 DEF DeliveryInv
<1> QED BY <1>2, <1>3, <1>4

(* A worker that changes: the others have what they had.                                   *)
LEMMA WorkerStep ==
  ASSUME TypeOK, NEW w \in Workers, NEW v, worker' = [worker EXCEPT ![w] = v]
  PROVE  worker'[w] = v /\ \A u \in Workers \ {w} : worker'[u] = worker[u]
BY DEF TypeOK

LEMMA DeliveryInit == Init => DeliveryInv
BY DEF Init, DeliveryInv, Logged

LEMMA DeliveryStep == TypeOK /\ CountInv /\ DeliveryInv /\ [Next]_vars => DeliveryInv'
<1> SUFFICES ASSUME TypeOK, CountInv, DeliveryInv, [Next]_vars PROVE DeliveryInv'
  OBVIOUS
<1>0. \A v \in Send : v # None
  BY TelegramSendAssumption
<1>1. ASSUME NEW d \in Deliveries, DeliveryComes(d) PROVE DeliveryInv'
  <2>1. ~Logged(d) /\ \A e : Logged(e)' <=> Logged(e)
    BY <1>1 DEF DeliveryComes, DeliveryInv, Logged
  <2> QED BY <1>1, <2>1 DEF DeliveryComes, DeliveryInv
<1>2. ASSUME NEW w \in Workers, NEW d \in Deliveries, DeliveryRefused(w, d) PROVE DeliveryInv'
  <2>1. PICK e : sendLog' = Append(sendLog, e) /\ e.delivery = d
    BY <1>2 DEF DeliveryRefused
  <2>2. d \in queue /\ d \in Given' /\ Given' = Given /\ ~Logged(d)
    BY <1>2 DEF DeliveryRefused, CountInv, DeliveryInv
  <2>3. /\ \A c : Logged(c)' <=> Logged(c) \/ c = d
        /\ \A i \in DOMAIN sendLog' : sendLog'[i].delivery \in Given'
        /\ \A i, j \in DOMAIN sendLog' : sendLog'[i].delivery = sendLog'[j].delivery => i = j
    BY <2>1, <2>2, RowStep
  <2> QED BY <1>2, <2>2, <2>3 DEF DeliveryRefused, DeliveryInv
<1>3. ASSUME NEW w \in Workers, NEW d \in Deliveries, DeliveryTaken(w, d) PROVE DeliveryInv'
  <2>1. PICK v \in Send : v.delivery = d /\ v.step = "ready" /\ worker' = [worker EXCEPT ![w] = v]
    BY <1>3 DEF DeliveryTaken
  <2>2. worker'[w] = v /\ \A u \in Workers \ {w} : worker'[u] = worker[u]
    BY <2>1, WorkerStep
  <2>3. d \in queue /\ d \in Given /\ ~Logged(d) /\ \A c : Logged(c)' <=> Logged(c)
    BY <1>3 DEF DeliveryTaken, CountInv, DeliveryInv, Logged
  <2>4. \A u \in Workers \ {w} : worker[u] # None => worker[u].delivery # d
    BY <2>3 DEF DeliveryInv
  <2> QED BY <1>0, <1>3, <2>1, <2>2, <2>3, <2>4 DEF DeliveryTaken, DeliveryInv
<1>4. ASSUME NEW w \in Workers, DeliveryTried(w) PROVE DeliveryInv'
  <2>1. PICK v \in Send : v.delivery = worker[w].delivery /\ v.step = "tried" /\ worker' = [worker EXCEPT ![w] = v]
    BY <1>4 DEF DeliveryTried
  <2>2. worker'[w] = v /\ \A u \in Workers \ {w} : worker'[u] = worker[u]
    BY <2>1, WorkerStep
  <2>3. \A c : Logged(c)' <=> Logged(c)
    BY <1>4 DEF DeliveryTried, Logged
  <2> QED BY <1>0, <1>4, <2>1, <2>2, <2>3 DEF DeliveryTried, DeliveryInv
<1>5. ASSUME NEW w \in Workers, DeliveryLogged(w) PROVE DeliveryInv'
  <2>1. PICK v \in Send : v.delivery = worker[w].delivery /\ v.step = "logged" /\ worker' = [worker EXCEPT ![w] = v]
    BY <1>5 DEF DeliveryLogged
  <2>2. worker'[w] = v /\ \A u \in Workers \ {w} : worker'[u] = worker[u]
    BY <2>1, WorkerStep
  <2>3. PICK e : sendLog' = Append(sendLog, e) /\ e.delivery = worker[w].delivery
    BY <1>5 DEF DeliveryLogged
  <2>4. worker[w] # None /\ ~Logged(worker[w].delivery) /\ worker[w].delivery \in Given /\ Given' = Given
    BY <1>5 DEF DeliveryLogged, DeliveryInv
  <2>5. /\ \A c : Logged(c)' <=> Logged(c) \/ c = worker[w].delivery
        /\ \A i \in DOMAIN sendLog' : sendLog'[i].delivery \in Given'
        /\ \A i, j \in DOMAIN sendLog' : sendLog'[i].delivery = sendLog'[j].delivery => i = j
    BY <2>3, <2>4, RowStep
  <2>6. \A u \in Workers \ {w} : worker[u] # None => worker[u].delivery # worker[w].delivery
    BY <2>4 DEF DeliveryInv
  <2> QED BY <1>0, <1>5, <2>1, <2>2, <2>4, <2>5, <2>6 DEF DeliveryLogged, DeliveryInv
<1>6. ASSUME NEW w \in Workers, DeliveryLeft(w) PROVE DeliveryInv'
  <2>1. worker'[w] = None /\ \A u \in Workers \ {w} : worker'[u] = worker[u]
    BY <1>6, WorkerStep DEF DeliveryLeft
  <2>2. \A c : Logged(c)' <=> Logged(c)
    BY <1>6 DEF DeliveryLeft, Logged
  <2> QED BY <1>6, <2>1, <2>2 DEF DeliveryLeft, DeliveryInv
<1>7. CASE Given' = Given /\ UNCHANGED <<queue, worker, sendLog>>
  BY <1>7 DEF DeliveryInv, Logged
<1> QED BY <1>1, <1>2, <1>3, <1>4, <1>5, <1>6, <1>7, DeliverySteps

-----------------------------------------------------------------------------
(* A delivery is a send of SendOutcome.                                    *)

(* OutcomeOf, from the sets the steps are about.                                           *)
LEMMA OutcomeCases ==
  ASSUME TypeOK, NEW d \in Deliveries
  PROVE  OutcomeOf(d) =
           IF d \notin Given THEN "new"
           ELSE IF Logged(d) THEN IF \E i \in RowOf(d) : sendLog[i].status = "ok" THEN "ok" ELSE "fail"
           ELSE IF d \in queue \/ Held(d) THEN "inflight" ELSE "lost"
<1>1. d[1] \in Tasks /\ d[2] \in Nat /\ given[d[1]] \in Nat
  BY DeliveryIsPair, TelegramSendAssumption DEF TypeOK
<1>2. d[2] > given[d[1]] <=> d \notin Given
  BY <1>1 DEF Given
<1>3. RowOf(d) # {} <=> Logged(d)
  BY DEF RowOf, Logged
<1> QED BY <1>2, <1>3 DEF OutcomeOf, Held

(* And after a step.                                                                       *)
LEMMA OutcomeAfter ==
  ASSUME TypeOK', NEW d \in Deliveries
  PROVE  OutcomeOf(d)' =
           IF d \notin Given' THEN "new"
           ELSE IF Logged(d)' THEN IF \E i \in RowOf(d)' : sendLog'[i].status = "ok" THEN "ok" ELSE "fail"
           ELSE IF d \in queue' \/ Held(d)' THEN "inflight" ELSE "lost"
<1>1. d[1] \in Tasks /\ d[2] \in Nat /\ given'[d[1]] \in Nat
  BY DeliveryIsPair, TelegramSendAssumption DEF TypeOK
<1>2. d[2] > given'[d[1]] <=> d \notin Given'
  BY <1>1 DEF Given
<1>3. RowOf(d)' # {} <=> Logged(d)'
  BY DEF RowOf, Logged
<1> QED BY <1>2, <1>3 DEF OutcomeOf, Held

(* A step that leaves a delivery where it is and its row as it is.                         *)
LEMMA OutcomeSame ==
  ASSUME TypeOK, TypeOK', NEW d \in Deliveries, d \in Given' <=> d \in Given,
         Logged(d)' <=> Logged(d), RowOf(d)' = RowOf(d), \A i \in RowOf(d) : sendLog'[i] = sendLog[i],
         ~Logged(d) => (d \in queue' \/ Held(d)' <=> d \in queue \/ Held(d))
  PROVE  OutcomeOf(d)' = OutcomeOf(d)
BY OutcomeCases, OutcomeAfter

(* A step that changes the outcome of one delivery at most is a step of SendOutcome.       *)
LEMMA OneOutcome ==
  ASSUME NEW d \in Deliveries, \A c \in Deliveries \ {d} : OutcomeOf(c)' = OutcomeOf(c),
         \/ OutcomeOf(d)' = OutcomeOf(d)
         \/ OutcomeOf(d) = "new" /\ OutcomeOf(d)' = "inflight"
         \/ OutcomeOf(d) = "inflight" /\ OutcomeOf(d)' \in {"ok", "fail", "lost"}
  PROVE  [Outcome!Next]_outcome
<1> DEFINE n == [c \in Deliveries |-> OutcomeOf(c)']
<1>a. outcome = [c \in Deliveries |-> OutcomeOf(c)] /\ outcome' = n
  BY DEF outcome
<1>0. \A c \in Deliveries : n[c] = OutcomeOf(c)' /\ outcome[c] = OutcomeOf(c)
  BY <1>a
<1>1. CASE OutcomeOf(d)' = OutcomeOf(d)
  <2>1. n = outcome
    BY <1>a, <1>1
  <2> QED BY <1>0, <1>a, <2>1
<1>2. CASE OutcomeOf(d) = "new" /\ OutcomeOf(d)' = "inflight"
  <2>1. n = [outcome EXCEPT ![d] = "inflight"]
    <3>1. \A c \in Deliveries : n[c] = IF c = d THEN "inflight" ELSE outcome[c]
      BY <1>a, <1>2
    <3>2. [outcome EXCEPT ![d] = "inflight"] = [c \in Deliveries |-> IF c = d THEN "inflight" ELSE outcome[c]]
      BY <1>a
    <3> QED BY <3>1, <3>2
  <2>2. outcome[d] = "new"
    BY <1>a, <1>2
  <2> HIDE DEF n
  <2>3. Outcome!Submit(d)
    BY <1>0, <1>a, <2>1, <2>2 DEF Outcome!Submit
  <2> QED BY <2>3 DEF Outcome!Next
<1>3. CASE OutcomeOf(d) = "inflight" /\ OutcomeOf(d)' \in {"ok", "fail"}
  <2>1. {d} \in SUBSET Outcome!InFlight
    BY <1>0, <1>3 DEF Outcome!InFlight
  <2>2. PICK v : v = [c \in {d} |-> OutcomeOf(d)']
    OBVIOUS
  <2>3. v \in [{d} -> Outcome!Final] /\ v[d] = OutcomeOf(d)'
    BY <1>3, <2>2 DEF Outcome!Final
  <2>4. n = [c \in Deliveries |-> IF c \in {d} THEN v[c] ELSE outcome[c]]
    BY <1>a, <2>3
  <2>5. Outcome!Settle({d})
    <3> HIDE DEF n
    <3> QED BY <1>0, <1>a, <2>3, <2>4 DEF Outcome!Settle
  <2> QED BY <2>1, <2>5 DEF Outcome!Next
<1>4. CASE OutcomeOf(d) = "inflight" /\ OutcomeOf(d)' = "lost"
  <2>1. {d} \in SUBSET Outcome!InFlight
    BY <1>0, <1>4 DEF Outcome!InFlight
  <2>2. n = [c \in Deliveries |-> IF c \in {d} THEN "lost" ELSE outcome[c]]
    BY <1>a, <1>4
  <2>3. Outcome!Lose({d})
    <3> HIDE DEF n
    <3> QED BY <1>0, <1>a, <2>2 DEF Outcome!Lose
  <2> QED BY <2>1, <2>3 DEF Outcome!Next
<1> QED BY <1>1, <1>2, <1>3, <1>4

LEMMA OutcomeInit == Init => Outcome!Init
<1> SUFFICES ASSUME Init PROVE Outcome!Init
  OBVIOUS
<1>1. ASSUME NEW d \in Deliveries PROVE OutcomeOf(d) = "new"
  <2>1. d[1] \in Tasks /\ d[2] > 0
    BY DeliveryIsPair, TelegramSendAssumption
  <2> QED BY <2>1 DEF Init, OutcomeOf
<1> QED BY <1>1 DEF Outcome!Init, outcome

LEMMA OutcomeStep ==
  TypeOK /\ TypeOK' /\ CountInv /\ DeliveryInv /\ DeliveryInv' /\ [Next]_vars
    => [Outcome!Next]_outcome
<1> SUFFICES ASSUME TypeOK, TypeOK', CountInv, DeliveryInv, DeliveryInv', [Next]_vars
             PROVE  [Outcome!Next]_outcome
  OBVIOUS
<1> DEFINE Goal == [Outcome!Next]_outcome
<1>0. (\A v \in Send : v # None) /\ queue \subseteq Deliveries /\ \A d \in queue : d \in Given
  BY TelegramSendAssumption DEF TypeOK, CountInv
<1>a. ASSUME UNCHANGED sendLog, NEW d
      PROVE  /\ Logged(d)' <=> Logged(d)
             /\ RowOf(d)' = RowOf(d) /\ \A i \in RowOf(d) : sendLog'[i] = sendLog[i]
  BY <1>a DEF Logged, RowOf
<1>b. ASSUME NEW e, sendLog' = Append(sendLog, e), ~Logged(e.delivery), e.delivery \in Given'
      PROVE  /\ \A d : Logged(d)' <=> Logged(d) \/ d = e.delivery
             /\ \A d : d # e.delivery =>
                  RowOf(d)' = RowOf(d) /\ \A i \in RowOf(d) : sendLog'[i] = sendLog[i]
             /\ (\E i \in RowOf(e.delivery)' : sendLog'[i].status = "ok") <=> e.status = "ok"
  <2>1. PICK n : /\ DOMAIN sendLog' = DOMAIN sendLog \cup {n} /\ n \notin DOMAIN sendLog
                 /\ sendLog'[n] = e /\ \A i \in DOMAIN sendLog : sendLog'[i] = sendLog[i]
    BY <1>b, AppendRow
  <2>2. \A d : Logged(d)' <=> Logged(d) \/ d = e.delivery
    BY <1>b, RowStep
  <2>3. RowOf(e.delivery)' = {n}
    BY <1>b, <2>1 DEF RowOf, Logged
  <2> QED BY <2>1, <2>2, <2>3 DEF RowOf
<1>1. ASSUME NEW d \in Deliveries, DeliveryComes(d) PROVE Goal
  <2>1. ~Logged(d) /\ \A c : Held(c)' <=> Held(c)
    BY <1>1 DEF DeliveryComes, DeliveryInv, Logged, Held
  <2>2. \A c \in Deliveries \ {d} : OutcomeOf(c)' = OutcomeOf(c)
    BY <1>1, <1>a, <2>1, OutcomeSame DEF DeliveryComes
  <2>3. OutcomeOf(d) = "new"
    BY <1>1, OutcomeCases DEF DeliveryComes
  <2>4. OutcomeOf(d)' = "inflight"
    BY <1>1, <1>a, <2>1, OutcomeAfter DEF DeliveryComes
  <2> QED BY <2>2, <2>3, <2>4, OneOutcome
<1>2. ASSUME NEW w \in Workers, NEW d \in Deliveries, DeliveryRefused(w, d) PROVE Goal
  <2>1. PICK e : sendLog' = Append(sendLog, e) /\ e.delivery = d /\ e.status # "ok"
    BY <1>2 DEF DeliveryRefused
  <2>2. d \in queue /\ d \in Given /\ Given' = Given /\ ~Logged(d) /\ queue' = queue \ {d}
    BY <1>0, <1>2 DEF DeliveryRefused, DeliveryInv
  <2>3. \A c : Held(c)' <=> Held(c)
    BY <1>2 DEF DeliveryRefused, Held
  <2>4. \A c \in Deliveries \ {d} : OutcomeOf(c)' = OutcomeOf(c)
    BY <1>b, <2>1, <2>2, <2>3, OutcomeSame
  <2>5. OutcomeOf(d) = "inflight"
    BY <2>2, OutcomeCases
  <2>6. OutcomeOf(d)' = "fail"
    BY <1>b, <2>1, <2>2, OutcomeAfter
  <2> QED BY <2>4, <2>5, <2>6, OneOutcome
<1>3. ASSUME NEW w \in Workers, NEW d \in Deliveries, DeliveryTaken(w, d) PROVE Goal
  <2>1. PICK v \in Send : v.delivery = d /\ worker' = [worker EXCEPT ![w] = v]
    BY <1>3 DEF DeliveryTaken
  <2>2. worker'[w] = v /\ worker[w] = None /\ \A u \in Workers \ {w} : worker'[u] = worker[u]
    BY <1>3, <2>1, WorkerStep DEF DeliveryTaken
  <2>3. \A c : Held(c)' <=> Held(c) \/ c = d
    BY <1>0, <2>1, <2>2 DEF Held
  <2>4. d \in queue /\ queue' = queue \ {d} /\ Given' = Given /\ UNCHANGED sendLog
    BY <1>3 DEF DeliveryTaken
  <2>5. \A c \in Deliveries : OutcomeOf(c)' = OutcomeOf(c)
    BY <1>a, <2>3, <2>4, OutcomeSame
  <2> QED BY <2>5, OneOutcome
<1>4. ASSUME NEW w \in Workers, DeliveryTried(w) PROVE Goal
  <2>1. PICK v \in Send : v.delivery = worker[w].delivery /\ worker' = [worker EXCEPT ![w] = v]
    BY <1>4 DEF DeliveryTried
  <2>2. worker'[w] = v /\ worker[w] # None /\ \A u \in Workers \ {w} : worker'[u] = worker[u]
    BY <1>4, <2>1, WorkerStep DEF DeliveryTried
  <2>3. \A c : Held(c)' <=> Held(c)
    BY <1>0, <2>1, <2>2 DEF Held
  <2>4. Given' = Given /\ UNCHANGED <<queue, sendLog>>
    BY <1>4 DEF DeliveryTried
  <2>5. \A c \in Deliveries : OutcomeOf(c)' = OutcomeOf(c)
    BY <1>a, <2>3, <2>4, OutcomeSame
  <2>6. worker[w].delivery \in Deliveries
    BY <2>2, Busy, SendTypes
  <2> QED BY <2>5, <2>6, OneOutcome
<1>5. ASSUME NEW w \in Workers, DeliveryLogged(w) PROVE Goal
  <2>0. PICK d \in Deliveries : d = worker[w].delivery
    BY <1>5, Busy, SendTypes DEF DeliveryLogged
  <2>1. PICK v \in Send : v.delivery = d /\ worker' = [worker EXCEPT ![w] = v]
    BY <1>5, <2>0 DEF DeliveryLogged
  <2>2. worker'[w] = v /\ worker[w] # None /\ \A u \in Workers \ {w} : worker'[u] = worker[u]
    BY <1>5, <2>1, WorkerStep DEF DeliveryLogged
  <2>3. PICK e : sendLog' = Append(sendLog, e) /\ e.delivery = d
                 /\ e.status = IF worker[w].ok THEN "ok" ELSE "fail"
    BY <1>5, <2>0 DEF DeliveryLogged
  <2>4. d \in Given /\ Given' = Given /\ ~Logged(d) /\ UNCHANGED queue
    BY <1>5, <2>0, <2>2 DEF DeliveryLogged, DeliveryInv
  <2>5. Held(d) /\ \A c : Held(c)' <=> Held(c)
    BY <1>0, <2>0, <2>1, <2>2 DEF Held
  <2>6. \A c \in Deliveries \ {d} : OutcomeOf(c)' = OutcomeOf(c)
    BY <1>b, <2>3, <2>4, <2>5, OutcomeSame
  <2>7. OutcomeOf(d) = "inflight"
    BY <2>4, <2>5, OutcomeCases
  <2>8. OutcomeOf(d)' \in {"ok", "fail"}
    BY <1>b, <2>3, <2>4, OutcomeAfter
  <2> QED BY <2>6, <2>7, <2>8, OneOutcome
<1>6. ASSUME NEW w \in Workers, DeliveryLeft(w) PROVE Goal
  <2>0. PICK d \in Deliveries : d = worker[w].delivery
    BY <1>6, Busy, SendTypes DEF DeliveryLeft
  <2>1. worker'[w] = None /\ worker[w] # None /\ \A u \in Workers \ {w} : worker'[u] = worker[u]
    BY <1>6, WorkerStep DEF DeliveryLeft
  <2>2. d \in Given /\ d \notin queue /\ Given' = Given /\ UNCHANGED <<queue, sendLog>>
    BY <1>6, <2>0 DEF DeliveryLeft, DeliveryInv
  <2>3. Held(d) /\ \A c : c # d => (Held(c)' <=> Held(c))
    BY <2>0, <2>1 DEF Held
  <2>4. ~Held(d)'
    BY <2>0, <2>1 DEF Held, DeliveryInv
  <2>5. \A c \in Deliveries \ {d} : OutcomeOf(c)' = OutcomeOf(c)
    BY <1>a, <2>2, <2>3, OutcomeSame
  <2>6. CASE Logged(d)
    <3>1. OutcomeOf(d)' = OutcomeOf(d)
      BY <1>a, <2>2, <2>6, OutcomeSame
    <3> QED BY <2>5, <3>1, OneOutcome
  <2>7. CASE ~Logged(d)
    <3>1. OutcomeOf(d) = "inflight"
      BY <2>2, <2>3, <2>7, OutcomeCases
    <3>2. OutcomeOf(d)' = "lost"
      BY <1>a, <2>2, <2>4, <2>7, OutcomeAfter
    <3> QED BY <2>5, <3>1, <3>2, OneOutcome
  <2> QED BY <2>6, <2>7
<1>7. CASE Given' = Given /\ UNCHANGED <<queue, worker, sendLog>>
  <2>1. \A c : Held(c)' <=> Held(c)
    BY <1>7 DEF Held
  <2>2. \A c \in Deliveries : OutcomeOf(c)' = OutcomeOf(c)
    BY <1>7, <1>a, <2>1, OutcomeSame
  <2>3. outcome' = outcome
    BY <2>2 DEF outcome
  <2> QED BY <2>3
<1> QED BY <1>1, <1>2, <1>3, <1>4, <1>5, <1>6, <1>7, DeliverySteps

(* Every delivery of a message is one send of SendOutcome: it ends with one verdict, for   *)
(* good, or is lost for good, whichever processes die and however often a message is       *)
(* delivered again.                                                                        *)
THEOREM ImplementsSendOutcomeHolds == Spec => ImplementsSendOutcome
<1>1. Init => TypeOK /\ CountInv /\ DeliveryInv
  BY TypeInit, DeliveryInit
<1>2. (TypeOK /\ CountInv /\ DeliveryInv) /\ [Next]_vars => (TypeOK /\ CountInv /\ DeliveryInv)'
  BY TypeStep, CountStep, DeliveryStep
<1>3. Init => Outcome!Init
  BY OutcomeInit
<1>4. (TypeOK /\ CountInv /\ DeliveryInv) /\ (TypeOK /\ CountInv /\ DeliveryInv)' /\ [Next]_vars
        => [Outcome!Next]_outcome
  BY OutcomeStep
<1> QED BY <1>1, <1>2, <1>3, <1>4, PTL DEF Spec, ImplementsSendOutcome, Outcome!Spec

-----------------------------------------------------------------------------
(* The mark of the group.                                                  *)

Calm == ~overlapped /\ failures = 0 /\ group # "gone"

(* While sends do not overlap and none dies there is one send at most, it has loaded the   *)
(* mark the group still has, and once its row is written the row is the newest call.       *)
MarkInv ==
  Calm =>
    /\ \A v, w \in Workers : worker[v] # None /\ worker[w] # None => v = w
    /\ \A w \in Workers : worker[w] # None =>
         /\ worker[w].marked = marked
         /\ worker[w].step = "logged" => (LastFailed <=> ~worker[w].ok)
    /\ (\A w \in Workers : worker[w] # None => worker[w].step # "logged") => (marked <=> LastFailed)

(* Calm does not come back, and only a second commit of a send changes the mark.           *)
LEMMA CalmStep ==
  ASSUME TypeOK, [Next]_vars, Calm'
  PROVE  /\ Calm /\ failures' = failures
         /\ \A w \in Workers : ~WorkerDies(w)
         /\ (\A w \in Workers : ~CommitMark(w)) => UNCHANGED marked
         /\ \A w \in Workers, d \in Deliveries :
              Take(w, d) => \A v \in Workers \ {w} : worker[v] = None
<1> USE DEF world, logVars
<1>0. failures \in Nat /\ overlapped \in BOOLEAN /\ marked \in BOOLEAN
  BY DEF TypeOK
<1>1. ASSUME NEW w \in Workers, WorkerDies(w) PROVE FALSE
  BY <1>0, <1>1 DEF WorkerDies, Calm
<1>2. ASSUME NEW w \in Workers, NEW d \in Deliveries, Take(w, d)
      PROVE  /\ Calm /\ failures' = failures /\ UNCHANGED marked
             /\ \A v \in Workers \ {w} : worker[v] = None
  BY <1>0, <1>2 DEF Take, Calm
<1>3. ASSUME NEW w \in Workers, send_message(w) \/ CommitLog(w)
      PROVE  Calm /\ failures' = failures /\ UNCHANGED marked
  <2>1. UNCHANGED <<world, overlapped, marked>> /\ failures' \in {failures, failures + 1}
    BY <1>3 DEF send_message, CommitLog
  <2> QED BY <1>0, <2>1 DEF Calm
<1>4. ASSUME NEW w \in Workers, CommitMark(w) PROVE Calm /\ failures' = failures
  BY <1>4 DEF CommitMark, Calm
<1>5. ASSUME NEW t \in Tasks, Dispatch(t) \/ Redeliver(t)
      PROVE  Calm /\ failures' = failures /\ UNCHANGED marked
  BY <1>5 DEF Dispatch, Redeliver, Calm
<1>6. ASSUME NEW p \in Presses, Answer(p) \/ \E i \in Rows : Claim(p, i)
      PROVE  Calm /\ failures' = failures /\ UNCHANGED marked
  <2>1. UNCHANGED <<world, overlapped, marked>> /\ failures' \in {failures, failures + 1}
    BY <1>6 DEF Answer, CheckPress, SendRetry, Claim
  <2> QED BY <1>0, <2>1 DEF Calm
<1>7. ASSUME NEW r \in Retriers, Retry(r) \/ RetryDies(r)
      PROVE  Calm /\ failures' = failures /\ UNCHANGED marked
  BY <1>0, <1>7 DEF Retry, retry_send, DispatchRetry, RetryDies, Calm
<1>8. ASSUME Edit PROVE Calm /\ failures' = failures /\ UNCHANGED marked
  <2>1. group # "gone" /\ group' # "gone" /\ UNCHANGED <<overlapped, failures>>
    BY <1>8 DEF Edit, Calm
  <2>2. marked' = (marked /\ group' # "gone")
    BY <1>8 DEF Edit
  <2>3. marked' = marked
    BY <1>0, <2>1, <2>2
  <2> QED BY <2>1, <2>3 DEF Calm
<1>9. ASSUME (\E i \in Rows : WindowEnds(i)) \/ WebRestarts \/ UNCHANGED vars
      PROVE  Calm /\ failures' = failures /\ UNCHANGED marked
  <2>1. UNCHANGED <<world, overlapped, marked>> /\ failures' \in {failures, failures + 1}
    BY <1>9 DEF WindowEnds, WebRestarts, vars
  <2> QED BY <1>0, <2>1 DEF Calm
<1> QED BY <1>1, <1>2, <1>3, <1>4, <1>5, <1>6, <1>7, <1>8, <1>9 DEF Next, Execute

(* A new row decides whether the last call failed, if it is about a call.                  *)
LEMMA LastFailedStep ==
  ASSUME TypeOK, NEW e, sendLog' = Append(sendLog, e)
  PROVE  /\ e.tried => (LastFailed' <=> e.status = "fail")
         /\ ~e.tried => (LastFailed' <=> LastFailed)
<1>1. PICK n : /\ n = Len(sendLog) + 1 /\ DOMAIN sendLog \subseteq 1 .. Len(sendLog) /\ Len(sendLog) \in Nat
               /\ DOMAIN sendLog' = DOMAIN sendLog \cup {n} /\ n \notin DOMAIN sendLog
               /\ sendLog'[n] = e /\ \A i \in DOMAIN sendLog : sendLog'[i] = sendLog[i]
  BY AppendRow
<1>2. \A i \in DOMAIN sendLog : n > i /\ ~(i > n)
  BY <1>1
<1>3. ~(n > n)
  BY <1>1
<1> QED BY <1>1, <1>2, <1>3 DEF LastFailed

LEMMA MarkInit == Init => MarkInv
BY DEF Init, MarkInv, LastFailed

LEMMA MarkStep == TypeOK /\ CountInv /\ MarkInv /\ [Next]_vars => MarkInv'
<1> SUFFICES ASSUME TypeOK, CountInv, MarkInv, [Next]_vars, Calm' PROVE MarkInv'
  BY DEF MarkInv
<1>0. /\ Calm /\ failures' = failures /\ (\A v \in Send : v # None) /\ marked \in BOOLEAN
      /\ \A w \in Workers : ~WorkerDies(w)
      /\ (\A w \in Workers : ~CommitMark(w)) => UNCHANGED marked
  BY CalmStep, TelegramSendAssumption DEF TypeOK
<1>1. \A v, w \in Workers : worker[v] # None /\ worker[w] # None => v = w
  BY <1>0 DEF MarkInv
<1>2. \A w \in Workers : worker[w] # None =>
        /\ worker[w].marked = marked
        /\ worker[w].step = "logged" => (LastFailed <=> ~worker[w].ok)
  BY <1>0 DEF MarkInv
<1>3. (\A w \in Workers : worker[w] # None => worker[w].step # "logged") => (marked <=> LastFailed)
  BY <1>0 DEF MarkInv
<1> HIDE DEF Calm
<1>s. ASSUME UNCHANGED sendLog PROVE LastFailed' <=> LastFailed
  BY <1>s DEF LastFailed
<1>4. ASSUME NEW w \in Workers, NEW d \in Deliveries, Take(w, d), DeliveryRefused(w, d) \/ DeliveryTaken(w, d)
      PROVE  MarkInv'
  <2>1. (\A v \in Workers \ {w} : worker[v] = None) /\ worker[w] = None /\ UNCHANGED marked
    BY <1>4, CalmStep DEF Take, logVars
  <2>2. marked <=> LastFailed
    BY <1>3, <2>1
  <2>3. CASE DeliveryRefused(w, d)
    <3>1. LastFailed' <=> LastFailed
      BY <2>3, LastFailedStep DEF DeliveryRefused
    <3> QED BY <2>1, <2>2, <2>3, <3>1 DEF DeliveryRefused, MarkInv
  <2>4. CASE DeliveryTaken(w, d)
    <3>1. PICK v \in Send : v.step = "ready" /\ v.marked = marked /\ worker' = [worker EXCEPT ![w] = v]
      BY <2>4 DEF DeliveryTaken
    <3>2. worker'[w] = v /\ \A u \in Workers \ {w} : worker'[u] = worker[u]
      BY <3>1, WorkerStep
    <3>3. LastFailed' <=> LastFailed
      BY <1>s, <2>4 DEF DeliveryTaken
    <3> QED BY <1>0, <2>1, <2>2, <3>1, <3>2, <3>3 DEF MarkInv
  <2> QED BY <1>4, <2>3, <2>4
<1>5. ASSUME NEW w \in Workers, send_message(w), DeliveryTried(w) PROVE MarkInv'
  <2>1. PICK v \in Send : v.step = "tried" /\ v.marked = worker[w].marked /\ worker' = [worker EXCEPT ![w] = v]
    BY <1>5 DEF DeliveryTried
  <2>2. worker'[w] = v /\ \A u \in Workers \ {w} : worker'[u] = worker[u]
    BY <2>1, WorkerStep
  <2>3. worker[w] # None /\ worker[w].step = "ready" /\ UNCHANGED sendLog /\ (LastFailed' <=> LastFailed)
    BY <1>s, <1>5 DEF DeliveryTried
  <2>4. UNCHANGED marked
    BY <1>5 DEF send_message
  <2> QED BY <1>0, <1>1, <1>2, <1>3, <2>1, <2>2, <2>3, <2>4 DEF MarkInv
<1>6. ASSUME NEW w \in Workers, CommitLog(w), DeliveryLogged(w) PROVE MarkInv'
  <2>1. PICK v \in Send : /\ v.step = "logged" /\ v.ok = worker[w].ok /\ v.marked = worker[w].marked
                          /\ worker' = [worker EXCEPT ![w] = v]
    BY <1>6 DEF DeliveryLogged
  <2>2. worker'[w] = v /\ \A u \in Workers \ {w} : worker'[u] = worker[u]
    BY <2>1, WorkerStep
  <2>3. PICK e : sendLog' = Append(sendLog, e) /\ e.tried /\ e.status = IF worker[w].ok THEN "ok" ELSE "fail"
    BY <1>6 DEF DeliveryLogged
  <2>4. LastFailed' <=> ~worker[w].ok
    BY <2>3, LastFailedStep
  <2>5. UNCHANGED marked /\ worker[w] # None
    BY <1>6 DEF CommitLog
  <2>6. \A u \in Workers \ {w} : worker[u] = None
    BY <1>1, <2>5
  <2> QED BY <1>0, <1>2, <2>1, <2>2, <2>4, <2>5, <2>6 DEF MarkInv
<1>7. ASSUME NEW w \in Workers, CommitMark(w), DeliveryLeft(w) PROVE MarkInv'
  <2>1. worker[w] \in Send /\ worker[w] # None /\ worker[w].step = "logged"
    BY <1>7, Busy DEF CommitMark
  <2>2. \A u \in Workers : worker'[u] = None
    BY <1>1, <1>7, <2>1, WorkerStep DEF DeliveryLeft
  <2>3. group # "gone" /\ worker[w].marked = marked /\ (LastFailed <=> ~worker[w].ok)
    BY <1>0, <1>2, <2>1 DEF Calm
  <2>4. marked' <=> ~worker[w].ok
    BY <1>7, <2>3, <1>0 DEF CommitMark
  <2>5. LastFailed' <=> LastFailed
    BY <1>s, <1>7 DEF DeliveryLeft
  <2> QED BY <2>2, <2>3, <2>4, <2>5 DEF MarkInv
<1>8. ASSUME \/ \E d \in Deliveries : DeliveryComes(d)
             \/ Given' = Given /\ UNCHANGED <<queue, worker, sendLog>>
      PROVE  MarkInv'
  <2>1. UNCHANGED <<worker, sendLog>> /\ (LastFailed' <=> LastFailed)
    BY <1>s, <1>8 DEF DeliveryComes
  <2>2. ASSUME NEW w \in Workers, CommitMark(w) PROVE FALSE
    <3>1. worker'[w] = None
      BY <2>2 DEF CommitMark, SetWorker, TypeOK
    <3> QED BY <2>1, <2>2, <3>1 DEF CommitMark
  <2> QED BY <1>0, <1>1, <1>2, <1>3, <2>1, <2>2 DEF MarkInv
<1>9. \A w \in Workers : ~WorkerDies(w)
  BY <1>0
<1> HIDE DEF MarkInv
<1>10. CASE \E w \in Workers, d \in Deliveries : Take(w, d) /\ (DeliveryRefused(w, d) \/ DeliveryTaken(w, d))
  BY <1>4, <1>10
<1>11. CASE \E w \in Workers : \/ send_message(w) /\ DeliveryTried(w)
                               \/ CommitLog(w) /\ DeliveryLogged(w)
                               \/ CommitMark(w) /\ DeliveryLeft(w)
                               \/ WorkerDies(w) /\ DeliveryLeft(w)
  BY <1>5, <1>6, <1>7, <1>9, <1>11
<1>12. CASE \E d \in Deliveries : DeliveryComes(d)
  BY <1>8, <1>12
<1>13. CASE Given' = Given /\ UNCHANGED <<queue, worker, sendLog>>
  BY <1>8, <1>13
<1> QED BY <1>10, <1>11, <1>12, <1>13, DeliverySteps

(* send_message_once: while sends to the group do not overlap and none dies, the group     *)
(* shows an error exactly when the last call of the messenger in its history failed.       *)
THEOREM MarkFollowsHistoryHolds == Spec => []MarkFollowsHistory
<1>1. Init => TypeOK /\ CountInv /\ MarkInv
  BY TypeInit, MarkInit
<1>2. (TypeOK /\ CountInv /\ MarkInv) /\ [Next]_vars => (TypeOK /\ CountInv /\ MarkInv)'
  BY TypeStep, CountStep, MarkStep
<1>3. MarkInv => MarkFollowsHistory
  BY DEF MarkInv, MarkFollowsHistory, Calm
<1> QED BY <1>1, <1>2, <1>3, PTL DEF Spec

=============================================================================
