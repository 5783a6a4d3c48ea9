------------------------- MODULE SendPipelineProofs -------------------------
(***************************************************************************)
(* Theorems about SendPipeline, for any tasks, accounts, fleets, managers, *)
(* processors, batch and bounds.                                           *)
(***************************************************************************)
EXTENDS SendPipeline, SequenceTheorems, WellFoundedInduction, TLAPS

-----------------------------------------------------------------------------
(* Sequences of sends.                                                     *)

HasTask(s, t) == \E n \in DOMAIN s : s[n].task = t

Once(s) == \A m, n \in DOMAIN s : s[m].task = s[n].task => m = n

LEMMA LeastNat ==
  ASSUME NEW I, I \subseteq Nat, I # {}
  PROVE  \E x \in I : \A y \in I : x <= y
<1>1. \E x \in I : \A y \in I : <<y, x>> \notin OpToRel(<, Nat)
  BY NatLessThanWellFounded, WFMin
<1>2. \A x, y \in I : <<y, x>> \notin OpToRel(<, Nat) => x <= y
  BY DEF OpToRel
<1> QED BY <1>1, <1>2

LEMMA TailOf ==
  ASSUME NEW S, NEW s \in Seq(S), s # <<>>
  PROVE  /\ Head(s) \in S /\ Tail(s) \in Seq(S) /\ HasTask(s, Head(s).task) /\ Head(s) \in Range(s)
         /\ Range(Tail(s)) \subseteq Range(s)
         /\ Once(s) => /\ Once(Tail(s))
                       /\ \A t : HasTask(Tail(s), t) <=> HasTask(s, t) /\ t # Head(s).task
<1>1. /\ Head(s) \in S /\ Tail(s) \in Seq(S) /\ Len(Tail(s)) = Len(s) - 1
      /\ \A i \in 1 .. Len(Tail(s)) : Tail(s)[i] = s[i + 1]
  BY HeadTailProperties
<1>2. DOMAIN s = 1 .. Len(s) /\ DOMAIN Tail(s) = 1 .. Len(s) - 1 /\ Len(s) \in Nat /\ Len(s) > 0
  BY <1>1
<1>3. Head(s) = s[1] /\ 1 \in DOMAIN s
  BY <1>2
<1>4. \A i \in DOMAIN Tail(s) : i + 1 \in DOMAIN s /\ Tail(s)[i] = s[i + 1]
  BY <1>1, <1>2
<1>5. Range(Tail(s)) \subseteq Range(s)
  BY <1>4 DEF Range
<1>6. ASSUME Once(s)
      PROVE  Once(Tail(s)) /\ \A t : HasTask(Tail(s), t) <=> HasTask(s, t) /\ t # Head(s).task
  <2>1. Once(Tail(s))
    <3> SUFFICES ASSUME NEW m \in DOMAIN Tail(s), NEW n \in DOMAIN Tail(s), Tail(s)[m].task = Tail(s)[n].task
                 PROVE  m = n
      BY DEF Once
    <3>1. m + 1 = n + 1
      BY <1>4, <1>6 DEF Once
    <3> QED BY <1>2, <3>1
  <2>2. ASSUME NEW t PROVE HasTask(Tail(s), t) <=> HasTask(s, t) /\ t # Head(s).task
    <3>1. ASSUME NEW n \in DOMAIN Tail(s), Tail(s)[n].task = t PROVE HasTask(s, t) /\ t # Head(s).task
      <4>1. n + 1 \in DOMAIN s /\ s[n + 1].task = t /\ n + 1 # 1
        BY <1>2, <1>4, <3>1
      <4> QED BY <1>3, <1>6, <4>1 DEF HasTask, Once
    <3>2. ASSUME NEW n \in DOMAIN s, s[n].task = t, t # Head(s).task PROVE HasTask(Tail(s), t)
      <4>1. n # 1
        BY <1>3, <3>2
      <4>2. n - 1 \in DOMAIN Tail(s) /\ (n - 1) + 1 = n
        BY <1>2, <4>1
      <4>3. Tail(s)[n - 1] = s[n]
        BY <1>4, <4>2
      <4> QED BY <3>2, <4>2, <4>3 DEF HasTask
    <3> QED BY <3>1, <3>2 DEF HasTask
  <2> QED BY <2>1, <2>2
<1> QED BY <1>1, <1>3, <1>5, <1>6 DEF HasTask, Range

LEMMA ConcatOf ==
  ASSUME NEW S, NEW s \in Seq(S), NEW u \in Seq(S)
  PROVE  /\ s \o u \in Seq(S) /\ Range(s \o u) = Range(s) \cup Range(u)
         /\ \A t : HasTask(s \o u, t) <=> HasTask(s, t) \/ HasTask(u, t)
         /\ Once(s) /\ Once(u) /\ (\A t : ~(HasTask(s, t) /\ HasTask(u, t))) => Once(s \o u)
<1>1. /\ s \o u \in Seq(S) /\ Len(s \o u) = Len(s) + Len(u)
      /\ \A i \in 1 .. Len(s) + Len(u) : (s \o u)[i] = IF i <= Len(s) THEN s[i] ELSE u[i - Len(s)]
  BY ConcatProperties
<1>2. /\ DOMAIN s = 1 .. Len(s) /\ DOMAIN u = 1 .. Len(u) /\ DOMAIN (s \o u) = 1 .. Len(s) + Len(u)
      /\ Len(s) \in Nat /\ Len(u) \in Nat
  BY <1>1
<1>3. \A i \in DOMAIN s : i \in DOMAIN (s \o u) /\ (s \o u)[i] = s[i]
  BY <1>1, <1>2
<1>4. \A i \in DOMAIN u : i + Len(s) \in DOMAIN (s \o u) /\ (s \o u)[i + Len(s)] = u[i]
  <2> SUFFICES ASSUME NEW i \in DOMAIN u
               PROVE  i + Len(s) \in DOMAIN (s \o u) /\ (s \o u)[i + Len(s)] = u[i]
    OBVIOUS
  <2>1. i + Len(s) \in 1 .. Len(s) + Len(u) /\ ~(i + Len(s) <= Len(s)) /\ (i + Len(s)) - Len(s) = i
    BY <1>2
  <2> QED BY <1>1, <1>2, <2>1
<1>5. \A i \in DOMAIN (s \o u) :
        \/ i \in DOMAIN s /\ (s \o u)[i] = s[i]
        \/ i - Len(s) \in DOMAIN u /\ (s \o u)[i] = u[i - Len(s)]
  BY <1>1, <1>2
<1>6. Range(s \o u) = Range(s) \cup Range(u)
  <2>1. \A e \in Range(s) : e \in Range(s \o u)
    BY <1>3 DEF Range
  <2>2. \A e \in Range(u) : e \in Range(s \o u)
    BY <1>4 DEF Range
  <2>3. \A e \in Range(s \o u) : e \in Range(s) \cup Range(u)
    BY <1>5 DEF Range
  <2> QED BY <2>1, <2>2, <2>3
<1>7. \A t : HasTask(s \o u, t) <=> HasTask(s, t) \/ HasTask(u, t)
  <2> TAKE t
  <2>1. HasTask(s, t) => HasTask(s \o u, t)
    BY <1>3 DEF HasTask
  <2>2. HasTask(u, t) => HasTask(s \o u, t)
    BY <1>4 DEF HasTask
  <2>3. HasTask(s \o u, t) => HasTask(s, t) \/ HasTask(u, t)
    BY <1>5 DEF HasTask
  <2> QED BY <2>1, <2>2, <2>3
<1>8. ASSUME Once(s), Once(u), \A t : ~(HasTask(s, t) /\ HasTask(u, t)) PROVE Once(s \o u)
  <2> SUFFICES ASSUME NEW i \in DOMAIN (s \o u), NEW j \in DOMAIN (s \o u), (s \o u)[i].task = (s \o u)[j].task
               PROVE  i = j
    BY DEF Once
  <2>1. CASE i \in DOMAIN s /\ (s \o u)[i] = s[i] /\ j \in DOMAIN s /\ (s \o u)[j] = s[j]
    BY <1>8, <2>1 DEF Once
  <2>2. CASE i - Len(s) \in DOMAIN u /\ (s \o u)[i] = u[i - Len(s)] /\ j - Len(s) \in DOMAIN u /\ (s \o u)[j] = u[j - Len(s)]
    <3>1. i - Len(s) = j - Len(s)
      BY <1>8, <2>2 DEF Once
    <3> QED BY <1>2, <3>1
  <2>3. ~(i \in DOMAIN s /\ (s \o u)[i] = s[i] /\ j - Len(s) \in DOMAIN u /\ (s \o u)[j] = u[j - Len(s)])
    BY <1>8 DEF HasTask
  <2>4. ~(j \in DOMAIN s /\ (s \o u)[j] = s[j] /\ i - Len(s) \in DOMAIN u /\ (s \o u)[i] = u[i - Len(s)])
    BY <1>8 DEF HasTask
  <2> QED BY <1>5, <2>1, <2>2, <2>3, <2>4
<1> QED BY <1>1, <1>6, <1>7, <1>8

LEMMA AppendOf ==
  ASSUME NEW S, NEW s \in Seq(S), NEW e \in S
  PROVE  /\ Append(s, e) \in Seq(S) /\ Range(Append(s, e)) = Range(s) \cup {e}
         /\ \A t : HasTask(Append(s, e), t) <=> HasTask(s, t) \/ t = e.task
         /\ Once(s) /\ ~HasTask(s, e.task) => Once(Append(s, e))
<1>1. Append(s, e) = s \o <<e>> /\ <<e>> \in Seq(S)
  BY AppendIsConcat
<1>2. DOMAIN <<e>> = {1} /\ <<e>>[1] = e
  OBVIOUS
<1>3. Range(<<e>>) = {e} /\ Once(<<e>>) /\ \A t : HasTask(<<e>>, t) <=> t = e.task
  BY <1>2 DEF Range, Once, HasTask
<1>4. /\ s \o <<e>> \in Seq(S) /\ Range(s \o <<e>>) = Range(s) \cup Range(<<e>>)
      /\ \A t : HasTask(s \o <<e>>, t) <=> HasTask(s, t) \/ HasTask(<<e>>, t)
      /\ Once(s) /\ Once(<<e>>) /\ (\A t : ~(HasTask(s, t) /\ HasTask(<<e>>, t))) => Once(s \o <<e>>)
  BY <1>1, ConcatOf
<1> QED BY <1>1, <1>3, <1>4

LEMMA RemoveOf ==
  ASSUME NEW S, NEW s \in Seq(S), NEW e \in Range(s)
  PROVE  /\ RemoveFirst(s, e) \in Seq(S) /\ Range(RemoveFirst(s, e)) \subseteq Range(s)
         /\ Once(s) => /\ Once(RemoveFirst(s, e))
                       /\ \A t : HasTask(RemoveFirst(s, e), t) <=> HasTask(s, t) /\ t # e.task
<1>0. DOMAIN s = 1 .. Len(s) /\ Len(s) \in Nat
  OBVIOUS
<1>1. PICK k \in 1 .. Len(s) : s[k] = e /\ RemoveFirst(s, e) = RemoveAt(s, k)
  <2> DEFINE I == {i \in 1 .. Len(s) : s[i] = e}
  <2>1. I # {} /\ I \subseteq Nat
    BY <1>0 DEF Range
  <2>2. \E x \in I : \A y \in I : x <= y
    BY <2>1, LeastNat
  <2>3. Min(I) \in I
    BY <2>1, <2>2 DEF Min
  <2>4. RemoveFirst(s, e) = RemoveAt(s, Min(I))
    BY <2>1 DEF RemoveFirst, SelectInSeq
  <2> QED BY <2>3, <2>4
<1> DEFINE r == RemoveFirst(s, e)
           p == SubSeq(s, 1, k - 1)
           q == SubSeq(s, k + 1, Len(s))
           f(i) == IF i < k THEN i ELSE i + 1
<1>2. /\ p \in Seq(S) /\ Len(p) = k - 1
      /\ \A i \in 1 .. k - 1 : p[i] = s[i]
  <2>1. \A i \in 1 .. k - 1 : s[i] \in S
    BY <1>0
  <2>2. 1 \in Int /\ k - 1 \in Int
    BY <1>0
  <2>3. /\ p \in Seq(S) /\ Len(p) = IF 1 <= k - 1 THEN (k - 1) - 1 + 1 ELSE 0
        /\ \A i \in 1 .. (k - 1) - 1 + 1 : p[i] = s[1 + i - 1]
    BY <2>1, <2>2, SubSeqProperties
  <2> QED BY <1>0, <2>3
<1>3. /\ q \in Seq(S) /\ Len(q) = Len(s) - k
      /\ \A i \in 1 .. Len(s) - k : q[i] = s[k + i]
  <2>1. \A i \in k + 1 .. Len(s) : s[i] \in S
    BY <1>0
  <2>2. k + 1 \in Int /\ Len(s) \in Int
    BY <1>0
  <2>3. /\ q \in Seq(S) /\ Len(q) = IF k + 1 <= Len(s) THEN Len(s) - (k + 1) + 1 ELSE 0
        /\ \A i \in 1 .. Len(s) - (k + 1) + 1 : q[i] = s[k + 1 + i - 1]
    BY <2>1, <2>2, SubSeqProperties
  <2> HIDE DEF q
  <2>4. Len(q) = Len(s) - k
    <3>1. Len(q) = IF k + 1 <= Len(s) THEN Len(s) - (k + 1) + 1 ELSE 0
      BY <2>3
    <3>2. k \in Nat /\ Len(s) \in Nat /\ k <= Len(s)
      BY <1>0, <1>1
    <3> QED BY <3>1, <3>2
  <2>5. \A i \in 1 .. Len(s) - k : i \in 1 .. Len(s) - (k + 1) + 1 /\ k + 1 + i - 1 = k + i
    BY <1>0, <1>1
  <2> QED BY <2>3, <2>4, <2>5
<1>4. /\ r \in Seq(S) /\ Len(r) = Len(s) - 1
      /\ \A i \in 1 .. Len(s) - 1 : r[i] = s[f(i)]
  <2>1. r = p \o q
    BY <1>1 DEF RemoveAt
  <2> HIDE DEF p, q, r
  <2>2. r \in Seq(S) /\ Len(r) = (k - 1) + (Len(s) - k)
    <3>1. p \o q \in Seq(S) /\ Len(p \o q) = Len(p) + Len(q)
      BY <1>2, <1>3, ConcatProperties
    <3> QED BY <1>2, <1>3, <2>1, <3>1
  <2>3. \A i \in 1 .. (k - 1) + (Len(s) - k) :
          r[i] = IF i <= k - 1 THEN p[i] ELSE q[i - (k - 1)]
    <3>1. \A i \in 1 .. Len(p) + Len(q) : (p \o q)[i] = IF i <= Len(p) THEN p[i] ELSE q[i - Len(p)]
      BY <1>2, <1>3, ConcatProperties
    <3> QED BY <1>2, <1>3, <2>1, <3>1
  <2>4. ASSUME NEW i \in 1 .. Len(s) - 1 PROVE r[i] = s[f(i)]
    <3>1. CASE i < k
      BY <1>0, <1>2, <2>3, <3>1
    <3>2. CASE ~(i < k)
      <4>1. i - (k - 1) \in 1 .. Len(s) - k /\ k + (i - (k - 1)) = i + 1 /\ ~(i <= k - 1)
        BY <1>0, <3>2
      <4>2. i \in 1 .. (k - 1) + (Len(s) - k)
        BY <1>0
      <4>3. r[i] = q[i - (k - 1)]
        BY <2>3, <4>1, <4>2
      <4>4. q[i - (k - 1)] = s[k + (i - (k - 1))]
        BY <1>3, <4>1
      <4> QED BY <1>0, <3>2, <4>1, <4>3, <4>4
    <3> QED BY <3>1, <3>2
  <2> QED BY <1>0, <2>2, <2>4
<1> HIDE DEF r
<1>5. DOMAIN r = 1 .. Len(s) - 1
  BY <1>4
<1>6. \A i \in DOMAIN r : f(i) \in DOMAIN s /\ f(i) # k /\ r[i] = s[f(i)]
  BY <1>0, <1>4, <1>5
<1>7. \A i, j \in DOMAIN r : f(i) = f(j) => i = j
  BY <1>0, <1>5
<1>8. \A j \in DOMAIN s \ {k} : \E i \in DOMAIN r : f(i) = j
  <2> SUFFICES ASSUME NEW j \in DOMAIN s \ {k} PROVE \E i \in DOMAIN r : f(i) = j
    OBVIOUS
  <2>1. CASE j < k
    <3>1. j \in DOMAIN r /\ f(j) = j
      BY <1>0, <1>5, <2>1
    <3> QED BY <3>1
  <2>2. CASE j > k
    <3>1. j - 1 \in DOMAIN r /\ f(j - 1) = j
      BY <1>0, <1>5, <2>2
    <3> QED BY <3>1
  <2> QED BY <1>0, <2>1, <2>2
<1>9. k \in DOMAIN s /\ s[k] = e
  BY <1>0, <1>1
<1> HIDE DEF f
<1>10. Range(r) \subseteq Range(s)
  BY <1>6 DEF Range
<1>11. ASSUME Once(s) PROVE Once(r) /\ \A t : HasTask(r, t) <=> HasTask(s, t) /\ t # e.task
  <2>1. Once(r)
    BY <1>6, <1>7, <1>11 DEF Once
  <2>2. ASSUME NEW t, HasTask(r, t) PROVE HasTask(s, t) /\ t # e.task
    BY <1>6, <1>9, <1>11, <2>2 DEF Once, HasTask
  <2>3. ASSUME NEW t, HasTask(s, t), t # e.task PROVE HasTask(r, t)
    <3>1. PICK j \in DOMAIN s \ {k} : s[j].task = t
      BY <1>9, <2>3 DEF HasTask
    <3>2. PICK i \in DOMAIN r : f(i) = j
      BY <1>8
    <3> QED BY <1>6, <3>1, <3>2 DEF HasTask
  <2> QED BY <2>1, <2>2, <2>3
<1> QED BY <1>4, <1>10, <1>11 DEF r

-----------------------------------------------------------------------------
(* Types.                                                                  *)

Busy == {"popped", "sent"}

LEMMA NotNone == ASSUME NEW e \in Entries PROVE e # None
<1>1. DOMAIN e = {"task", "retry", "delayed"}
  BY DEF Entries
<1>2. DOMAIN None = {"task"}
  BY DEF None
<1>3. "retry" # "task"
  OBVIOUS
<1> QED BY <1>1, <1>2, <1>3

LEMMA EntryTypes ==
  /\ \A e \in Entries : e.task \in Tasks /\ e.retry \in 0 .. MAX_RETRIES /\ e.delayed \in BOOLEAN /\ e # None
  /\ \A v \in Verdicts : v.task \in Tasks /\ v.status \in {"ok", "fail", "no_retry"}
<1>1. \A e \in Entries : e.task \in Tasks /\ e.retry \in 0 .. MAX_RETRIES /\ e.delayed \in BOOLEAN
  BY DEF Entries
<1>2. \A v \in Verdicts : v.task \in Tasks /\ v.status \in {"ok", "fail", "no_retry"}
  BY DEF Verdicts
<1> QED BY <1>1, <1>2, NotNone

LEMMA Delayed ==
  ASSUME NEW e \in Entries
  PROVE  LET x == [e EXCEPT !.delayed = TRUE] IN
         x \in Entries /\ x.task = e.task /\ x.retry = e.retry
BY DEF Entries

LEMMA CountedRetry ==
  ASSUME NEW e \in Entries, e.retry < MAX_RETRIES
  PROVE  LET x == [e EXCEPT !.retry = e.retry + 1, !.delayed = TRUE] IN
         x \in Entries /\ x.task = e.task /\ x.retry = e.retry + 1
<1>1. e.retry + 1 \in 0 .. MAX_RETRIES
  BY EntryTypes, SendPipelineAssumption
<1> QED BY <1>1 DEF Entries

LEMMA TypeInit == Init => TypeOK
<1> SUFFICES ASSUME Init PROVE TypeOK
  OBVIOUS
<1>1. 0 \in 0 .. MaxRateLimits /\ 0 \in 0 .. MaxFailures
  BY SendPipelineAssumption
<1>2. queue \in [Accounts -> Seq(Entries)] /\ results \in [Fleets -> Seq(Verdicts)]
      /\ batch \in [Processors -> Seq(Verdicts)] /\ sendLog \in Seq(Verdicts)
  BY DEF Init
<1>3. /\ worker \in [Accounts -> Up \cup {"down", "stopping"}]
      /\ \A a \in Accounts : worker[a] \notin {"popped", "sent"}
  BY DEF Init, Up
<1>4. posted \in [Tasks -> Nat] /\ known \in [Processors -> SUBSET Groups]
  BY DEF Init
<1> QED BY <1>1, <1>2, <1>3, <1>4 DEF Init, TypeOK

(* A consumer that lets go of what it holds.                                               *)
LEMMA RequeueTypes ==
  ASSUME TypeOK, NEW a \in Accounts, worker[a] = "popped", NEW entry \in Entries, Requeue(a, entry),
         posted' \in [Tasks -> Nat], limited' \in 0 .. MaxRateLimits, failures' \in 0 .. MaxFailures
  PROVE  TypeOK'
<1>1. queue' \in [Accounts -> Seq(Entries)]
  <2>1. Append(queue[a], entry) \in Seq(Entries)
    BY DEF TypeOK
  <2> QED BY <2>1 DEF Requeue, TypeOK
<1>2. /\ worker' \in [Accounts -> Up \cup {"down", "stopping"}]
      /\ \A b \in Accounts : worker'[b] \in {"popped", "sent"} => hand[b] \in Entries
  BY DEF Requeue, TypeOK, Up
<1> QED BY <1>1, <1>2 DEF Requeue, TypeOK, adminVars, managerVars, resultVars, processorVars

LEMMA publishTypes ==
  ASSUME TypeOK, NEW a \in Accounts, worker[a] \in Busy, NEW status \in {"ok", "fail", "no_retry"},
         publishResult(a, status),
         posted' \in [Tasks -> Nat], limited' \in 0 .. MaxRateLimits, failures' \in 0 .. MaxFailures
  PROVE  TypeOK'
<1>1. results' \in [Fleets -> Seq(Verdicts)]
  <2>1. [task |-> hand[a].task, status |-> status] \in Verdicts /\ Fleet[a] \in Fleets
    BY EntryTypes, SendPipelineAssumption DEF Verdicts, TypeOK, Busy
  <2>2. Append(results[Fleet[a]], [task |-> hand[a].task, status |-> status]) \in Seq(Verdicts)
    BY <2>1 DEF TypeOK
  <2> QED BY <2>1, <2>2 DEF publishResult, TypeOK
<1>2. /\ worker' \in [Accounts -> Up \cup {"down", "stopping"}]
      /\ \A b \in Accounts : worker'[b] \in {"popped", "sent"} => hand[b] \in Entries
  BY DEF publishResult, TypeOK, Up
<1> QED BY <1>1, <1>2 DEF publishResult, TypeOK, adminVars, queueVars, managerVars, processorVars

LEMMA PostedTypes ==
  ASSUME TypeOK, NEW a \in Accounts, worker[a] \in Busy, PostedOrNot(a)
  PROVE  /\ posted' \in [Tasks -> Nat]
         /\ \A t \in Tasks : posted'[t] \in posted[t] .. posted[t] + (IF t = hand[a].task THEN 1 ELSE 0)
<1>1. hand[a].task \in Tasks
  BY EntryTypes DEF TypeOK, Busy
<1>2. PICK n \in {0, 1} : posted' = [posted EXCEPT ![hand[a].task] = posted[hand[a].task] + n]
  BY DEF PostedOrNot
<1>3. posted \in [Tasks -> Nat]
  BY DEF TypeOK
<1>4. \A t \in Tasks : posted'[t] = IF t = hand[a].task THEN posted[t] + n ELSE posted[t]
  BY <1>1, <1>2, <1>3
<1>5. posted' = [t \in Tasks |-> posted'[t]]
  BY <1>2, <1>3
<1>6. \A t \in Tasks : posted'[t] \in Nat
  BY <1>3, <1>4
<1> QED BY <1>3, <1>4, <1>5, <1>6

(* A step that changes nothing but the state of a worker or a manager.                     *)
LEMMA WorkerTypes ==
  ASSUME TypeOK, NEW a, NEW w \in Up \cup {"down", "stopping"}, w \in Busy => a \in Accounts /\ worker[a] \in Busy,
         worker' = [worker EXCEPT ![a] = w]
  PROVE  /\ worker' \in [Accounts -> Up \cup {"down", "stopping"}]
         /\ \A b \in Accounts : worker'[b] \in {"popped", "sent"} => hand[b] \in Entries
BY DEF TypeOK, Busy

LEMMA FailTypes ==
  ASSUME TypeOK
  PROVE  /\ Fail => failures' \in 0 .. MaxFailures
         /\ UNCHANGED failures => failures' \in 0 .. MaxFailures
BY SendPipelineAssumption DEF Fail, TypeOK

LEMMA ConsumeTypes ==
  ASSUME TypeOK, NEW a \in Accounts, Consume(a)
  PROVE  TypeOK'
<1>0. /\ posted \in [Tasks -> Nat] /\ limited \in 0 .. MaxRateLimits /\ failures \in 0 .. MaxFailures
      /\ worker[a] \in Busy => hand[a] \in Entries
  BY DEF TypeOK, Busy
<1>1. CASE Pop(a)
  <2>1. Head(queue[a]) \in Entries /\ Tail(queue[a]) \in Seq(Entries)
    BY <1>1, TailOf DEF Pop, TypeOK
  <2>2. queue' \in [Accounts -> Seq(Entries)] /\ hand' \in [Accounts -> Entries \cup {None}] /\ hand'[a] = Head(queue[a])
    BY <1>1, <2>1 DEF Pop, TypeOK
  <2>3. worker' \in [Accounts -> Up \cup {"down", "stopping"}]
    BY <1>1 DEF Pop, TypeOK, Up
  <2>4. \A b \in Accounts : worker'[b] \in {"popped", "sent"} => hand'[b] \in Entries
    BY <1>1, <2>1, <2>2 DEF Pop, TypeOK
  <2> QED BY <1>1, <2>2, <2>3, <2>4 DEF Pop, TypeOK, adminVars, managerVars, resultVars, processorVars
<1>2. CASE RequeueDelayed(a)
  BY <1>0, <1>2, RequeueTypes DEF RequeueDelayed, Busy
<1>3. CASE SendOk(a)
  <2>1. worker[a] \in Busy /\ hand[a].task \in Tasks
    BY <1>0, <1>3, EntryTypes DEF SendOk, Busy
  <2>2. posted' \in [Tasks -> Nat]
    BY <1>0, <1>3, <2>1 DEF SendOk
  <2>3. worker' = [worker EXCEPT ![a] = "sent"] /\ "sent" \in Up
    BY <1>3 DEF SendOk, Up
  <2>4. /\ worker' \in [Accounts -> Up \cup {"down", "stopping"}]
        /\ \A b \in Accounts : worker'[b] \in {"popped", "sent"} => hand[b] \in Entries
    BY <2>1, <2>3, WorkerTypes
  <2> QED BY <1>3, <2>2, <2>4 DEF SendOk, TypeOK, adminVars, queueVars, managerVars, resultVars, processorVars
<1>4. CASE PublishOk(a)
  BY <1>0, <1>4, publishTypes DEF PublishOk, Busy
<1>5. CASE SendForbidden(a)
  BY <1>0, <1>5, publishTypes, PostedTypes DEF SendForbidden, Busy
<1>6. CASE SendRateLimited(a)
  <2>1. [hand[a] EXCEPT !.delayed = TRUE] \in Entries
    BY <1>0, <1>6, Delayed DEF SendRateLimited, Busy
  <2>2. limited' \in 0 .. MaxRateLimits
    BY <1>0, <1>6, SendPipelineAssumption DEF SendRateLimited
  <2>3. posted' \in [Tasks -> Nat]
    BY <1>6, PostedTypes DEF SendRateLimited, Busy
  <2> QED BY <1>0, <1>6, <2>1, <2>2, <2>3, RequeueTypes DEF SendRateLimited
<1>7. CASE SendRetry(a)
  <2>1. [hand[a] EXCEPT !.retry = hand[a].retry + 1, !.delayed = TRUE] \in Entries
    BY <1>0, <1>7, CountedRetry DEF SendRetry, Busy
  <2>2. posted' \in [Tasks -> Nat]
    BY <1>7, PostedTypes DEF SendRetry, Busy
  <2> QED BY <1>0, <1>7, <2>1, <2>2, RequeueTypes DEF SendRetry
<1>8. CASE SendExhausted(a)
  BY <1>0, <1>8, publishTypes, PostedTypes DEF SendExhausted, Busy
<1> QED BY <1>1, <1>2, <1>3, <1>4, <1>5, <1>6, <1>7, <1>8 DEF Consume

LEMMA NextAccountTypes ==
  ASSUME TypeOK, NEW m \in Managers, mpc[m] = "act", NextAccount(m)
  PROVE  /\ mpc' \in [Managers -> {"idle", "loop", "act"}]
         /\ \A n \in Managers : mpc'[n] = "act" => account[n] \in Accounts
BY DEF TypeOK, NextAccount

LEMMA TypeStep == TypeOK /\ [Next]_vars => TypeOK'
<1> SUFFICES ASSUME TypeOK, [Next]_vars PROVE TypeOK'
  OBVIOUS
<1> USE DEF adminVars, queueVars, workerVars, managerVars, resultVars, processorVars
<1>f. (Fail => failures' \in 0 .. MaxFailures) /\ failures \in 0 .. MaxFailures
  BY FailTypes DEF TypeOK
<1>1. ASSUME NEW t \in Tasks, Dispatch(t) PROVE TypeOK'
  <2>1. AccountOf[t] \in Accounts /\ [task |-> t, retry |-> 0, delayed |-> FALSE] \in Entries
    BY SendPipelineAssumption DEF Entries
  <2>2. Append(queue[AccountOf[t]], [task |-> t, retry |-> 0, delayed |-> FALSE]) \in Seq(Entries)
    BY <2>1 DEF TypeOK
  <2>3. queue' \in [Accounts -> Seq(Entries)]
    BY <1>1, <2>1, <2>2 DEF Dispatch, TypeOK
  <2> QED BY <1>1, <2>1, <2>3 DEF Dispatch, TypeOK
<1>2. ASSUME NEW a \in Accounts, RedisFails(a) \/ ShutdownIdle(a) \/ Exit(a) \/ WorkerDies(a) PROVE TypeOK'
  <2>1. PICK w \in {"down", "stopping", "idle"} : worker' = [worker EXCEPT ![a] = w]
    BY <1>2 DEF RedisFails, ShutdownIdle, Exit, WorkerDies
  <2>2. w \in Up \cup {"down", "stopping"} /\ w \notin Busy
    BY DEF Up, Busy
  <2>3. /\ worker' \in [Accounts -> Up \cup {"down", "stopping"}]
        /\ \A b \in Accounts : worker'[b] \in {"popped", "sent"} => hand[b] \in Entries
    BY <2>1, <2>2, WorkerTypes
  <2> QED BY <1>2, <1>f, <2>3 DEF RedisFails, ShutdownIdle, Exit, WorkerDies, TypeOK
<1>3. CASE ReadPage
  <2>1. PICK a \in Accounts : target' \in Range(queue[a])
    BY <1>3 DEF ReadPage
  <2>2. target' \in Entries
    BY <2>1 DEF Range, TypeOK
  <2> QED BY <1>3, <2>2 DEF ReadPage, TypeOK
<1>4. CASE drop_task
  <2>1. target \in Entries /\ target.task \in Tasks /\ AccountOf[target.task] \in Accounts
    BY <1>4, EntryTypes, SendPipelineAssumption DEF drop_task, TypeOK
  <2>2. queue' \in [Accounts -> Seq(Entries)]
    <3>1. CASE UNCHANGED queue
      BY <3>1 DEF TypeOK
    <3>2. CASE /\ target \in Range(queue[AccountOf[target.task]])
               /\ queue' = [queue EXCEPT ![AccountOf[target.task]] = RemoveFirst(queue[AccountOf[target.task]], target)]
      <4>1. RemoveFirst(queue[AccountOf[target.task]], target) \in Seq(Entries)
        BY <2>1, <3>2, RemoveOf DEF TypeOK
      <4> QED BY <2>1, <3>2, <4>1 DEF TypeOK
    <3> QED BY <1>4, <3>1, <3>2 DEF drop_task
  <2>3. removed' \subseteq Tasks
    BY <1>4, <2>1 DEF drop_task, TypeOK
  <2> QED BY <1>4, <2>2, <2>3 DEF drop_task, TypeOK
<1>5. ASSUME NEW a \in Accounts, admin_restart_worker(a) PROVE TypeOK'
  <2>1. "idle" \in Up /\ "idle" \notin Busy
    BY DEF Up, Busy
  <2>2. /\ worker' \in [Accounts -> Up \cup {"down", "stopping"}]
        /\ \A b \in Accounts : worker'[b] \in {"popped", "sent"} => hand[b] \in Entries
    BY <1>5, <2>1, WorkerTypes DEF admin_restart_worker
  <2> QED BY <1>5, <2>2 DEF admin_restart_worker, TypeOK
<1>6. ASSUME NEW m \in Managers, ListActive(m) PROVE TypeOK'
  <2>1. PICK f \in Fleets : todo' = [todo EXCEPT ![m] = {a \in active : Fleet[a] = f}]
    BY <1>6 DEF ListActive
  <2>2. todo' \in [Managers -> SUBSET Accounts]
    BY <2>1 DEF TypeOK
  <2>3. /\ mpc' \in [Managers -> {"idle", "loop", "act"}]
        /\ \A n \in Managers : mpc'[n] = "act" => account[n] \in Accounts
    BY <1>6 DEF ListActive, TypeOK
  <2> QED BY <1>6, <2>2, <2>3 DEF ListActive, TypeOK
<1>7. ASSUME NEW m \in Managers, ReadLength(m) PROVE TypeOK'
  <2>1. PICK a \in todo[m] : /\ account' = [account EXCEPT ![m] = a]
                             /\ pending' = [pending EXCEPT ![m] = queue[a] # <<>>]
                             /\ todo' = [todo EXCEPT ![m] = todo[m] \ {a}]
    BY <1>7 DEF ReadLength
  <2>2. a \in Accounts /\ todo' \in [Managers -> SUBSET Accounts]
    BY <2>1 DEF TypeOK
  <2>3. account' \in [Managers -> Accounts \cup {None}] /\ account'[m] = a /\ pending' \in [Managers -> BOOLEAN]
    BY <2>1, <2>2 DEF TypeOK
  <2>4. mpc' \in [Managers -> {"idle", "loop", "act"}]
    BY <1>7 DEF ReadLength, TypeOK
  <2>5. \A n \in Managers : mpc'[n] = "act" => account'[n] \in Accounts
    BY <1>7, <2>1, <2>2, <2>3 DEF ReadLength, TypeOK
  <2> QED BY <1>7, <2>2, <2>3, <2>4, <2>5 DEF ReadLength, TypeOK
<1>8. ASSUME NEW m \in Managers, StartContainer(m) \/ ReplaceStale(m) PROVE TypeOK'
  <2>1. PICK w \in Up \cup {"down", "stopping"} :
          /\ w \in Busy => worker[account[m]] \in Busy /\ account[m] \in Accounts
          /\ worker' = [worker EXCEPT ![account[m]] = w]
    <3>1. account[m] \in Accounts /\ worker[account[m]] \in Up \cup {"down", "stopping"}
      BY <1>8 DEF StartContainer, ReplaceStale, TypeOK
    <3>2. "idle" \in Up /\ "idle" \notin Busy
      BY DEF Up, Busy
    <3>3. CASE StartContainer(m)
      BY <3>1, <3>2, <3>3 DEF StartContainer
    <3>4. CASE ReplaceStale(m)
      BY <3>1, <3>2, <3>4 DEF ReplaceStale
    <3> QED BY <1>8, <3>3, <3>4
  <2>2. /\ worker' \in [Accounts -> Up \cup {"down", "stopping"}]
        /\ \A b \in Accounts : worker'[b] \in {"popped", "sent"} => hand[b] \in Entries
    BY <2>1, WorkerTypes
  <2>3. /\ mpc' \in [Managers -> {"idle", "loop", "act"}]
        /\ \A n \in Managers : mpc'[n] = "act" => account[n] \in Accounts
    BY <1>8, NextAccountTypes DEF StartContainer, ReplaceStale
  <2>4. failures' \in 0 .. MaxFailures
    BY <1>8, <1>f DEF StartContainer, ReplaceStale
  <2> QED BY <1>8, <2>2, <2>3, <2>4 DEF StartContainer, ReplaceStale, TypeOK
<1>9. ASSUME NEW m \in Managers, StartFails(m) \/ DropAccount(m) PROVE TypeOK'
  <2>1. /\ mpc' \in [Managers -> {"idle", "loop", "act"}]
        /\ \A n \in Managers : mpc'[n] = "act" => account[n] \in Accounts
    BY <1>9, NextAccountTypes DEF StartFails, DropAccount
  <2> QED BY <1>9, <1>f, <2>1 DEF StartFails, DropAccount, TypeOK
<1>10. ASSUME NEW m \in Managers, ManagerDies(m) PROVE TypeOK'
  BY <1>10, <1>f DEF ManagerDies, TypeOK
<1>11. ASSUME NEW p \in Processors, PopResult(p) PROVE TypeOK'
  <2>1. PICK f \in Fleets : /\ results[f] # <<>>
                            /\ batch' = [batch EXCEPT ![p] = Append(batch[p], Head(results[f]))]
                            /\ results' = [results EXCEPT ![f] = Tail(results[f])]
    BY <1>11 DEF PopResult
  <2>2. Head(results[f]) \in Verdicts /\ Tail(results[f]) \in Seq(Verdicts)
    BY <2>1, TailOf DEF TypeOK
  <2>3. Append(batch[p], Head(results[f])) \in Seq(Verdicts)
    BY <2>2 DEF TypeOK
  <2>4. batch' \in [Processors -> Seq(Verdicts)] /\ results' \in [Fleets -> Seq(Verdicts)]
    BY <2>1, <2>2, <2>3 DEF TypeOK
  <2> QED BY <1>11, <2>4 DEF PopResult, TypeOK
<1>12. ASSUME NEW p \in Processors, LoadGroups(p) PROVE TypeOK'
  BY <1>12 DEF LoadGroups, TypeOK
<1>13. ASSUME NEW p \in Processors, Release(p)
       PROVE  /\ batch' \in [Processors -> Seq(Verdicts)] /\ known' \in [Processors -> SUBSET Groups]
              /\ ppc' \in [Processors -> {"pop", "write"}]
  BY <1>13 DEF Release, TypeOK
<1>14. ASSUME NEW p \in Processors, _process_results_async(p) PROVE TypeOK'
  <2>1. sendLog' \in Seq(Verdicts) /\ marked' \subseteq Groups
    BY <1>14 DEF _process_results_async, TypeOK
  <2> QED BY <1>13, <1>14, <2>1 DEF _process_results_async, TypeOK
<1>15. ASSUME NEW p \in Processors, ProcessorDies(p) PROVE TypeOK'
  BY <1>13, <1>15, <1>f DEF ProcessorDies, TypeOK
<1>16. CASE UNCHANGED vars
  BY <1>16 DEF vars, TypeOK
<1> QED BY <1>1, <1>2, <1>3, <1>4, <1>5, <1>6, <1>7, <1>8, <1>9, <1>10, <1>11, <1>12, <1>14, <1>15, <1>16, ConsumeTypes
        DEF Next, Manage, Record

(* Every variable keeps its type.                                                          *)
THEOREM TypeCorrect == Spec => []TypeOK
BY TypeInit, TypeStep, PTL DEF Spec

-----------------------------------------------------------------------------
(* The places of a send.                                                   *)

In(x, t) == HasTask(Kept(x), t)

Things == Entries \cup Verdicts

Log == <<"history", "sendLog">>

LEMMA PlacesAre ==
  /\ \A x \in Places : \/ \E a \in Accounts : x = <<"queue", a>> \/ x = <<"hand", a>>
                       \/ \E f \in Fleets : x = <<"results", f>>
                       \/ \E p \in Processors : x = <<"batch", p>>
                       \/ x = Log
  /\ \A a \in Accounts : <<"queue", a>> \in Places /\ <<"hand", a>> \in Places
  /\ \A f \in Fleets : <<"results", f>> \in Places
  /\ \A p \in Processors : <<"batch", p>> \in Places
  /\ Log \in Places
<1>1. /\ \A x \in {"queue", "hand"} \X Accounts : \E a \in Accounts : x = <<"queue", a>> \/ x = <<"hand", a>>
      /\ \A x \in {"results"} \X Fleets : \E f \in Fleets : x = <<"results", f>>
      /\ \A x \in {"batch"} \X Processors : \E p \in Processors : x = <<"batch", p>>
      /\ \A x \in {<<"history", "sendLog">>} : x = Log
  BY DEF Log
<1>2. /\ \A a \in Accounts : <<"queue", a>> \in {"queue", "hand"} \X Accounts /\ <<"hand", a>> \in {"queue", "hand"} \X Accounts
      /\ \A f \in Fleets : <<"results", f>> \in {"results"} \X Fleets
      /\ \A p \in Processors : <<"batch", p>> \in {"batch"} \X Processors
      /\ Log \in {<<"history", "sendLog">>}
  BY DEF Log
<1>3. ASSUME NEW x \in Places
      PROVE  \/ x \in {"queue", "hand"} \X Accounts \/ x \in {"results"} \X Fleets
             \/ x \in {"batch"} \X Processors \/ x \in {<<"history", "sendLog">>}
  BY Zenon DEF Places
<1>4. /\ \A x \in {"queue", "hand"} \X Accounts : x \in Places
      /\ \A x \in {"results"} \X Fleets : x \in Places
      /\ \A x \in {"batch"} \X Processors : x \in Places
      /\ \A x \in {<<"history", "sendLog">>} : x \in Places
  BY Zenon DEF Places
<1>5. \A x \in Places : \/ \E a \in Accounts : x = <<"queue", a>> \/ x = <<"hand", a>>
                        \/ \E f \in Fleets : x = <<"results", f>>
                        \/ \E p \in Processors : x = <<"batch", p>>
                        \/ x = Log
  BY <1>1, <1>3, Zenon
<1>6. /\ \A a \in Accounts : <<"queue", a>> \in Places /\ <<"hand", a>> \in Places
      /\ \A f \in Fleets : <<"results", f>> \in Places
      /\ \A p \in Processors : <<"batch", p>> \in Places
      /\ Log \in Places
  BY <1>2, <1>4, Zenon
<1> QED BY <1>5, <1>6, Zenon

LEMMA KeptIs ==
  /\ \A a : Kept(<<"queue", a>>) = queue[a]
  /\ \A a : Kept(<<"hand", a>>) = IF worker[a] \in Busy THEN <<hand[a]>> ELSE <<>>
  /\ \A f : Kept(<<"results", f>>) = results[f]
  /\ \A p : Kept(<<"batch", p>>) = batch[p]
  /\ Kept(Log) = sendLog
  /\ \A a : Kept(<<"queue", a>>)' = queue'[a]
  /\ \A a : Kept(<<"hand", a>>)' = IF worker'[a] \in Busy THEN <<hand'[a]>> ELSE <<>>
  /\ \A f : Kept(<<"results", f>>)' = results'[f]
  /\ \A p : Kept(<<"batch", p>>)' = batch'[p]
  /\ Kept(Log)' = sendLog'
BY DEF Kept, Busy, Log

LEMMA KeptTypes ==
  ASSUME TypeOK, NEW x \in Places
  PROVE  Kept(x) \in Seq(Things)
<1>1. ASSUME NEW a \in Accounts PROVE Kept(<<"queue", a>>) \in Seq(Things) /\ Kept(<<"hand", a>>) \in Seq(Things)
  <2>1. queue[a] \in Seq(Things)
    BY SeqMonotonic DEF TypeOK, Things
  <2>2. worker[a] \in Busy => <<hand[a]>> \in Seq(Things)
    BY DEF TypeOK, Busy, Things
  <2>3. /\ Kept(<<"queue", a>>) = queue[a]
        /\ Kept(<<"hand", a>>) = IF worker[a] \in Busy THEN <<hand[a]>> ELSE <<>>
    BY KeptIs
  <2>4. <<>> \in Seq(Things)
    OBVIOUS
  <2> QED BY <2>1, <2>2, <2>3, <2>4, Zenon
<1>2. ASSUME NEW f \in Fleets PROVE Kept(<<"results", f>>) \in Seq(Things)
  BY KeptIs, SeqMonotonic DEF TypeOK, Things
<1>3. ASSUME NEW p \in Processors PROVE Kept(<<"batch", p>>) \in Seq(Things)
  BY KeptIs, SeqMonotonic DEF TypeOK, Things
<1>4. Kept(Log) \in Seq(Things)
  BY KeptIs, SeqMonotonic DEF TypeOK, Things
<1> QED BY <1>1, <1>2, <1>3, <1>4, PlacesAre

LEMMA ThingTasks == \A e \in Things : e.task \in Tasks
BY EntryTypes DEF Things

(* OneCopy, by place and task.                                                             *)
LEMMA OneCopyIs ==
  /\ OneCopy <=> /\ \A x \in Places : Once(Kept(x))
                 /\ \A t : \A x, y \in Places : In(x, t) /\ In(y, t) => x = y
  /\ \A t : Nowhere(t) <=> \A x \in Places : ~In(x, t)
BY DEF OneCopy, Once, In, HasTask, Nowhere

(* What a step does to a task: it stays where it is, comes to one place, or is gone.       *)
Stays(t) == \A x \in Places : In(x, t)' <=> In(x, t)

ComesTo(y, t) == \A x \in Places : In(x, t)' <=> x = y

Goes(t) == \A x \in Places : ~In(x, t)'

StillOnce == \A x \in Places : Once(Kept(x))'

(* A send leaves the head of a place for the tail of another one.                          *)
LEMMA Shift ==
  ASSUME TypeOK, OneCopy, NEW x \in Places, NEW y \in Places, x # y, NEW e \in Things,
         Kept(x) # <<>>, Kept(x)' = Tail(Kept(x)), Kept(y)' = Append(Kept(y), e),
         e.task = Head(Kept(x)).task,
         \A z \in Places \ {x, y} : Kept(z)' = Kept(z)
  PROVE  /\ StillOnce /\ In(x, e.task) /\ ComesTo(y, e.task)
         /\ \A t : t # e.task => Stays(t)
<1>1. /\ \A z \in Places : Once(Kept(z))
      /\ \A t : \A v, w \in Places : In(v, t) /\ In(w, t) => v = w
  BY OneCopyIs
<1>2. Kept(x) \in Seq(Things) /\ Kept(y) \in Seq(Things)
  BY KeptTypes
<1>3. /\ HasTask(Kept(x), e.task) /\ Once(Tail(Kept(x)))
      /\ \A t : HasTask(Tail(Kept(x)), t) <=> HasTask(Kept(x), t) /\ t # e.task
  BY <1>1, <1>2, TailOf
<1>4. ~HasTask(Kept(y), e.task)
  BY <1>1, <1>3 DEF In
<1>5. /\ Once(Append(Kept(y), e))
      /\ \A t : HasTask(Append(Kept(y), e), t) <=> HasTask(Kept(y), t) \/ t = e.task
  BY <1>1, <1>2, <1>4, AppendOf
<1>6. StillOnce
  BY <1>1, <1>3, <1>5 DEF StillOnce, Once
<1>7. \A t : /\ In(x, t)' <=> In(x, t) /\ t # e.task
             /\ In(y, t)' <=> In(y, t) \/ t = e.task
             /\ \A z \in Places \ {x, y} : In(z, t)' <=> In(z, t)
  <2> SUFFICES ASSUME NEW t
               PROVE  /\ In(x, t)' <=> In(x, t) /\ t # e.task
                      /\ In(y, t)' <=> In(y, t) \/ t = e.task
                      /\ \A z \in Places \ {x, y} : In(z, t)' <=> In(z, t)
    OBVIOUS
  <2>1. \A z : In(z, t)' <=> HasTask(Kept(z)', t)
    BY DEF In, HasTask
  <2>2. \A z : In(z, t) <=> HasTask(Kept(z), t)
    BY DEF In
  <2>3. In(x, t)' <=> In(x, t) /\ t # e.task
    BY <1>3, <2>1, <2>2
  <2>4. In(y, t)' <=> In(y, t) \/ t = e.task
    BY <1>5, <2>1, <2>2
  <2>5. \A z \in Places \ {x, y} : In(z, t)' <=> In(z, t)
    BY <2>1, <2>2
  <2> QED BY <2>3, <2>4, <2>5
<1>8. ComesTo(y, e.task)
  <2>1. \A z \in Places \ {x} : ~In(z, e.task)
    BY <1>1, <1>3 DEF In
  <2> QED BY <1>7, <2>1 DEF ComesTo
<1>9. \A t : t # e.task => Stays(t)
  BY <1>7 DEF Stays
<1> QED BY <1>3, <1>6, <1>8, <1>9 DEF In

(* A new send comes to a place.                                                            *)
LEMMA Comes ==
  ASSUME TypeOK, OneCopy, NEW y \in Places, NEW e \in Things, Nowhere(e.task),
         Kept(y)' = Append(Kept(y), e), \A z \in Places \ {y} : Kept(z)' = Kept(z)
  PROVE  StillOnce /\ ComesTo(y, e.task) /\ \A t : t # e.task => Stays(t)
<1>1. (\A z \in Places : Once(Kept(z))) /\ \A z \in Places : ~In(z, e.task)
  BY OneCopyIs
<1>2. Kept(y) \in Seq(Things)
  BY KeptTypes
<1>3. /\ Once(Append(Kept(y), e))
      /\ \A t : HasTask(Append(Kept(y), e), t) <=> HasTask(Kept(y), t) \/ t = e.task
  BY <1>1, <1>2, AppendOf DEF In
<1>4. StillOnce
  BY <1>1, <1>3 DEF StillOnce, Once
<1>5. \A t : /\ In(y, t)' <=> In(y, t) \/ t = e.task
             /\ \A z \in Places \ {y} : In(z, t)' <=> In(z, t)
  BY <1>3 DEF In, HasTask
<1> QED BY <1>1, <1>4, <1>5 DEF ComesTo, Stays

(* What a place has goes to the tail of another one.                                       *)
LEMMA ShiftAll ==
  ASSUME TypeOK, OneCopy, NEW x \in Places, NEW y \in Places, x # y,
         Kept(x)' = <<>>, Kept(y)' = Kept(y) \o Kept(x),
         \A z \in Places \ {x, y} : Kept(z)' = Kept(z)
  PROVE  StillOnce /\ \A t : IF In(x, t) THEN ComesTo(y, t) ELSE Stays(t)
<1>1. /\ \A z \in Places : Once(Kept(z))
      /\ \A t : \A v, w \in Places : In(v, t) /\ In(w, t) => v = w
  BY OneCopyIs
<1>2. Kept(x) \in Seq(Things) /\ Kept(y) \in Seq(Things)
  BY KeptTypes
<1>3. \A t : ~(HasTask(Kept(y), t) /\ HasTask(Kept(x), t))
  BY <1>1 DEF In
<1>4. /\ Once(Kept(y) \o Kept(x))
      /\ \A t : HasTask(Kept(y) \o Kept(x), t) <=> HasTask(Kept(y), t) \/ HasTask(Kept(x), t)
  BY <1>1, <1>2, <1>3, ConcatOf
<1>5. Once(<<>>) /\ \A t : ~HasTask(<<>>, t)
  BY DEF Once, HasTask
<1>6. StillOnce
  BY <1>1, <1>4, <1>5 DEF StillOnce, Once
<1>7. \A t : /\ ~In(x, t)' /\ (In(y, t)' <=> In(y, t) \/ In(x, t))
             /\ \A z \in Places \ {x, y} : In(z, t)' <=> In(z, t)
  BY <1>4, <1>5 DEF In, HasTask
<1>8. ASSUME NEW t PROVE IF In(x, t) THEN ComesTo(y, t) ELSE Stays(t)
  BY <1>1, <1>7 DEF ComesTo, Stays
<1> QED BY <1>6, <1>8

(* A place loses what it has.                                                              *)
LEMMA Empties ==
  ASSUME TypeOK, OneCopy, NEW x \in Places, Kept(x)' = <<>>, \A z \in Places \ {x} : Kept(z)' = Kept(z)
  PROVE  StillOnce /\ \A t : IF In(x, t) THEN Goes(t) ELSE Stays(t)
<1>1. /\ \A z \in Places : Once(Kept(z))
      /\ \A t : \A v, w \in Places : In(v, t) /\ In(w, t) => v = w
  BY OneCopyIs
<1>2. Once(<<>>) /\ \A t : ~HasTask(<<>>, t)
  BY DEF Once, HasTask
<1>3. StillOnce
  BY <1>1, <1>2 DEF StillOnce, Once
<1>4. \A t : ~In(x, t)' /\ \A z \in Places \ {x} : In(z, t)' <=> In(z, t)
  BY <1>2 DEF In, HasTask
<1>5. ASSUME NEW t PROVE IF In(x, t) THEN Goes(t) ELSE Stays(t)
  BY <1>1, <1>4 DEF Goes, Stays
<1> QED BY <1>3, <1>5

(* A place loses one of the sends it has.                                                  *)
LEMMA Loses ==
  ASSUME TypeOK, OneCopy, NEW x \in Places, NEW e \in Range(Kept(x)), Kept(x)' = RemoveFirst(Kept(x), e),
         \A z \in Places \ {x} : Kept(z)' = Kept(z)
  PROVE  StillOnce /\ In(x, e.task) /\ Goes(e.task) /\ \A t : t # e.task => Stays(t)
<1>1. /\ \A z \in Places : Once(Kept(z))
      /\ \A t : \A v, w \in Places : In(v, t) /\ In(w, t) => v = w
  BY OneCopyIs
<1>2. Kept(x) \in Seq(Things)
  BY KeptTypes
<1>3. /\ Once(RemoveFirst(Kept(x), e))
      /\ \A t : HasTask(RemoveFirst(Kept(x), e), t) <=> HasTask(Kept(x), t) /\ t # e.task
  BY <1>1, <1>2, RemoveOf
<1>4. In(x, e.task)
  BY DEF In, HasTask, Range
<1>5. StillOnce
  BY <1>1, <1>3 DEF StillOnce, Once
<1>6. \A t : /\ In(x, t)' <=> In(x, t) /\ t # e.task
             /\ \A z \in Places \ {x} : In(z, t)' <=> In(z, t)
  BY <1>3 DEF In, HasTask
<1> QED BY <1>1, <1>4, <1>5, <1>6 DEF Goes, Stays

LEMMA Same ==
  ASSUME OneCopy, \A z \in Places : Kept(z)' = Kept(z)
  PROVE  StillOnce /\ \A t : Stays(t)
<1>1. \A z \in Places : Once(Kept(z))
  BY OneCopyIs
<1> QED BY <1>1 DEF StillOnce, Once, Stays, In, HasTask

(* The places outside Z keep what they have.                                               *)
LEMMA Unmoved ==
  ASSUME NEW Z,
         \A a \in Accounts : <<"queue", a>> \in Z \/ queue'[a] = queue[a],
         \A a \in Accounts : \/ <<"hand", a>> \in Z
                             \/ /\ worker'[a] \in Busy <=> worker[a] \in Busy
                                /\ worker[a] \in Busy => hand'[a] = hand[a],
         \A f \in Fleets : <<"results", f>> \in Z \/ results'[f] = results[f],
         \A p \in Processors : <<"batch", p>> \in Z \/ batch'[p] = batch[p],
         Log \in Z \/ sendLog' = sendLog
  PROVE  \A z \in Places \ Z : Kept(z)' = Kept(z)
<1> SUFFICES ASSUME NEW z \in Places \ Z PROVE Kept(z)' = Kept(z)
  OBVIOUS
<1>1. CASE \E a \in Accounts : z = <<"queue", a>>
  BY <1>1, KeptIs
<1>2. CASE \E a \in Accounts : z = <<"hand", a>>
  <2>1. PICK a \in Accounts : z = <<"hand", a>>
    BY <1>2
  <2>2. /\ Kept(z) = IF worker[a] \in Busy THEN <<hand[a]>> ELSE <<>>
        /\ Kept(z)' = IF worker'[a] \in Busy THEN <<hand'[a]>> ELSE <<>>
    BY <2>1, KeptIs
  <2>3. /\ worker'[a] \in Busy <=> worker[a] \in Busy
        /\ worker[a] \in Busy => hand'[a] = hand[a]
    BY <2>1
  <2> QED BY <2>2, <2>3
<1>3. CASE \E f \in Fleets : z = <<"results", f>>
  BY <1>3, KeptIs
<1>4. CASE \E p \in Processors : z = <<"batch", p>>
  BY <1>4, KeptIs
<1>5. CASE z = Log
  BY <1>5, KeptIs
<1> QED BY <1>1, <1>2, <1>3, <1>4, <1>5, PlacesAre

LEMMA PlacesDiffer ==
  /\ \A a, b : <<"queue", a>> # <<"hand", b>>
  /\ \A a, f : <<"hand", a>> # <<"results", f>>
  /\ \A f, p : <<"results", f>> # <<"batch", p>>
  /\ \A p : <<"batch", p>> # Log
BY DEF Log

(* What a step may do to a task: it comes to one place from another one, or from           *)
(* dispatch_send_tasks.                                                                    *)
Moved(t) ==
  \/ Stays(t)
  \/ Goes(t)
  \/ /\ \E y \in Places : ComesTo(y, t)
     /\ (\E x \in Places : In(x, t)) \/ t \in dispatched' \ dispatched

Orderly == StillOnce /\ \A t : Moved(t)

LEMMA DispatchMoves ==
  ASSUME TypeOK, OneCopy, NEW t \in Tasks, Nowhere(t), Dispatch(t)
  PROVE  Orderly /\ \A u : u # t => Stays(u)
<1> DEFINE a == AccountOf[t]
           e == [task |-> t, retry |-> 0, delayed |-> FALSE]
<1>1. a \in Accounts /\ e \in Things /\ e.task = t
  BY SendPipelineAssumption DEF Entries, Things
<1>2. queue'[a] = Append(queue[a], e) /\ \A b \in Accounts \ {a} : queue'[b] = queue[b]
  BY <1>1 DEF Dispatch, TypeOK
<1> HIDE DEF a, e
<1>3. Kept(<<"queue", a>>)' = Append(Kept(<<"queue", a>>), e)
  BY <1>2, KeptIs
<1>4. \A z \in Places \ {<<"queue", a>>} : Kept(z)' = Kept(z)
  <2>1. UNCHANGED <<worker, hand, results, batch, sendLog>>
    BY DEF Dispatch, workerVars, resultVars, processorVars
  <2> QED BY <1>2, <2>1, Unmoved
<1>5. <<"queue", a>> \in Places
  BY <1>1, PlacesAre
<1>6. StillOnce /\ ComesTo(<<"queue", a>>, e.task) /\ \A u : u # e.task => Stays(u)
  BY <1>1, <1>3, <1>4, <1>5, Comes
<1>7. t \in dispatched' \ dispatched
  BY DEF Dispatch
<1> QED BY <1>1, <1>5, <1>6, <1>7 DEF Moved, Orderly

LEMMA ShiftMoves ==
  ASSUME NEW x \in Places, NEW y \in Places, NEW t, StillOnce, In(x, t), ComesTo(y, t), \A u : u # t => Stays(u)
  PROVE  Orderly
BY DEF Moved, Orderly

LEMMA PopMoves ==
  ASSUME TypeOK, OneCopy, NEW a \in Accounts, Pop(a)
  PROVE  Orderly
<1> DEFINE e == Head(queue[a])
<1>1. queue[a] # <<>> /\ queue[a] \in Seq(Entries)
  BY DEF Pop, TypeOK
<1>2. e \in Things
  BY <1>1, TailOf DEF Things
<1>3. /\ queue'[a] = Tail(queue[a]) /\ \A b \in Accounts \ {a} : queue'[b] = queue[b]
      /\ worker[a] \notin Busy /\ worker'[a] \in Busy /\ hand'[a] = e
      /\ \A b \in Accounts \ {a} : worker'[b] = worker[b] /\ hand'[b] = hand[b]
  BY DEF Pop, TypeOK, Busy
<1> HIDE DEF e
<1>4. /\ Kept(<<"queue", a>>) # <<>> /\ Kept(<<"queue", a>>)' = Tail(Kept(<<"queue", a>>))
      /\ e.task = Head(Kept(<<"queue", a>>)).task
  BY <1>1, <1>3, KeptIs DEF e
<1>5. Kept(<<"hand", a>>)' = Append(Kept(<<"hand", a>>), e)
  <2>1. Kept(<<"hand", a>>)' = <<e>> /\ Kept(<<"hand", a>>) = <<>>
    BY <1>3, KeptIs
  <2> QED BY <2>1
<1>6. \A z \in Places \ {<<"queue", a>>, <<"hand", a>>} : Kept(z)' = Kept(z)
  <2>1. UNCHANGED <<results, batch, sendLog>>
    BY DEF Pop, resultVars, processorVars
  <2> QED BY <1>3, <2>1, Unmoved
<1>7. <<"queue", a>> \in Places /\ <<"hand", a>> \in Places /\ <<"queue", a>> # <<"hand", a>>
  BY PlacesAre, PlacesDiffer
<1> QED BY <1>2, <1>4, <1>5, <1>6, <1>7, Shift, ShiftMoves

LEMMA RequeueMoves ==
  ASSUME TypeOK, OneCopy, NEW a \in Accounts, worker[a] = "popped", NEW e \in Entries, e.task = hand[a].task,
         Requeue(a, e)
  PROVE  Orderly
<1>1. /\ queue'[a] = Append(queue[a], e) /\ \A b \in Accounts \ {a} : queue'[b] = queue[b]
      /\ worker[a] \in Busy /\ worker'[a] \notin Busy
      /\ \A b \in Accounts \ {a} : worker'[b] = worker[b] /\ hand'[b] = hand[b]
  BY DEF Requeue, TypeOK, Busy
<1>2. Kept(<<"queue", a>>)' = Append(Kept(<<"queue", a>>), e)
  BY <1>1, KeptIs
<1>3. /\ Kept(<<"hand", a>>) # <<>> /\ Kept(<<"hand", a>>)' = Tail(Kept(<<"hand", a>>))
      /\ e.task = Head(Kept(<<"hand", a>>)).task
  <2>1. Kept(<<"hand", a>>) = <<hand[a]>> /\ Kept(<<"hand", a>>)' = <<>>
    BY <1>1, KeptIs
  <2>2. Head(<<hand[a]>>) = hand[a] /\ Tail(<<hand[a]>>) = <<>> /\ <<hand[a]>> # <<>>
    OBVIOUS
  <2> QED BY <2>1, <2>2
<1>4. \A z \in Places \ {<<"hand", a>>, <<"queue", a>>} : Kept(z)' = Kept(z)
  <2>1. UNCHANGED <<results, batch, sendLog>>
    BY DEF Requeue, resultVars, processorVars
  <2> QED BY <1>1, <2>1, Unmoved
<1>5. <<"queue", a>> \in Places /\ <<"hand", a>> \in Places /\ <<"queue", a>> # <<"hand", a>>
  BY PlacesAre, PlacesDiffer
<1>6. e \in Things
  BY DEF Things
<1> QED BY <1>2, <1>3, <1>4, <1>5, <1>6, Shift, ShiftMoves

LEMMA publishMoves ==
  ASSUME TypeOK, OneCopy, NEW a \in Accounts, worker[a] \in Busy, NEW status \in {"ok", "fail", "no_retry"},
         publishResult(a, status)
  PROVE  Orderly
<1> DEFINE f == Fleet[a]
           e == [task |-> hand[a].task, status |-> status]
<1>1. e \in Things /\ e.task = hand[a].task /\ f \in Fleets
  BY EntryTypes, SendPipelineAssumption DEF TypeOK, Busy, Things, Verdicts
<1>2. /\ results'[f] = Append(results[f], e) /\ \A g \in Fleets \ {f} : results'[g] = results[g]
      /\ worker'[a] \notin Busy
      /\ \A b \in Accounts \ {a} : worker'[b] = worker[b] /\ hand'[b] = hand[b]
  BY <1>1 DEF publishResult, TypeOK, Busy
<1> HIDE DEF f, e
<1>3. Kept(<<"results", f>>)' = Append(Kept(<<"results", f>>), e)
  BY <1>2, KeptIs
<1>4. /\ Kept(<<"hand", a>>) # <<>> /\ Kept(<<"hand", a>>)' = Tail(Kept(<<"hand", a>>))
      /\ e.task = Head(Kept(<<"hand", a>>)).task
  <2>1. Kept(<<"hand", a>>) = <<hand[a]>> /\ Kept(<<"hand", a>>)' = <<>>
    BY <1>2, KeptIs
  <2>2. <<hand[a]>> # <<>> /\ Tail(<<hand[a]>>) = <<>> /\ Head(<<hand[a]>>) = hand[a]
    OBVIOUS
  <2> QED BY <1>1, <2>1, <2>2
<1>5. \A z \in Places \ {<<"hand", a>>, <<"results", f>>} : Kept(z)' = Kept(z)
  <2>1. UNCHANGED <<queue, batch, sendLog>>
    BY DEF publishResult, queueVars, processorVars
  <2> QED BY <1>2, <2>1, Unmoved
<1>6. <<"results", f>> \in Places /\ <<"hand", a>> \in Places /\ <<"hand", a>> # <<"results", f>>
  BY <1>1, PlacesAre, PlacesDiffer
<1> QED BY <1>1, <1>3, <1>4, <1>5, <1>6, Shift, ShiftMoves

LEMMA PopResultMoves ==
  ASSUME TypeOK, OneCopy, NEW p \in Processors, PopResult(p)
  PROVE  Orderly
<1>1. PICK f \in Fleets : /\ results[f] # <<>>
                          /\ batch' = [batch EXCEPT ![p] = Append(batch[p], Head(results[f]))]
                          /\ results' = [results EXCEPT ![f] = Tail(results[f])]
  BY DEF PopResult
<1> DEFINE e == Head(results[f])
<1>2. e \in Things
  BY <1>1, TailOf DEF TypeOK, Things
<1>3. /\ results'[f] = Tail(results[f]) /\ \A g \in Fleets \ {f} : results'[g] = results[g]
      /\ batch'[p] = Append(batch[p], e) /\ \A q \in Processors \ {p} : batch'[q] = batch[q]
  BY <1>1 DEF TypeOK
<1> HIDE DEF e
<1>4. /\ Kept(<<"results", f>>) # <<>> /\ Kept(<<"results", f>>)' = Tail(Kept(<<"results", f>>))
      /\ e.task = Head(Kept(<<"results", f>>)).task
  BY <1>1, <1>3, KeptIs DEF e
<1>5. Kept(<<"batch", p>>)' = Append(Kept(<<"batch", p>>), e)
  BY <1>3, KeptIs
<1>6. \A z \in Places \ {<<"results", f>>, <<"batch", p>>} : Kept(z)' = Kept(z)
  <2>1. UNCHANGED <<queue, worker, hand, sendLog>>
    BY DEF PopResult, queueVars, workerVars
  <2> QED BY <1>3, <2>1, Unmoved
<1>7. <<"results", f>> \in Places /\ <<"batch", p>> \in Places /\ <<"results", f>> # <<"batch", p>>
  BY PlacesAre, PlacesDiffer
<1> QED BY <1>2, <1>4, <1>5, <1>6, <1>7, Shift, ShiftMoves

LEMMA ProcessMoves ==
  ASSUME TypeOK, OneCopy, NEW p \in Processors, _process_results_async(p)
  PROVE  /\ Orderly /\ sendLog' = sendLog \o batch[p]
         /\ \A t : IF In(<<"batch", p>>, t) THEN ComesTo(Log, t) ELSE Stays(t)
<1>1. /\ batch'[p] = <<>> /\ \A q \in Processors \ {p} : batch'[q] = batch[q]
      /\ sendLog' = sendLog \o batch[p]
  BY DEF _process_results_async, Release, TypeOK
<1>2. Kept(<<"batch", p>>)' = <<>> /\ Kept(Log)' = Kept(Log) \o Kept(<<"batch", p>>)
  BY <1>1, KeptIs
<1>3. \A z \in Places \ {<<"batch", p>>, Log} : Kept(z)' = Kept(z)
  <2>1. UNCHANGED <<queue, worker, hand, results>>
    BY DEF _process_results_async, queueVars, workerVars
  <2> QED BY <1>1, <2>1, Unmoved
<1>4. <<"batch", p>> \in Places /\ Log \in Places /\ <<"batch", p>> # Log
  BY PlacesAre, PlacesDiffer
<1>5. StillOnce /\ \A t : IF In(<<"batch", p>>, t) THEN ComesTo(Log, t) ELSE Stays(t)
  BY <1>2, <1>3, <1>4, ShiftAll
<1>6. ASSUME NEW t PROVE Moved(t)
  BY <1>4, <1>5 DEF Moved
<1> QED BY <1>1, <1>5, <1>6 DEF Orderly

LEMMA ProcessorDiesMoves ==
  ASSUME TypeOK, OneCopy, NEW p \in Processors, ProcessorDies(p)
  PROVE  Orderly
<1>1. /\ batch'[p] = <<>> /\ \A q \in Processors \ {p} : batch'[q] = batch[q]
      /\ UNCHANGED <<queue, worker, hand, results, sendLog>>
  BY DEF ProcessorDies, Release, TypeOK, queueVars, workerVars
<1>2. Kept(<<"batch", p>>)' = <<>> /\ <<"batch", p>> \in Places
  BY <1>1, KeptIs, PlacesAre
<1>3. \A z \in Places \ {<<"batch", p>>} : Kept(z)' = Kept(z)
  BY <1>1, Unmoved
<1>4. StillOnce /\ \A t : IF In(<<"batch", p>>, t) THEN Goes(t) ELSE Stays(t)
  BY <1>2, <1>3, Empties
<1> QED BY <1>4 DEF Moved, Orderly

(* A worker that starts, stops or dies holds nothing afterwards.                           *)
LEMMA WorkerMoves ==
  ASSUME TypeOK, OneCopy, NEW a \in Accounts, NEW w, w \notin Busy, worker' = [worker EXCEPT ![a] = w],
         UNCHANGED <<queue, hand, results, batch, sendLog>>
  PROVE  Orderly
<1>1. worker'[a] \notin Busy /\ \A b \in Accounts \ {a} : worker'[b] = worker[b]
  BY DEF TypeOK
<1>2. Kept(<<"hand", a>>)' = <<>> /\ <<"hand", a>> \in Places
  BY <1>1, KeptIs, PlacesAre
<1>3. \A z \in Places \ {<<"hand", a>>} : Kept(z)' = Kept(z)
  BY <1>1, Unmoved
<1>4. StillOnce /\ \A t : IF In(<<"hand", a>>, t) THEN Goes(t) ELSE Stays(t)
  BY <1>2, <1>3, Empties
<1> QED BY <1>4 DEF Moved, Orderly

(* Steps that leave every list and every hand alone.                                       *)
LEMMA StillMoves ==
  ASSUME TypeOK, OneCopy, UNCHANGED <<queue, hand, results, batch, sendLog>>,
         \A a \in Accounts : worker'[a] \in Busy <=> worker[a] \in Busy
  PROVE  Orderly /\ \A t : Stays(t)
<1>1. \A z \in Places \ {} : Kept(z)' = Kept(z)
  BY Unmoved
<1>2. StillOnce /\ \A t : Stays(t)
  BY <1>1, Same
<1> QED BY <1>2 DEF Moved, Orderly

LEMMA DropMoves ==
  ASSUME TypeOK, OneCopy, drop_task
  PROVE  Orderly /\ \A t \in removed' \ removed : Goes(t) /\ \E x \in Places : In(x, t)
<1>1. PICK a \in Accounts : a = AccountOf[target.task]
  BY EntryTypes, SendPipelineAssumption DEF drop_task, TypeOK
<1>2. UNCHANGED <<worker, hand, results, batch, sendLog>>
  BY DEF drop_task, workerVars, resultVars, processorVars
<1>3. CASE UNCHANGED <<queue, removed>>
  <2>1. Orderly
    BY <1>2, <1>3, StillMoves
  <2> QED BY <1>3, <2>1
<1>4. CASE /\ target \in Range(queue[a]) /\ removed' = removed \cup {target.task}
           /\ queue' = [queue EXCEPT ![a] = RemoveFirst(queue[a], target)]
  <2>1. queue'[a] = RemoveFirst(queue[a], target) /\ \A b \in Accounts \ {a} : queue'[b] = queue[b]
    BY <1>1, <1>4 DEF TypeOK
  <2>2. PICK e : e = target
    OBVIOUS
  <2>3. Kept(<<"queue", a>>) = queue[a] /\ Kept(<<"queue", a>>)' = queue'[a] /\ <<"queue", a>> \in Places
    BY <1>1, KeptIs, PlacesAre
  <2>6. e \in Range(Kept(<<"queue", a>>))
    BY <1>4, <2>2, <2>3, Zenon
  <2>7. Kept(<<"queue", a>>)' = RemoveFirst(Kept(<<"queue", a>>), e)
    BY <2>1, <2>2, <2>3, Zenon
  <2>4. \A z \in Places \ {<<"queue", a>>} : Kept(z)' = Kept(z)
    BY <1>2, <2>1, Unmoved
  <2>5. StillOnce /\ In(<<"queue", a>>, e.task) /\ Goes(e.task) /\ \A t : t # e.task => Stays(t)
    BY <2>3, <2>4, <2>6, <2>7, Loses, Zenon
  <2>8. Orderly
    BY <2>5 DEF Orderly, Moved
  <2> QED BY <1>4, <2>2, <2>3, <2>5, <2>8
<1> QED BY <1>1, <1>3, <1>4 DEF drop_task

LEMMA ConsumeMoves ==
  ASSUME TypeOK, OneCopy, NEW a \in Accounts, Consume(a)
  PROVE  Orderly
<1>1. worker[a] \in Busy => hand[a] \in Entries
  BY DEF TypeOK, Busy
<1>2. CASE Pop(a)
  BY <1>2, PopMoves
<1>3. CASE RequeueDelayed(a)
  BY <1>1, <1>3, RequeueMoves DEF RequeueDelayed, Busy
<1>4. CASE SendOk(a)
  <2>1. UNCHANGED <<queue, hand, results, batch, sendLog>>
    BY <1>4 DEF SendOk, queueVars, resultVars, processorVars
  <2>2. \A b \in Accounts : worker'[b] \in Busy <=> worker[b] \in Busy
    BY <1>4 DEF SendOk, TypeOK, Busy
  <2> QED BY <2>1, <2>2, StillMoves
<1>5. CASE PublishOk(a)
  BY <1>5, publishMoves DEF PublishOk, Busy
<1>6. CASE SendForbidden(a)
  BY <1>6, publishMoves DEF SendForbidden, Busy
<1>7. CASE SendRateLimited(a)
  <2>1. worker[a] = "popped" /\ Requeue(a, [hand[a] EXCEPT !.delayed = TRUE])
    BY <1>7 DEF SendRateLimited
  <2> QED BY <1>1, <2>1, Delayed, RequeueMoves DEF Busy
<1>8. CASE SendRetry(a)
  <2>1. worker[a] = "popped" /\ Requeue(a, [hand[a] EXCEPT !.retry = hand[a].retry + 1, !.delayed = TRUE])
        /\ hand[a].retry < MAX_RETRIES
    BY <1>8 DEF SendRetry
  <2> QED BY <1>1, <2>1, CountedRetry, RequeueMoves DEF Busy
<1>9. CASE SendExhausted(a)
  BY <1>9, publishMoves DEF SendExhausted, Busy
<1> QED BY <1>2, <1>3, <1>4, <1>5, <1>6, <1>7, <1>8, <1>9 DEF Consume

(* Only dispatch_send_tasks makes a task, and no task is anywhere before it.               *)
Fresh == \A t \in Tasks \ dispatched : Nowhere(t)

(* The steps that neither dispatch a task nor write the history.                           *)
Between == UNCHANGED <<dispatched, sendLog>>

LEMMA StepMoves ==
  ASSUME TypeOK, OneCopy, Fresh, [Next]_vars
  PROVE  /\ Orderly
         /\ \A t \in removed' \ removed : Goes(t) /\ \E x \in Places : In(x, t)
         /\ \/ \E t \in Tasks : Dispatch(t)
            \/ \E p \in Processors : _process_results_async(p)
            \/ Between
<1>1. ASSUME NEW t \in Tasks, Dispatch(t) PROVE Orderly /\ UNCHANGED removed
  BY <1>1, DispatchMoves DEF Dispatch, Fresh, adminVars
<1>2. ASSUME NEW a \in Accounts, Consume(a) PROVE Orderly /\ UNCHANGED removed /\ Between
  <2>1. UNCHANGED removed /\ Between
    BY <1>2 DEF Consume, Pop, RequeueDelayed, SendOk, PublishOk, SendForbidden, SendRateLimited, SendRetry,
                SendExhausted, Requeue, publishResult, Between, adminVars, queueVars, resultVars
  <2> QED BY <1>2, <2>1, ConsumeMoves
<1>3. ASSUME NEW a \in Accounts, RedisFails(a) \/ ShutdownIdle(a) \/ Exit(a) \/ WorkerDies(a) \/ admin_restart_worker(a)
      PROVE  Orderly /\ UNCHANGED removed /\ Between
  <2>1. PICK w \in {"down", "stopping", "idle"} : worker' = [worker EXCEPT ![a] = w]
    BY <1>3 DEF RedisFails, ShutdownIdle, Exit, WorkerDies, admin_restart_worker
  <2>2. w \notin Busy
    BY DEF Busy
  <2>3. UNCHANGED <<queue, hand, results, batch, sendLog, dispatched, removed>>
    BY <1>3 DEF RedisFails, ShutdownIdle, Exit, WorkerDies, admin_restart_worker, adminVars, queueVars, resultVars,
                processorVars
  <2>4. Orderly
    BY <2>1, <2>2, <2>3, WorkerMoves
  <2> QED BY <2>3, <2>4 DEF Between
<1>4. CASE drop_task
  BY <1>4, DropMoves DEF drop_task, Between, resultVars
<1>5. ASSUME NEW m \in Managers, ReplaceStale(m) \/ StartContainer(m) PROVE Orderly /\ UNCHANGED removed /\ Between
  <2>1. UNCHANGED <<queue, hand, results, batch, sendLog, dispatched, removed>>
    BY <1>5 DEF ReplaceStale, StartContainer, adminVars, queueVars, resultVars, processorVars
  <2>2. account[m] \in Accounts
    BY <1>5 DEF ReplaceStale, StartContainer, TypeOK
  <2>3. CASE ReplaceStale(m)
    <3>1. PICK a \in Accounts : a = account[m]
      BY <2>2
    <3>2. worker' = [worker EXCEPT ![a] = "idle"] /\ "idle" \notin Busy
      BY <2>3, <3>1 DEF ReplaceStale, Busy
    <3>3. Orderly
      BY <2>1, <3>2, WorkerMoves
    <3> QED BY <2>1, <3>3 DEF Between
  <2>4. CASE StartContainer(m)
    <3>1. \A a \in Accounts : worker'[a] \in Busy <=> worker[a] \in Busy
      BY <2>2, <2>4 DEF StartContainer, Busy, TypeOK
    <3>2. Orderly
      BY <2>1, <3>1, StillMoves
    <3> QED BY <2>1, <3>2 DEF Between
  <2> QED BY <1>5, <2>3, <2>4
<1>6. ASSUME NEW p \in Processors, PopResult(p) \/ ProcessorDies(p) PROVE Orderly /\ UNCHANGED removed /\ Between
  BY <1>6, PopResultMoves, ProcessorDiesMoves DEF PopResult, ProcessorDies, Between, adminVars, queueVars
<1>7. ASSUME NEW p \in Processors, _process_results_async(p) PROVE Orderly /\ UNCHANGED removed
  BY <1>7, ProcessMoves DEF _process_results_async, adminVars
<1>8. ASSUME \/ ReadPage \/ UNCHANGED vars
             \/ \E m \in Managers : \/ ListActive(m) \/ ReadLength(m) \/ DropAccount(m)
                                    \/ StartFails(m) \/ ManagerDies(m)
             \/ \E p \in Processors : LoadGroups(p)
      PROVE  Orderly /\ UNCHANGED removed /\ Between
  <2>1. UNCHANGED <<queue, worker, hand, results, batch, sendLog, dispatched, removed>>
    <3>1. CASE ReadPage \/ UNCHANGED vars
      BY <3>1 DEF ReadPage, vars, adminVars, queueVars, workerVars, resultVars, processorVars
    <3>2. ASSUME NEW m \in Managers, ListActive(m) \/ ReadLength(m) \/ DropAccount(m) \/ StartFails(m) \/ ManagerDies(m)
          PROVE  UNCHANGED <<queue, worker, hand, results, batch, sendLog, dispatched, removed>>
      BY <3>2 DEF ListActive, ReadLength, DropAccount, StartFails, ManagerDies, adminVars, queueVars, workerVars,
                  resultVars, processorVars
    <3>3. ASSUME NEW p \in Processors, LoadGroups(p)
          PROVE  UNCHANGED <<queue, worker, hand, results, batch, sendLog, dispatched, removed>>
      BY <3>3 DEF LoadGroups, adminVars, queueVars, workerVars
    <3> QED BY <1>8, <3>1, <3>2, <3>3
  <2>2. Orderly
    BY <2>1, StillMoves
  <2> QED BY <2>1, <2>2 DEF Between
<1> QED BY <1>1, <1>2, <1>3, <1>4, <1>5, <1>6, <1>7, <1>8 DEF Next, Manage, Record

LEMMA OneCopyNext ==
  /\ OneCopy' <=> /\ StillOnce
                  /\ \A t : \A x, y \in Places : In(x, t)' /\ In(y, t)' => x = y
  /\ \A t : Nowhere(t)' <=> \A x \in Places : ~In(x, t)'
BY DEF OneCopy, StillOnce, Once, In, HasTask, Nowhere

(* The inductive invariant of the places.                                                  *)
PlaceInv == OneCopy /\ Fresh /\ RemovedIsGone /\ removed \subseteq dispatched

LEMMA PlaceInit == Init => PlaceInv
<1> SUFFICES ASSUME Init PROVE PlaceInv
  OBVIOUS
<1>1. /\ \A a \in Accounts : queue[a] = <<>> /\ worker[a] \notin Busy
      /\ \A f \in Fleets : results[f] = <<>>
      /\ \A p \in Processors : batch[p] = <<>>
      /\ sendLog = <<>> /\ removed = {}
  BY DEF Init, Busy
<1>2. ASSUME NEW x \in Places PROVE Kept(x) = <<>>
  <2>1. \/ \E a \in Accounts : x = <<"queue", a>> \/ x = <<"hand", a>>
        \/ \E f \in Fleets : x = <<"results", f>>
        \/ \E p \in Processors : x = <<"batch", p>>
        \/ x = Log
    BY PlacesAre
  <2> QED BY <1>1, <2>1, KeptIs
<1>3. \A x \in Places : DOMAIN Kept(x) = {}
  BY <1>2
<1> QED BY <1>1, <1>3 DEF PlaceInv, OneCopy, Fresh, Nowhere, RemovedIsGone

LEMMA PlaceStep == TypeOK /\ PlaceInv /\ [Next]_vars => PlaceInv'
<1> SUFFICES ASSUME TypeOK, PlaceInv, [Next]_vars PROVE PlaceInv'
  OBVIOUS
<1>1. OneCopy /\ Fresh /\ RemovedIsGone /\ removed \subseteq dispatched
  BY DEF PlaceInv
<1>2. /\ Orderly
      /\ \A t \in removed' \ removed : Goes(t) /\ \E x \in Places : In(x, t)
      /\ \/ \E t \in Tasks : Dispatch(t)
         \/ \E p \in Processors : _process_results_async(p)
         \/ Between
  BY <1>1, StepMoves
<1>3. dispatched \subseteq dispatched'
  BY <1>2 DEF Dispatch, _process_results_async, Between, queueVars
<1>4. OneCopy'
  <2>1. \A t : \A x, y \in Places : In(x, t)' /\ In(y, t)' => x = y
    <3> SUFFICES ASSUME NEW t, NEW x \in Places, NEW y \in Places, In(x, t)', In(y, t)'
                 PROVE  x = y
      OBVIOUS
    <3>1. Moved(t)
      BY <1>2 DEF Orderly
    <3>2. In(x, t) /\ In(y, t) => x = y
      BY <1>1, OneCopyIs
    <3> QED BY <3>1, <3>2 DEF Moved, Stays, Goes, ComesTo
  <2> QED BY <1>2, <2>1, OneCopyNext DEF Orderly
<1>5. ASSUME NEW t, Nowhere(t), t \notin dispatched' \ dispatched PROVE Nowhere(t)'
  <2>1. Moved(t) /\ \A x \in Places : ~In(x, t)
    BY <1>2, <1>5, OneCopyIs DEF Orderly
  <2> QED BY <1>5, <2>1, OneCopyNext DEF Moved, Stays, Goes
<1>6. Fresh'
  <2>1. ASSUME NEW t \in Tasks \ dispatched' PROVE Nowhere(t)'
    BY <1>1, <1>3, <1>5, <2>1 DEF Fresh
  <2> QED BY <2>1 DEF Fresh
<1>7. removed' \subseteq dispatched'
  <2> SUFFICES ASSUME NEW t \in removed' \ removed PROVE t \in dispatched
    BY <1>1, <1>3
  <2>1. PICK x \in Places : In(x, t)
    BY <1>2
  <2>2. ~Nowhere(t)
    BY <2>1, OneCopyIs
  <2>3. t \in Tasks
    <3>1. Kept(x) \in Seq(Things)
      BY KeptTypes
    <3>2. PICK n \in DOMAIN Kept(x) : Kept(x)[n].task = t
      BY <2>1 DEF In, HasTask
    <3>3. Kept(x)[n] \in Things
      BY <3>1, <3>2
    <3> QED BY <3>2, <3>3, ThingTasks
  <2> QED BY <1>1, <2>2, <2>3 DEF Fresh
<1>8. RemovedIsGone'
  <2>1. ASSUME NEW t \in removed' PROVE Nowhere(t)'
    <3>1. CASE t \in removed
      BY <1>1, <1>5, <3>1 DEF RemovedIsGone
    <3>2. CASE t \notin removed
      BY <1>2, <3>2, OneCopyNext DEF Goes
    <3> QED BY <3>1, <3>2
  <2> QED BY <2>1 DEF RemovedIsGone
<1> QED BY <1>4, <1>6, <1>7, <1>8 DEF PlaceInv

LEMMA PlaceCorrect == Spec => []PlaceInv
<1>1. Spec => []TypeOK
  BY TypeCorrect
<1> QED BY <1>1, PlaceInit, PlaceStep, PTL DEF Spec

(* A task is never in two places, whatever is retried, requeued, replaced, popped by       *)
(* overlapping runs or lost: it gets at most one SendLog row.                              *)
THEOREM OneCopyHolds == Spec => []OneCopy
<1>1. PlaceInv => OneCopy
  BY DEF PlaceInv
<1> QED BY <1>1, PlaceCorrect, PTL

(* A task the administrator was told is dropped is nowhere and never comes back.           *)
THEOREM RemovedIsGoneHolds == Spec => []RemovedIsGone
<1>1. PlaceInv => RemovedIsGone
  BY DEF PlaceInv
<1> QED BY <1>1, PlaceCorrect, PTL

-----------------------------------------------------------------------------
(* The refinement of SendOutcome.                                          *)

InLog(t) == \E n \in DOMAIN sendLog : sendLog[n].task = t

OutcomeRule ==
  \A t \in Tasks :
    /\ t \notin dispatched => OutcomeOf(t) = "new"
    /\ t \in dispatched /\ ~InLog(t) => OutcomeOf(t) = IF Nowhere(t) THEN "lost" ELSE "inflight"
    /\ \A n \in DOMAIN sendLog : t \in dispatched /\ sendLog[n].task = t =>
         OutcomeOf(t) = sendLog[n].status /\ sendLog[n].status \in {"ok", "fail", "no_retry"}

LEMMA OutcomeIs == TypeOK /\ OneCopy => OutcomeRule
<1> SUFFICES ASSUME TypeOK, OneCopy, NEW t \in Tasks
             PROVE  /\ t \notin dispatched => OutcomeOf(t) = "new"
                    /\ t \in dispatched /\ ~InLog(t) => OutcomeOf(t) = IF Nowhere(t) THEN "lost" ELSE "inflight"
                    /\ \A n \in DOMAIN sendLog : t \in dispatched /\ sendLog[n].task = t =>
                         OutcomeOf(t) = sendLog[n].status /\ sendLog[n].status \in {"ok", "fail", "no_retry"}
  BY DEF OutcomeRule
<1>1. ASSUME NEW n \in DOMAIN sendLog, t \in dispatched, sendLog[n].task = t
      PROVE  OutcomeOf(t) = sendLog[n].status /\ sendLog[n].status \in {"ok", "fail", "no_retry"}
  <2>1. Once(sendLog)
    BY OneCopyIs, KeptIs, PlacesAre
  <2>2. sendLog[n] \in Range(sendLog) /\ sendLog[n] \in Verdicts
    BY DEF Range, TypeOK
  <2>3. \A v \in Range(sendLog) : v.task = t => v = sendLog[n]
    BY <1>1, <2>1 DEF Once, Range
  <2>4. (CHOOSE v \in Range(sendLog) : v.task = t) = sendLog[n]
    BY <1>1, <2>2, <2>3
  <2>5. OutcomeOf(t) = (CHOOSE v \in Range(sendLog) : v.task = t).status
    BY <1>1 DEF OutcomeOf
  <2> QED BY <2>2, <2>4, <2>5, EntryTypes
<1>2. t \notin dispatched => OutcomeOf(t) = "new"
  BY DEF OutcomeOf
<1>3. t \in dispatched /\ ~InLog(t) => OutcomeOf(t) = IF Nowhere(t) THEN "lost" ELSE "inflight"
  BY DEF OutcomeOf, InLog
<1> QED BY <1>1, <1>2, <1>3

LEMMA OutcomeIsNext == TypeOK' /\ OneCopy' => OutcomeRule'
BY OutcomeIs, PTL

LEMMA OutcomeInit == Init => Outcome!Init
BY DEF Init, Outcome!Init, outcome, OutcomeOf

LEMMA OutcomeSame ==
  ASSUME NEW t, t \in dispatched' <=> t \in dispatched, sendLog' = sendLog, Nowhere(t)' <=> Nowhere(t)
  PROVE  OutcomeOf(t)' = OutcomeOf(t)
BY DEF OutcomeOf

LEMMA OutcomeStep ==
  TypeOK /\ PlaceInv /\ (TypeOK /\ PlaceInv)' /\ [Next]_vars => [Outcome!Next]_outcome
<1> SUFFICES ASSUME TypeOK, PlaceInv, TypeOK', PlaceInv', [Next]_vars
             PROVE  Outcome!Next
  OBVIOUS
<1>a. OneCopy /\ Fresh /\ OneCopy'
  BY DEF PlaceInv
<1>b. OutcomeRule /\ OutcomeRule'
  BY <1>a, OutcomeIs, OutcomeIsNext
<1>c. /\ \A t : Nowhere(t) <=> \A x \in Places : ~In(x, t)
      /\ \A t : Nowhere(t)' <=> \A x \in Places : ~In(x, t)'
  BY OneCopyIs, OneCopyNext
<1>d. /\ \A t : InLog(t) <=> In(Log, t)
      /\ \A t : InLog(t)' <=> In(Log, t)'
  BY KeptIs DEF In, InLog, HasTask
<1>e. Log \in Places
  BY PlacesAre
<1>f. outcome = [t \in Tasks |-> OutcomeOf(t)] /\ outcome' = [t \in Tasks |-> OutcomeOf(t)']
  BY DEF outcome
<1>1. ASSUME NEW t \in Tasks, Dispatch(t) PROVE Outcome!Submit(t)
  <2>1. t \notin dispatched /\ dispatched' = dispatched \cup {t} /\ sendLog' = sendLog
    BY <1>1 DEF Dispatch, resultVars
  <2>2. Orderly /\ \A u : u # t => Stays(u)
    BY <1>1, <1>a, <2>1, DispatchMoves DEF Fresh
  <2>3. \A u \in Tasks \ {t} : OutcomeOf(u)' = OutcomeOf(u)
    BY <1>c, <2>1, <2>2, OutcomeSame DEF Stays
  <2>4. OutcomeOf(t) = "new"
    BY <1>b, <2>1 DEF OutcomeRule
  <2>5. OutcomeOf(t)' = "inflight"
    <3>1. ~InLog(t)'
      <4>1. ~In(Log, t)
        BY <1>a, <1>c, <1>e, <2>1 DEF Fresh
      <4> QED BY <1>d, <2>1, <4>1 DEF InLog
    <3>2. ~Nowhere(t)'
      <4>1. /\ AccountOf[t] \in Accounts /\ <<"queue", AccountOf[t]>> \in Places
            /\ Kept(<<"queue", AccountOf[t]>>)' = queue'[AccountOf[t]]
        BY SendPipelineAssumption, PlacesAre, KeptIs
      <4>2. queue'[AccountOf[t]] = Append(queue[AccountOf[t]], [task |-> t, retry |-> 0, delayed |-> FALSE])
        BY <1>1, <4>1 DEF Dispatch, TypeOK
      <4>3. HasTask(queue'[AccountOf[t]], t)
        <5>1. queue[AccountOf[t]] \in Seq(Entries)
          BY <4>1 DEF TypeOK
        <5>2. 0 \in 0 .. MAX_RETRIES
          BY SendPipelineAssumption
        <5>3. [task |-> t, retry |-> 0, delayed |-> FALSE] \in Entries
          BY <5>2 DEF Entries
        <5> QED BY <4>2, <5>1, <5>3, AppendOf
      <4>4. In(<<"queue", AccountOf[t]>>, t)'
        BY <4>1, <4>3 DEF In, HasTask
      <4> QED BY <1>c, <4>1, <4>4
    <3> QED BY <1>b, <2>1, <3>1, <3>2 DEF OutcomeRule
  <2>6. outcome' = [outcome EXCEPT ![t] = "inflight"]
    BY <1>f, <2>3, <2>5
  <2> QED BY <1>f, <2>4, <2>6 DEF Outcome!Submit
<1>2. ASSUME NEW p \in Processors, _process_results_async(p)
      PROVE  \E S \in SUBSET Outcome!InFlight : Outcome!Settle(S)
  <2> DEFINE x == <<"batch", p>>
             S == {t \in Tasks : In(x, t)}
             v == [t \in S |-> OutcomeOf(t)']
  <2>1. /\ \A t : IF In(x, t) THEN ComesTo(Log, t) ELSE Stays(t)
        /\ sendLog' = sendLog \o batch[p] /\ dispatched' = dispatched
        /\ x \in Places /\ x # Log
    BY <1>2, <1>a, ProcessMoves, PlacesAre, PlacesDiffer DEF _process_results_async, queueVars
  <2> HIDE DEF x
  <2>2. ASSUME NEW t \in S
        PROVE  t \in dispatched /\ OutcomeOf(t) = "inflight" /\ OutcomeOf(t)' \in {"ok", "fail", "no_retry"}
    <3>1. t \in dispatched /\ ~Nowhere(t)
      BY <1>a, <1>c, <2>1 DEF Fresh
    <3>2. ~InLog(t)
      <4>1. \A y, z \in Places : In(y, t) /\ In(z, t) => y = z
        BY <1>a, OneCopyIs
      <4> QED BY <1>d, <1>e, <2>1, <4>1
    <3>3. InLog(t)'
      BY <1>d, <1>e, <2>1 DEF ComesTo
    <3>4. OutcomeOf(t) = "inflight"
      BY <1>b, <3>1, <3>2 DEF OutcomeRule
    <3>5. PICK n \in DOMAIN sendLog' : sendLog'[n].task = t
      BY <3>3 DEF InLog
    <3>6. OutcomeOf(t)' \in {"ok", "fail", "no_retry"}
      BY <1>b, <2>1, <3>1, <3>5 DEF OutcomeRule
    <3> QED BY <3>1, <3>4, <3>6
  <2>3. ASSUME NEW t \in Tasks, t \notin S PROVE OutcomeOf(t)' = OutcomeOf(t)
    <3>1. Stays(t)
      BY <2>1, <2>3
    <3>2. CASE t \in dispatched /\ InLog(t)
      <4>1. PICK n \in DOMAIN sendLog : sendLog[n].task = t
        BY <3>2 DEF InLog
      <4>2. n \in DOMAIN sendLog' /\ sendLog'[n] = sendLog[n]
        <5>1. sendLog \in Seq(Verdicts) /\ batch[p] \in Seq(Verdicts)
          BY DEF TypeOK
        <5> QED BY <2>1, <5>1
      <4> QED BY <1>b, <2>1, <3>2, <4>1, <4>2 DEF OutcomeRule
    <3>3. CASE ~InLog(t)
      <4>1. ~InLog(t)' /\ (Nowhere(t)' <=> Nowhere(t))
        BY <1>c, <1>d, <1>e, <3>1, <3>3 DEF Stays
      <4> QED BY <1>b, <2>1, <3>3, <4>1 DEF OutcomeRule
    <3>4. CASE t \notin dispatched
      BY <1>b, <2>1, <3>4 DEF OutcomeRule
    <3> QED BY <3>2, <3>3, <3>4
  <2>4. outcome' = [t \in Tasks |-> IF t \in S THEN v[t] ELSE outcome[t]]
    BY <1>f, <2>3
  <2>5. v \in [S -> {"ok", "fail", "no_retry"}]
    BY <2>2
  <2>6. S \in SUBSET Outcome!InFlight
    BY <1>f, <2>2 DEF Outcome!InFlight
  <2> HIDE DEF S, v
  <2> QED BY <2>4, <2>5, <2>6 DEF Outcome!Settle, Outcome!Final
<1>3. ASSUME Between PROVE \E S \in SUBSET Outcome!InFlight : Outcome!Lose(S)
  <2> DEFINE S == {t \in dispatched : ~Nowhere(t) /\ Nowhere(t)'}
  <2>0. UNCHANGED <<dispatched, sendLog>> /\ dispatched \subseteq Tasks
    BY <1>3 DEF Between, TypeOK
  <2>1. Orderly
    BY <1>a, StepMoves
  <2>2. ASSUME NEW t \in S PROVE OutcomeOf(t) = "inflight" /\ OutcomeOf(t)' = "lost"
    <3>1. ~InLog(t)'
      BY <1>c, <1>d, <1>e, <2>2
    <3>2. ~InLog(t)
      BY <2>0, <3>1 DEF InLog
    <3> QED BY <1>b, <2>0, <2>2, <3>1, <3>2 DEF OutcomeRule
  <2>3. ASSUME NEW t \in Tasks, t \notin S PROVE OutcomeOf(t)' = OutcomeOf(t)
    <3>1. CASE t \notin dispatched
      BY <1>b, <2>0, <3>1 DEF OutcomeRule
    <3>2. CASE t \in dispatched
      <4>1. Moved(t) /\ t \notin dispatched' \ dispatched
        BY <2>0, <2>1 DEF Orderly
      <4>2. Nowhere(t) => Nowhere(t)'
        BY <1>c, <4>1 DEF Moved, Stays, Goes
      <4>3. Nowhere(t)' <=> Nowhere(t)
        BY <2>3, <3>2, <4>2
      <4> QED BY <2>0, <4>3, OutcomeSame
    <3> QED BY <3>1, <3>2
  <2>4. outcome' = [t \in Tasks |-> IF t \in S THEN "lost" ELSE outcome[t]]
    BY <1>f, <2>2, <2>3
  <2>5. S \in SUBSET Outcome!InFlight
    BY <1>f, <2>0, <2>2 DEF Outcome!InFlight
  <2> HIDE DEF S
  <2> QED BY <2>4, <2>5 DEF Outcome!Lose
<1>4. \/ \E t \in Tasks : Dispatch(t)
      \/ \E p \in Processors : _process_results_async(p)
      \/ Between
  BY <1>a, StepMoves
<1> QED BY <1>1, <1>2, <1>3, <1>4 DEF Outcome!Next

(* The pipeline implements SendOutcome: a task is settled once, for good, or lost, for     *)
(* good, whichever actor fails at whichever command.                                       *)
THEOREM ImplementsSendOutcomeHolds == Spec => ImplementsSendOutcome
<1>1. Init => TypeOK /\ PlaceInv
  BY TypeInit, PlaceInit
<1>2. (TypeOK /\ PlaceInv) /\ [Next]_vars => (TypeOK /\ PlaceInv)'
  BY TypeStep, PlaceStep
<1>3. Init => Outcome!Init
  BY OutcomeInit
<1>4. (TypeOK /\ PlaceInv) /\ (TypeOK /\ PlaceInv)' /\ [Next]_vars => [Outcome!Next]_outcome
  BY OutcomeStep
<1> QED BY <1>1, <1>2, <1>3, <1>4, PTL DEF Spec, ImplementsSendOutcome, Outcome!Spec

-----------------------------------------------------------------------------
(* How often a task is posted.                                             *)

(* The verdicts on their way to the history, and in it.                                    *)
Told ==
  (UNION {Range(results[f]) : f \in Fleets}) \cup (UNION {Range(batch[p]) : p \in Processors}) \cup Range(sendLog)

(* A queued task has been posted once per retry or rate limit it has behind it.            *)
Within(e) == posted[e.task] <= e.retry + limited

PostInv ==
  /\ \A t \in Tasks : posted[t] <= MAX_RETRIES + 1 + limited /\ (t \notin dispatched => posted[t] = 0)
  /\ \A a \in Accounts : /\ \A e \in Range(queue[a]) : Within(e)
                         /\ worker[a] = "popped" => Within(hand[a])
                         /\ worker[a] = "sent" => posted[hand[a].task] > 0
  /\ \A v \in Told : v.status = "ok" => posted[v.task] > 0

LEMMA ToldIs ==
  /\ \A v : v \in Told <=> \/ \E f \in Fleets : v \in Range(results[f])
                           \/ \E p \in Processors : v \in Range(batch[p])
                           \/ v \in Range(sendLog)
  /\ \A v : v \in Told' <=> \/ \E f \in Fleets : v \in Range(results'[f])
                            \/ \E p \in Processors : v \in Range(batch'[p])
                            \/ v \in Range(sendLog')
<1> DEFINE A == UNION {Range(results[f]) : f \in Fleets}
           B == UNION {Range(batch[p]) : p \in Processors}
           C == UNION {Range(results'[f]) : f \in Fleets}
           D == UNION {Range(batch'[p]) : p \in Processors}
<1>1. \A v : v \in A <=> \E f \in Fleets : v \in Range(results[f])
  OBVIOUS
<1>2. \A v : v \in B <=> \E p \in Processors : v \in Range(batch[p])
  OBVIOUS
<1>3. \A v : v \in C <=> \E f \in Fleets : v \in Range(results'[f])
  OBVIOUS
<1>4. \A v : v \in D <=> \E p \in Processors : v \in Range(batch'[p])
  OBVIOUS
<1>5. Told = A \cup B \cup Range(sendLog)
  BY Zenon DEF Told
<1>7. Told' = C \cup D \cup Range(sendLog')
  BY Zenon DEF Told
<1> HIDE DEF A, B, C, D
<1>6. /\ \A v : v \in Told <=> v \in A \/ v \in B \/ v \in Range(sendLog)
      /\ \A v : v \in Told' <=> v \in C \/ v \in D \/ v \in Range(sendLog')
  BY <1>5, <1>7, Zenon
<1> QED BY <1>1, <1>2, <1>3, <1>4, <1>6, Zenon

LEMMA ToldTypes == TypeOK => Told \subseteq Verdicts
<1> SUFFICES ASSUME TypeOK, NEW v \in Told PROVE v \in Verdicts
  OBVIOUS
<1>1. \A s \in Seq(Verdicts) : Range(s) \subseteq Verdicts
  BY DEF Range
<1> QED BY <1>1, ToldIs DEF TypeOK

LEMMA PostInit == Init => PostInv
<1> SUFFICES ASSUME Init PROVE PostInv
  OBVIOUS
<1>1. Range(<<>>) = {}
  BY DEF Range
<1>2. /\ \A a \in Accounts : queue[a] = <<>> /\ worker[a] \notin {"popped", "sent"}
      /\ \A f \in Fleets : results[f] = <<>>
      /\ \A p \in Processors : batch[p] = <<>>
      /\ sendLog = <<>> /\ (\A t \in Tasks : posted[t] = 0) /\ limited = 0
  BY DEF Init
<1>3. Told = {}
  BY <1>1, <1>2, ToldIs
<1>4. \A t \in Tasks : posted[t] <= MAX_RETRIES + 1 + limited
  BY <1>2, SendPipelineAssumption
<1> QED BY <1>1, <1>2, <1>3, <1>4 DEF PostInv

(* What a consumer holds is dispatched and nowhere else.                                   *)
LEMMA Alone ==
  ASSUME TypeOK, OneCopy, Fresh, NEW a \in Accounts, worker[a] \in Busy
  PROVE  /\ hand[a] \in Entries /\ hand[a].task \in dispatched
         /\ \A b \in Accounts : \A e \in Range(queue[b]) : e.task # hand[a].task
         /\ \A b \in Accounts \ {a} : worker[b] \in Busy => hand[b].task # hand[a].task
<1> DEFINE t == hand[a].task
<1>1. \A x, y \in Places : In(x, t) /\ In(y, t) => x = y
  BY OneCopyIs
<1>h. \A b \in Accounts : worker[b] \in Busy => In(<<"hand", b>>, hand[b].task) /\ <<"hand", b>> \in Places
  <2> SUFFICES ASSUME NEW b \in Accounts, worker[b] \in Busy
               PROVE  In(<<"hand", b>>, hand[b].task) /\ <<"hand", b>> \in Places
    OBVIOUS
  <2>1. Kept(<<"hand", b>>) = <<hand[b]>>
    BY KeptIs
  <2>2. HasTask(<<hand[b]>>, hand[b].task)
    <3>1. 1 \in DOMAIN <<hand[b]>> /\ <<hand[b]>>[1].task = hand[b].task
      OBVIOUS
    <3> QED BY <3>1, Zenon DEF HasTask
  <2> QED BY <2>1, <2>2, PlacesAre DEF In
<1>2. In(<<"hand", a>>, t) /\ <<"hand", a>> \in Places
  BY <1>h
<1>3. hand[a] \in Entries /\ t \in Tasks
  BY EntryTypes DEF TypeOK, Busy
<1>4. t \in dispatched
  BY <1>2, <1>3, OneCopyIs DEF Fresh
<1>5. ASSUME NEW b \in Accounts, NEW e \in Range(queue[b]), e.task = t PROVE FALSE
  <2>1. In(<<"queue", b>>, t) /\ <<"queue", b>> \in Places
    <3>1. Kept(<<"queue", b>>) = queue[b] /\ <<"queue", b>> \in Places
      BY KeptIs, PlacesAre
    <3>2. HasTask(queue[b], t)
      BY <1>5 DEF HasTask, Range
    <3> QED BY <3>1, <3>2 DEF In
  <2> QED BY <1>1, <1>2, <2>1, PlacesDiffer
<1>6. ASSUME NEW b \in Accounts \ {a}, worker[b] \in Busy, hand[b].task = t PROVE FALSE
  <2>1. In(<<"hand", b>>, t) /\ <<"hand", b>> \in Places
    BY <1>6, <1>h
  <2>2. <<"hand", b>> # <<"hand", a>>
    OBVIOUS
  <2> QED BY <1>1, <1>2, <2>1, <2>2
<1> QED BY <1>3, <1>4, <1>5, <1>6

(* Steps that post nothing and bring nothing new to a queue, a hand or a list.             *)
LEMMA FewerPosts ==
  ASSUME PostInv, UNCHANGED <<posted, limited, dispatched>>,
         \A a \in Accounts : Range(queue'[a]) \subseteq Range(queue[a]),
         \A a \in Accounts : worker'[a] \in Busy => worker'[a] = worker[a] /\ hand'[a] = hand[a],
         Told' \subseteq Told
  PROVE  PostInv'
<1>1. \A e : Within(e)' <=> Within(e)
  BY DEF Within
<1>2. ASSUME NEW a \in Accounts
      PROVE  /\ \A e \in Range(queue'[a]) : Within(e)'
             /\ worker'[a] = "popped" => Within(hand[a])' /\ hand'[a] = hand[a]
             /\ worker'[a] = "sent" => posted[hand[a].task] > 0 /\ hand'[a] = hand[a]
  BY <1>1 DEF PostInv, Busy, Within
<1> QED BY <1>1, <1>2 DEF PostInv, Within

LEMMA PopPosts ==
  ASSUME TypeOK, PostInv, NEW a \in Accounts, Pop(a)
  PROVE  PostInv'
<1>1. queue[a] # <<>> /\ queue[a] \in Seq(Entries)
  BY DEF Pop, TypeOK
<1>2. Head(queue[a]) \in Range(queue[a]) /\ Range(Tail(queue[a])) \subseteq Range(queue[a])
  BY <1>1, TailOf
<1>3. /\ queue'[a] = Tail(queue[a]) /\ \A b \in Accounts \ {a} : queue'[b] = queue[b]
      /\ worker'[a] = "popped" /\ hand'[a] = Head(queue[a])
      /\ \A b \in Accounts \ {a} : worker'[b] = worker[b] /\ hand'[b] = hand[b]
      /\ UNCHANGED <<posted, limited, dispatched, results, batch, sendLog>>
  BY DEF Pop, TypeOK, resultVars, processorVars
<1>4. Told' = Told
  BY <1>3, ToldIs
<1>5. \A b \in Accounts : \A e \in Range(queue'[b]) : posted[e.task] <= e.retry + limited
  BY <1>2, <1>3 DEF PostInv, Within
<1>6. posted[hand'[a].task] <= hand'[a].retry + limited
  BY <1>2, <1>3 DEF PostInv, Within
<1>7. \A b \in Accounts : /\ worker'[b] = "popped" => posted[hand'[b].task] <= hand'[b].retry + limited
                          /\ worker'[b] = "sent" => posted[hand'[b].task] > 0
  BY <1>3, <1>6 DEF PostInv, Within
<1> QED BY <1>3, <1>4, <1>5, <1>7 DEF PostInv, Within

(* A consumer that has perhaps posted what it holds.                                       *)
Attempted(a) ==
  \A t \in Tasks : posted'[t] \in posted[t] .. posted[t] + (IF t = hand[a].task THEN 1 ELSE 0)

LEMMA AttemptPosts ==
  ASSUME TypeOK, OneCopy, Fresh, PostInv, NEW a \in Accounts, worker[a] = "popped", Attempted(a),
         limited' \in Nat, limited <= limited', UNCHANGED dispatched
  PROVE  /\ \A t \in Tasks : posted'[t] <= MAX_RETRIES + 1 + limited' /\ (t \notin dispatched => posted'[t] = 0)
         /\ posted'[hand[a].task] <= hand[a].retry + 1 + limited
         /\ \A b \in Accounts : /\ \A e \in Range(queue[b]) : posted'[e.task] <= e.retry + limited'
                                /\ b # a /\ worker[b] = "popped" => posted'[hand[b].task] <= hand[b].retry + limited'
                                /\ b # a /\ worker[b] = "sent" => posted'[hand[b].task] > 0
         /\ \A v \in Told : v.status = "ok" => posted'[v.task] > 0
<1>0. /\ \A t \in Tasks : posted[t] \in Nat
      /\ MAX_RETRIES \in Nat /\ limited \in Nat
      /\ \A t \in Tasks : posted'[t] \in Nat /\ posted[t] <= posted'[t] /\ posted'[t] <= posted[t] + 1
      /\ \A t \in Tasks : t # hand[a].task => posted'[t] = posted[t]
  <2>1. (\A t \in Tasks : posted[t] \in Nat) /\ MAX_RETRIES \in Nat /\ limited \in Nat
    BY SendPipelineAssumption DEF TypeOK
  <2>2. ASSUME NEW t \in Tasks
        PROVE  /\ posted'[t] \in Nat /\ posted[t] <= posted'[t] /\ posted'[t] <= posted[t] + 1
               /\ t # hand[a].task => posted'[t] = posted[t]
    <3>1. posted'[t] \in posted[t] .. posted[t] + (IF t = hand[a].task THEN 1 ELSE 0)
      BY DEF Attempted
    <3> QED BY <2>1, <3>1
  <2> QED BY <2>1, <2>2
<1>1. /\ hand[a] \in Entries /\ hand[a].task \in dispatched
      /\ \A b \in Accounts : \A e \in Range(queue[b]) : e.task # hand[a].task
      /\ \A b \in Accounts \ {a} : worker[b] \in Busy => hand[b].task # hand[a].task
  BY Alone DEF Busy
<1>2. hand[a].retry \in Nat /\ hand[a].retry <= MAX_RETRIES /\ hand[a].task \in Tasks
  BY <1>0, <1>1, EntryTypes
<1>3. posted[hand[a].task] <= hand[a].retry + limited
  BY DEF PostInv, Within
<1>4. posted'[hand[a].task] <= hand[a].retry + 1 + limited
  BY <1>0, <1>2, <1>3
<1>5. \A t \in Tasks : posted[t] <= MAX_RETRIES + 1 + limited /\ (t \notin dispatched => posted[t] = 0)
  BY DEF PostInv
<1>6. ASSUME NEW t \in Tasks
      PROVE  posted'[t] <= MAX_RETRIES + 1 + limited' /\ (t \notin dispatched => posted'[t] = 0)
  <2>1. CASE t = hand[a].task
    BY <1>0, <1>1, <1>2, <1>4, <2>1
  <2>2. CASE t # hand[a].task
    BY <1>0, <1>5, <2>2
  <2> QED BY <2>1, <2>2
<1>7. ASSUME NEW b \in Accounts, NEW e \in Range(queue[b]) PROVE posted'[e.task] <= e.retry + limited'
  <2>1. e \in Entries
    BY DEF Range, TypeOK
  <2>2. e.task \in Tasks /\ e.retry \in Nat
    BY <1>0, <2>1, EntryTypes
  <2>3. posted[e.task] <= e.retry + limited
    BY DEF PostInv, Within
  <2>4. posted'[e.task] = posted[e.task]
    BY <1>0, <1>1, <2>2
  <2> QED BY <1>0, <2>2, <2>3, <2>4
<1>8. ASSUME NEW b \in Accounts, b # a, worker[b] \in Busy
      PROVE  /\ worker[b] = "popped" => posted'[hand[b].task] <= hand[b].retry + limited'
             /\ worker[b] = "sent" => posted'[hand[b].task] > 0
  <2>1. hand[b].task \in Tasks /\ hand[b].retry \in Nat
    BY <1>0, <1>8, EntryTypes DEF TypeOK, Busy
  <2>2. posted'[hand[b].task] = posted[hand[b].task]
    BY <1>0, <1>1, <1>8, <2>1
  <2>3. /\ worker[b] = "popped" => posted[hand[b].task] <= hand[b].retry + limited
        /\ worker[b] = "sent" => posted[hand[b].task] > 0
    BY DEF PostInv, Within
  <2> QED BY <1>0, <2>1, <2>2, <2>3
<1>9. ASSUME NEW v \in Told, v.status = "ok" PROVE posted'[v.task] > 0
  <2>1. v.task \in Tasks
    BY ToldTypes, EntryTypes
  <2>2. posted[v.task] > 0
    BY <1>9 DEF PostInv
  <2> QED BY <1>0, <2>1, <2>2
<1> QED BY <1>4, <1>6, <1>7, <1>8, <1>9 DEF Busy

LEMMA RequeuePosts ==
  ASSUME TypeOK, OneCopy, Fresh, PostInv, NEW a \in Accounts, worker[a] = "popped", Attempted(a),
         limited' \in Nat, limited <= limited', NEW e \in Entries, Requeue(a, e),
         posted'[e.task] <= e.retry + limited'
  PROVE  PostInv'
<1>1. /\ queue'[a] = Append(queue[a], e) /\ \A b \in Accounts \ {a} : queue'[b] = queue[b]
      /\ worker'[a] = "idle" /\ \A b \in Accounts \ {a} : worker'[b] = worker[b]
      /\ UNCHANGED <<hand, dispatched, results, batch, sendLog>>
  BY DEF Requeue, TypeOK, resultVars, processorVars
<1>2. Range(queue'[a]) = Range(queue[a]) \cup {e}
  BY <1>1, AppendOf DEF TypeOK
<1>3. Told' = Told
  BY <1>1, ToldIs
<1>4. /\ \A t \in Tasks : posted'[t] <= MAX_RETRIES + 1 + limited' /\ (t \notin dispatched => posted'[t] = 0)
      /\ \A b \in Accounts : /\ \A x \in Range(queue[b]) : posted'[x.task] <= x.retry + limited'
                             /\ b # a /\ worker[b] = "popped" => posted'[hand[b].task] <= hand[b].retry + limited'
                             /\ b # a /\ worker[b] = "sent" => posted'[hand[b].task] > 0
      /\ \A v \in Told : v.status = "ok" => posted'[v.task] > 0
  BY <1>1, AttemptPosts
<1>5. \A b \in Accounts : /\ \A x \in Range(queue'[b]) : posted'[x.task] <= x.retry + limited'
                          /\ worker'[b] = "popped" => posted'[hand'[b].task] <= hand'[b].retry + limited'
                          /\ worker'[b] = "sent" => posted'[hand'[b].task] > 0
  BY <1>1, <1>2, <1>4
<1> QED BY <1>1, <1>3, <1>4, <1>5 DEF PostInv, Within

LEMMA publishTold ==
  ASSUME TypeOK, NEW a \in Accounts, worker[a] \in Busy, NEW status \in {"ok", "fail", "no_retry"},
         publishResult(a, status)
  PROVE  /\ \A v \in Told' : v \in Told \/ (v.task = hand[a].task /\ v.status = status)
         /\ worker'[a] = "idle" /\ \A b \in Accounts \ {a} : worker'[b] = worker[b]
         /\ UNCHANGED <<queue, hand, dispatched>>
<1> DEFINE f == Fleet[a]
           e == [task |-> hand[a].task, status |-> status]
<1>1. e \in Verdicts /\ f \in Fleets /\ e.task = hand[a].task /\ e.status = status
  BY EntryTypes, SendPipelineAssumption DEF TypeOK, Busy, Verdicts
<1>2. /\ results'[f] = Append(results[f], e) /\ \A g \in Fleets \ {f} : results'[g] = results[g]
      /\ worker'[a] = "idle" /\ \A b \in Accounts \ {a} : worker'[b] = worker[b]
      /\ UNCHANGED <<queue, hand, dispatched, batch, sendLog>>
  BY <1>1 DEF publishResult, TypeOK, queueVars, processorVars
<1>3. results[f] \in Seq(Verdicts)
  BY <1>1 DEF TypeOK
<1> HIDE DEF f, e
<1>4. Range(results'[f]) = Range(results[f]) \cup {e}
  BY <1>1, <1>2, <1>3, AppendOf
<1>5. \A v \in Told' : v \in Told \/ v = e
  BY <1>2, <1>4, ToldIs
<1> QED BY <1>1, <1>2, <1>5

LEMMA publishPosts ==
  ASSUME TypeOK, OneCopy, Fresh, PostInv, NEW a \in Accounts, worker[a] = "popped", Attempted(a),
         UNCHANGED limited, NEW status \in {"fail", "no_retry"}, publishResult(a, status)
  PROVE  PostInv'
<1>0. limited \in Nat /\ limited <= limited
  BY SendPipelineAssumption DEF TypeOK
<1>1. /\ \A v \in Told' : v \in Told \/ (v.task = hand[a].task /\ v.status = status)
      /\ worker'[a] = "idle" /\ \A b \in Accounts \ {a} : worker'[b] = worker[b]
      /\ UNCHANGED <<queue, hand, dispatched>>
  BY publishTold DEF Busy
<1>2. /\ \A t \in Tasks : posted'[t] <= MAX_RETRIES + 1 + limited /\ (t \notin dispatched => posted'[t] = 0)
      /\ \A b \in Accounts : /\ \A x \in Range(queue[b]) : posted'[x.task] <= x.retry + limited
                             /\ b # a /\ worker[b] = "popped" => posted'[hand[b].task] <= hand[b].retry + limited
                             /\ b # a /\ worker[b] = "sent" => posted'[hand[b].task] > 0
      /\ \A v \in Told : v.status = "ok" => posted'[v.task] > 0
  BY <1>0, <1>1, AttemptPosts
<1>3. \A b \in Accounts : /\ \A x \in Range(queue'[b]) : posted'[x.task] <= x.retry + limited'
                          /\ worker'[b] = "popped" => posted'[hand'[b].task] <= hand'[b].retry + limited'
                          /\ worker'[b] = "sent" => posted'[hand'[b].task] > 0
  BY <1>1, <1>2
<1>4. \A v \in Told' : v.status = "ok" => posted'[v.task] > 0
  BY <1>1, <1>2
<1> QED BY <1>1, <1>2, <1>3, <1>4 DEF PostInv, Within

LEMMA ConsumePosts ==
  ASSUME TypeOK, TypeOK', OneCopy, Fresh, PostInv, NEW a \in Accounts, Consume(a)
  PROVE  PostInv'
<1>0. /\ limited \in Nat /\ limited' \in Nat /\ limited <= limited /\ MAX_RETRIES \in Nat
      /\ \A t \in Tasks : posted[t] \in Nat
  BY SendPipelineAssumption DEF TypeOK
<1>1. worker[a] \in Busy => hand[a] \in Entries
  BY DEF TypeOK, Busy
<1>2. CASE Pop(a)
  BY <1>2, PopPosts
<1>3. CASE RequeueDelayed(a)
  <2>1. UNCHANGED <<posted, limited>> /\ worker[a] = "popped" /\ Requeue(a, hand[a])
    BY <1>3 DEF RequeueDelayed
  <2>2. Attempted(a)
    BY <1>0, <2>1 DEF Attempted
  <2>3. posted'[hand[a].task] <= hand[a].retry + limited'
    BY <2>1 DEF PostInv, Within
  <2>4. hand[a] \in Entries /\ limited <= limited'
    BY <1>0, <1>1, <2>1 DEF Busy
  <2>5. PICK e \in Entries : e = hand[a]
    BY <2>4
  <2> QED BY <1>0, <2>1, <2>2, <2>3, <2>4, <2>5, RequeuePosts
<1>4. CASE SendOk(a)
  <2>1. /\ posted' = [posted EXCEPT ![hand[a].task] = posted[hand[a].task] + 1]
        /\ worker[a] = "popped" /\ worker' = [worker EXCEPT ![a] = "sent"]
        /\ UNCHANGED <<dispatched, queue, hand, limited, results, batch, sendLog>>
    BY <1>4 DEF SendOk, queueVars, resultVars, processorVars
  <2>2. hand[a].task \in Tasks
    BY <1>1, <2>1, EntryTypes DEF Busy
  <2>3. /\ posted'[hand[a].task] = posted[hand[a].task] + 1
        /\ \A t \in Tasks \ {hand[a].task} : posted'[t] = posted[t]
    BY <2>1, <2>2 DEF TypeOK
  <2>4. Attempted(a)
    <3> SUFFICES ASSUME NEW t \in Tasks
                 PROVE  posted'[t] \in posted[t] .. posted[t] + (IF t = hand[a].task THEN 1 ELSE 0)
      BY DEF Attempted
    <3> QED BY <1>0, <2>3
  <2>5. /\ \A t \in Tasks : posted'[t] <= MAX_RETRIES + 1 + limited' /\ (t \notin dispatched => posted'[t] = 0)
        /\ \A b \in Accounts : /\ \A x \in Range(queue[b]) : posted'[x.task] <= x.retry + limited'
                               /\ b # a /\ worker[b] = "popped" => posted'[hand[b].task] <= hand[b].retry + limited'
                               /\ b # a /\ worker[b] = "sent" => posted'[hand[b].task] > 0
        /\ \A v \in Told : v.status = "ok" => posted'[v.task] > 0
    BY <1>0, <2>1, <2>4, AttemptPosts
  <2>6. worker'[a] = "sent" /\ \A b \in Accounts \ {a} : worker'[b] = worker[b]
    BY <2>1 DEF TypeOK
  <2>7. posted'[hand[a].task] > 0
    BY <1>0, <2>2, <2>3
  <2>8. \A b \in Accounts : /\ \A x \in Range(queue'[b]) : posted'[x.task] <= x.retry + limited'
                            /\ worker'[b] = "popped" => posted'[hand'[b].task] <= hand'[b].retry + limited'
                            /\ worker'[b] = "sent" => posted'[hand'[b].task] > 0
    BY <2>1, <2>5, <2>6, <2>7
  <2>9. Told' = Told
    BY <2>1, ToldIs
  <2> QED BY <2>1, <2>5, <2>8, <2>9 DEF PostInv, Within
<1>5. CASE PublishOk(a)
  <2>1. worker[a] = "sent" /\ publishResult(a, "ok") /\ UNCHANGED <<posted, limited>>
    BY <1>5 DEF PublishOk
  <2>2. /\ \A v \in Told' : v \in Told \/ (v.task = hand[a].task /\ v.status = "ok")
        /\ worker'[a] = "idle" /\ \A b \in Accounts \ {a} : worker'[b] = worker[b]
        /\ UNCHANGED <<queue, hand, dispatched>>
    BY <2>1, publishTold DEF Busy
  <2>3. posted[hand[a].task] > 0
    BY <2>1 DEF PostInv
  <2>4. \A v \in Told' : v.status = "ok" => posted'[v.task] > 0
    BY <2>1, <2>2, <2>3 DEF PostInv
  <2>5. \A b \in Accounts : /\ \A x \in Range(queue'[b]) : posted'[x.task] <= x.retry + limited'
                            /\ worker'[b] = "popped" => posted'[hand'[b].task] <= hand'[b].retry + limited'
                            /\ worker'[b] = "sent" => posted'[hand'[b].task] > 0
    BY <2>1, <2>2 DEF PostInv, Within
  <2>6. \A t \in Tasks : posted'[t] <= MAX_RETRIES + 1 + limited' /\ (t \notin dispatched' => posted'[t] = 0)
    BY <2>1, <2>2 DEF PostInv
  <2> QED BY <2>4, <2>5, <2>6 DEF PostInv, Within
<1>6. ASSUME PostedOrNot(a), worker[a] = "popped" PROVE Attempted(a)
  BY <1>6, PostedTypes DEF Busy, Attempted
<1>7. CASE SendForbidden(a)
  BY <1>6, <1>7, publishPosts DEF SendForbidden
<1>8. CASE SendExhausted(a)
  BY <1>6, <1>8, publishPosts DEF SendExhausted
<1>9. ASSUME PostedOrNot(a), worker[a] = "popped", UNCHANGED dispatched, limited <= limited'
      PROVE  posted'[hand[a].task] <= hand[a].retry + 1 + limited
  BY <1>0, <1>6, <1>9, AttemptPosts
<1>10. CASE SendRateLimited(a)
  <2>1. /\ worker[a] = "popped" /\ PostedOrNot(a) /\ limited' = limited + 1
        /\ Requeue(a, [hand[a] EXCEPT !.delayed = TRUE]) /\ UNCHANGED dispatched
    BY <1>10 DEF SendRateLimited, Requeue
  <2>2. PICK e \in Entries : e = [hand[a] EXCEPT !.delayed = TRUE] /\ e.task = hand[a].task /\ e.retry = hand[a].retry
    BY <1>1, <2>1, Delayed DEF Busy
  <2>3. posted'[e.task] <= e.retry + limited'
    <3>1. posted'[e.task] <= e.retry + 1 + limited
      BY <1>0, <1>9, <2>1, <2>2
    <3>2. e.retry \in Nat
      BY <1>0, EntryTypes
    <3>3. e.retry + 1 + limited = e.retry + limited'
      BY <1>0, <2>1, <3>2
    <3> QED BY <3>1, <3>3
  <2>4. limited <= limited'
    BY <1>0, <2>1
  <2> QED BY <1>0, <1>6, <2>1, <2>2, <2>3, <2>4, RequeuePosts
<1>11. CASE SendRetry(a)
  <2>1. /\ worker[a] = "popped" /\ PostedOrNot(a) /\ UNCHANGED limited /\ hand[a].retry < MAX_RETRIES
        /\ Requeue(a, [hand[a] EXCEPT !.retry = hand[a].retry + 1, !.delayed = TRUE]) /\ UNCHANGED dispatched
    BY <1>11 DEF SendRetry, Requeue
  <2>2. PICK e \in Entries : /\ e = [hand[a] EXCEPT !.retry = hand[a].retry + 1, !.delayed = TRUE]
                             /\ e.task = hand[a].task /\ e.retry = hand[a].retry + 1
    BY <1>1, <2>1, CountedRetry DEF Busy
  <2>4. limited <= limited'
    BY <1>0, <2>1
  <2>3. posted'[e.task] <= e.retry + limited'
    BY <1>9, <2>1, <2>2, <2>4
  <2> QED BY <1>0, <1>6, <2>1, <2>2, <2>3, <2>4, RequeuePosts
<1> QED BY <1>2, <1>3, <1>4, <1>5, <1>7, <1>8, <1>10, <1>11 DEF Consume

LEMMA PostStep == TypeOK /\ TypeOK' /\ PlaceInv /\ PostInv /\ [Next]_vars => PostInv'
<1> SUFFICES ASSUME TypeOK, TypeOK', PlaceInv, PostInv, [Next]_vars PROVE PostInv'
  OBVIOUS
<1>0. OneCopy /\ Fresh
  BY DEF PlaceInv
<1>1. ASSUME NEW t \in Tasks, Dispatch(t) PROVE PostInv'
  <2> DEFINE a == AccountOf[t]
             e == [task |-> t, retry |-> 0, delayed |-> FALSE]
  <2>1. /\ a \in Accounts /\ t \notin dispatched /\ dispatched' = dispatched \cup {t}
        /\ queue'[a] = Append(queue[a], e) /\ \A b \in Accounts \ {a} : queue'[b] = queue[b]
        /\ UNCHANGED <<worker, hand, posted, limited, results, batch, sendLog>>
    BY <1>1, SendPipelineAssumption DEF Dispatch, TypeOK, workerVars, resultVars, processorVars
  <2>2. e \in Entries /\ e.task = t /\ e.retry = 0
    <3>1. 0 \in 0 .. MAX_RETRIES
      BY SendPipelineAssumption
    <3> QED BY <3>1 DEF Entries
  <2>3. Range(queue'[a]) = Range(queue[a]) \cup {e}
    <3>1. queue[a] \in Seq(Entries)
      BY <2>1 DEF TypeOK
    <3> HIDE DEF a, e
    <3> QED BY <2>1, <2>2, <3>1, AppendOf
  <2>4. posted[t] = 0 /\ limited \in Nat
    BY <2>1, SendPipelineAssumption DEF PostInv, TypeOK
  <2>5. posted[e.task] <= e.retry + limited
    BY <2>2, <2>4
  <2>6. Told' = Told
    BY <2>1, ToldIs
  <2> HIDE DEF a, e
  <2>7. \A b \in Accounts : \A x \in Range(queue'[b]) : posted'[x.task] <= x.retry + limited'
    BY <2>1, <2>3, <2>5 DEF PostInv, Within
  <2> QED BY <2>1, <2>6, <2>7 DEF PostInv, Within
<1>2. ASSUME NEW a \in Accounts, Consume(a) PROVE PostInv'
  BY <1>0, <1>2, ConsumePosts
<1>3. ASSUME NEW a \in Accounts, RedisFails(a) \/ ShutdownIdle(a) \/ Exit(a) \/ WorkerDies(a) \/ admin_restart_worker(a)
      PROVE  PostInv'
  <2>1. PICK w \in {"down", "stopping", "idle"} : worker' = [worker EXCEPT ![a] = w]
    BY <1>3 DEF RedisFails, ShutdownIdle, Exit, WorkerDies, admin_restart_worker
  <2>2. UNCHANGED <<queue, hand, posted, limited, results, batch, sendLog, dispatched>>
    BY <1>3 DEF RedisFails, ShutdownIdle, Exit, WorkerDies, admin_restart_worker, queueVars, resultVars, processorVars
  <2>3. \A b \in Accounts : worker'[b] \in Busy => worker'[b] = worker[b] /\ hand'[b] = hand[b]
    BY <2>1, <2>2 DEF Busy, TypeOK
  <2>4. Told' \subseteq Told
    BY <2>2, ToldIs
  <2> QED BY <2>2, <2>3, <2>4, FewerPosts
<1>4. CASE drop_task
  <2>1. UNCHANGED <<worker, hand, posted, limited, results, batch, sendLog, dispatched>>
    BY <1>4 DEF drop_task, workerVars, resultVars, processorVars
  <2>2. PICK a \in Accounts : a = AccountOf[target.task]
    BY <1>4, EntryTypes, SendPipelineAssumption DEF drop_task, TypeOK
  <2>3. \/ UNCHANGED queue
        \/ target \in Range(queue[a]) /\ queue' = [queue EXCEPT ![a] = RemoveFirst(queue[a], target)]
    BY <1>4, <2>2 DEF drop_task
  <2>4. ASSUME target \in Range(queue[a]) PROVE Range(RemoveFirst(queue[a], target)) \subseteq Range(queue[a])
    BY <2>4, RemoveOf DEF TypeOK
  <2>5. \A b \in Accounts : Range(queue'[b]) \subseteq Range(queue[b])
    BY <2>3, <2>4 DEF TypeOK
  <2>6. Told' \subseteq Told
    BY <2>1, ToldIs
  <2> QED BY <2>1, <2>5, <2>6, FewerPosts
<1>5. ASSUME NEW m \in Managers, ReplaceStale(m) \/ StartContainer(m) PROVE PostInv'
  <2>1. UNCHANGED <<queue, hand, posted, limited, results, batch, sendLog, dispatched>>
    BY <1>5 DEF ReplaceStale, StartContainer, queueVars, resultVars, processorVars
  <2>2. \A b \in Accounts : worker'[b] \in Busy => worker'[b] = worker[b] /\ hand'[b] = hand[b]
    BY <1>5, <2>1 DEF ReplaceStale, StartContainer, Busy, TypeOK
  <2>3. Told' \subseteq Told
    BY <2>1, ToldIs
  <2> QED BY <2>1, <2>2, <2>3, FewerPosts
<1>6. ASSUME UNCHANGED <<queue, worker, hand, posted, limited, dispatched>>, Told' \subseteq Told PROVE PostInv'
  BY <1>6, FewerPosts
<1>7. ASSUME NEW p \in Processors, PopResult(p) PROVE PostInv'
  <2>1. PICK f \in Fleets : /\ results[f] # <<>>
                            /\ batch' = [batch EXCEPT ![p] = Append(batch[p], Head(results[f]))]
                            /\ results' = [results EXCEPT ![f] = Tail(results[f])]
                            /\ UNCHANGED <<queue, worker, hand, posted, limited, dispatched, sendLog>>
    BY <1>7 DEF PopResult, queueVars, workerVars
  <2>2. /\ Head(results[f]) \in Verdicts /\ Head(results[f]) \in Range(results[f])
        /\ Range(Tail(results[f])) \subseteq Range(results[f])
    BY <2>1, TailOf DEF TypeOK
  <2>3. Range(Append(batch[p], Head(results[f]))) = Range(batch[p]) \cup {Head(results[f])}
    BY <2>2, AppendOf DEF TypeOK
  <2>4. /\ \A g \in Fleets : Range(results'[g]) \subseteq Range(results[g])
        /\ \A q \in Processors : \A v \in Range(batch'[q]) : v \in Range(batch[q]) \/ v = Head(results[f])
    BY <2>1, <2>2, <2>3 DEF TypeOK
  <2>5. Told' \subseteq Told
    BY <2>1, <2>2, <2>4, ToldIs
  <2> QED BY <1>6, <2>1, <2>5
<1>8. ASSUME NEW p \in Processors, Release(p) PROVE \A q \in Processors : Range(batch'[q]) \subseteq Range(batch[q])
  <2>1. Range(<<>>) = {}
    BY DEF Range
  <2> QED BY <1>8, <2>1 DEF Release, TypeOK
<1>9. ASSUME NEW p \in Processors, _process_results_async(p) PROVE PostInv'
  <2>1. /\ UNCHANGED <<queue, worker, hand, posted, limited, dispatched, results>>
        /\ sendLog' = sendLog \o batch[p]
    BY <1>9 DEF _process_results_async, queueVars, workerVars
  <2>2. Range(sendLog \o batch[p]) = Range(sendLog) \cup Range(batch[p])
    BY ConcatOf DEF TypeOK
  <2>3. Told' \subseteq Told
    BY <1>8, <1>9, <2>1, <2>2, ToldIs DEF _process_results_async
  <2> QED BY <1>6, <2>1, <2>3
<1>10. ASSUME NEW p \in Processors, ProcessorDies(p) PROVE PostInv'
  <2>1. UNCHANGED <<queue, worker, hand, posted, limited, dispatched, results, sendLog>>
    BY <1>10 DEF ProcessorDies, queueVars, workerVars
  <2>2. Told' \subseteq Told
    BY <1>8, <1>10, <2>1, ToldIs DEF ProcessorDies
  <2> QED BY <1>6, <2>1, <2>2
<1>11. ASSUME \/ ReadPage \/ UNCHANGED vars
              \/ \E m \in Managers : \/ ListActive(m) \/ ReadLength(m) \/ DropAccount(m)
                                     \/ StartFails(m) \/ ManagerDies(m)
              \/ \E p \in Processors : LoadGroups(p)
       PROVE  PostInv'
  <2>1. UNCHANGED <<queue, worker, hand, posted, limited, results, batch, sendLog, dispatched>>
    <3>1. CASE ReadPage \/ UNCHANGED vars
      BY <3>1 DEF ReadPage, vars, queueVars, workerVars, resultVars, processorVars
    <3>2. ASSUME NEW m \in Managers, ListActive(m) \/ ReadLength(m) \/ DropAccount(m) \/ StartFails(m) \/ ManagerDies(m)
          PROVE  UNCHANGED <<queue, worker, hand, posted, limited, results, batch, sendLog, dispatched>>
      BY <3>2 DEF ListActive, ReadLength, DropAccount, StartFails, ManagerDies, queueVars, workerVars, resultVars,
                  processorVars
    <3>3. ASSUME NEW p \in Processors, LoadGroups(p)
          PROVE  UNCHANGED <<queue, worker, hand, posted, limited, results, batch, sendLog, dispatched>>
      BY <3>3 DEF LoadGroups, queueVars, workerVars
    <3> QED BY <1>11, <3>1, <3>2, <3>3
  <2>2. Told' \subseteq Told
    BY <2>1, ToldIs
  <2> QED BY <1>6, <2>1, <2>2
<1> QED BY <1>1, <1>2, <1>3, <1>4, <1>5, <1>7, <1>9, <1>10, <1>11 DEF Next, Manage, Record

(* A group gets a task at most once per attempt, and the history says "ok" only of a task  *)
(* that was posted: no requeue, replacement or overlapping run adds a send of its own.     *)
THEOREM PostedAsLoggedHolds == Spec => []PostedAsLogged
<1>1. Init => TypeOK /\ PlaceInv /\ PostInv
  BY TypeInit, PlaceInit, PostInit
<1>2. (TypeOK /\ PlaceInv /\ PostInv) /\ [Next]_vars => (TypeOK /\ PlaceInv /\ PostInv)'
  BY TypeStep, PlaceStep, PostStep
<1>3. PostInv => PostedAsLogged
  <2> SUFFICES ASSUME PostInv PROVE PostedAsLogged
    OBVIOUS
  <2>1. \A n \in DOMAIN sendLog : sendLog[n] \in Told
    BY ToldIs DEF Range
  <2> QED BY <2>1 DEF PostInv, PostedAsLogged
<1> QED BY <1>1, <1>2, <1>3, PTL DEF Spec

-----------------------------------------------------------------------------
(* The mark of a group.                                                    *)

(* A non-empty set of positions has its greatest element.                                  *)
LEMMA MaxOf ==
  ASSUME NEW L \in Nat, NEW I, I \subseteq 1 .. L, I # {}
  PROVE  Max(I) \in I /\ \A y \in I : Max(I) >= y
<1> DEFINE J == {L - i : i \in I}
<1>1. J \subseteq Nat /\ J # {}
  <2>1. \A i \in I : L - i \in Nat
    OBVIOUS
  <2> QED BY <2>1
<1>2. PICK j \in J : \A k \in J : j <= k
  <2> HIDE DEF J
  <2> QED BY <1>1, LeastNat
<1>3. PICK x \in I : j = L - x
  BY <1>2
<1>4. \A y \in I : x >= y
  <2> SUFFICES ASSUME NEW y \in I PROVE x >= y
    OBVIOUS
  <2>1. L - x <= L - y
    BY <1>2, <1>3
  <2>2. x \in Nat /\ y \in Nat
    OBVIOUS
  <2> QED BY <2>1, <2>2
<1> QED BY <1>4 DEF Max

LEMMA MaxIs ==
  ASSUME NEW I, I \subseteq Nat, NEW x \in I, \A y \in I : x >= y
  PROVE  Max(I) = x
<1>1. Max(I) \in I /\ \A y \in I : Max(I) >= y
  BY DEF Max
<1>2. Max(I) >= x /\ x >= Max(I) /\ Max(I) \in Nat /\ x \in Nat
  BY <1>1
<1> QED BY <1>2

(* A batch written after the history decides as it would for a session that had loaded     *)
(* what the history says.                                                                  *)
LEMMA MarksConcat ==
  ASSUME NEW s \in Seq(Verdicts), NEW b \in Seq(Verdicts), NEW g
  PROVE  Marks(s \o b, g, FALSE) = Marks(b, g, Marks(s, g, FALSE))
<1> DEFINE c == s \o b
           D == Decisive(b, g)
           E == Decisive(s, g)
           F == Decisive(c, g)
<1>1. /\ c \in Seq(Verdicts) /\ Len(c) = Len(s) + Len(b)
      /\ \A i \in 1 .. Len(s) + Len(b) : c[i] = IF i <= Len(s) THEN s[i] ELSE b[i - Len(s)]
  BY ConcatProperties
<1>2. /\ DOMAIN s = 1 .. Len(s) /\ DOMAIN b = 1 .. Len(b) /\ DOMAIN c = 1 .. Len(s) + Len(b)
      /\ Len(s) \in Nat /\ Len(b) \in Nat
  BY <1>1
<1> HIDE DEF c
<1>3. \A i \in DOMAIN s : i \in DOMAIN c /\ c[i] = s[i]
  BY <1>1, <1>2
<1>4. \A i \in DOMAIN b : i + Len(s) \in DOMAIN c /\ c[i + Len(s)] = b[i]
  <2> SUFFICES ASSUME NEW i \in DOMAIN b PROVE i + Len(s) \in DOMAIN c /\ c[i + Len(s)] = b[i]
    OBVIOUS
  <2>1. i + Len(s) \in 1 .. Len(s) + Len(b) /\ ~(i + Len(s) <= Len(s)) /\ (i + Len(s)) - Len(s) = i
    BY <1>2
  <2> QED BY <1>1, <1>2, <2>1
<1>5. \A i \in DOMAIN c : \/ i \in DOMAIN s /\ c[i] = s[i]
                          \/ i - Len(s) \in DOMAIN b /\ c[i] = b[i - Len(s)]
  BY <1>1, <1>2
<1>6. /\ \A i \in E : i \in F /\ c[i] = s[i]
      /\ \A i \in D : i + Len(s) \in F /\ c[i + Len(s)] = b[i]
      /\ \A i \in F : i \in E \/ i - Len(s) \in D
  BY <1>3, <1>4, <1>5 DEF Decisive
<1>7. E \subseteq 1 .. Len(s) /\ D \subseteq 1 .. Len(b) /\ F \subseteq Nat
  BY <1>2 DEF Decisive
<1> DEFINE said(u, I, before) == IF I = {} THEN before ELSE u[Max(I)].status = "no_retry"
<1>8. /\ Marks(c, g, FALSE) = said(c, F, FALSE)
      /\ Marks(b, g, Marks(s, g, FALSE)) = said(b, D, said(s, E, FALSE))
  BY DEF Marks
<1> HIDE DEF D, E, F
<1>9. CASE D # {}
  <2>1. PICK d \in D : d = Max(D) /\ \A y \in D : d >= y
    BY <1>2, <1>7, <1>9, MaxOf
  <2>2. d \in Nat /\ d >= 1
    BY <1>7
  <2>3. \A y \in F : d + Len(s) >= y
    <3> SUFFICES ASSUME NEW y \in F PROVE d + Len(s) >= y
      OBVIOUS
    <3>1. CASE y \in E
      <4>1. y \in Nat /\ y <= Len(s)
        BY <1>2, <1>7, <3>1
      <4> QED BY <1>2, <2>2, <4>1
    <3>2. CASE y - Len(s) \in D
      <4>1. d >= y - Len(s) /\ y \in Nat
        BY <1>7, <2>1, <3>2
      <4> QED BY <1>2, <2>2, <4>1
    <3> QED BY <1>6, <3>1, <3>2
  <2>4. d + Len(s) \in F /\ c[d + Len(s)] = b[d]
    BY <1>6
  <2>5. Max(F) = d + Len(s)
    BY <1>7, <2>3, <2>4, MaxIs
  <2> QED BY <1>8, <1>9, <2>1, <2>4, <2>5 DEF c
<1>10. CASE D = {} /\ E # {}
  <2>1. PICK d \in E : d = Max(E) /\ \A y \in E : d >= y
    BY <1>2, <1>7, <1>10, MaxOf
  <2>2. d \in F /\ c[d] = s[d] /\ \A y \in F : d >= y
    BY <1>6, <1>10, <2>1
  <2>3. Max(F) = d
    BY <1>7, <2>2, MaxIs
  <2> QED BY <1>8, <1>10, <2>1, <2>2, <2>3 DEF c
<1>11. CASE D = {} /\ E = {}
  <2>1. F = {}
    BY <1>6, <1>11
  <2> QED BY <1>8, <1>11, <2>1 DEF c
<1> QED BY <1>9, <1>10, <1>11 DEF c

(* With one processor a session that is about to commit knows the marks as they are.       *)
MarkInv ==
  /\ MarkFollowsHistory
  /\ \A p \in Processors : ppc[p] = "write" => known[p] = marked

LEMMA MarkInit == Init => MarkInv
<1> SUFFICES ASSUME Init PROVE MarkInv
  OBVIOUS
<1>1. \A g : Decisive(<<>>, g) = {}
  BY DEF Decisive
<1>2. \A g : Marks(<<>>, g, FALSE) = FALSE
  BY <1>1 DEF Marks
<1> QED BY <1>2 DEF Init, MarkInv, MarkFollowsHistory

LEMMA MarkStep ==
  ASSUME \A p, q \in Processors : p = q
  PROVE  TypeOK /\ MarkInv /\ [Next]_vars => MarkInv'
<1> SUFFICES ASSUME TypeOK, MarkInv, [Next]_vars PROVE MarkInv'
  OBVIOUS
<1>1. ASSUME UNCHANGED <<sendLog, marked>>, \A p \in Processors : ppc'[p] = "write" => known'[p] = marked
      PROVE  MarkInv'
  BY <1>1 DEF MarkInv, MarkFollowsHistory
<1>2. ASSUME UNCHANGED <<sendLog, marked, ppc, known>> PROVE MarkInv'
  BY <1>1, <1>2 DEF MarkInv
<1>3. ASSUME NEW p \in Processors, PopResult(p) PROVE MarkInv'
  BY <1>2, <1>3 DEF PopResult
<1>4. ASSUME NEW p \in Processors, LoadGroups(p) PROVE MarkInv'
  <2>1. known'[p] = marked /\ \A q \in Processors : q = p
    BY <1>4 DEF LoadGroups, TypeOK
  <2> QED BY <1>1, <1>4, <2>1 DEF LoadGroups
<1>5. ASSUME NEW p \in Processors, Release(p) PROVE \A q \in Processors : ppc'[q] # "write"
  BY <1>5 DEF Release, TypeOK
<1>6. ASSUME NEW p \in Processors, ProcessorDies(p) PROVE MarkInv'
  BY <1>1, <1>5, <1>6 DEF ProcessorDies
<1>7. ASSUME NEW p \in Processors, _process_results_async(p) PROVE MarkInv'
  <2>1. /\ sendLog' = sendLog \o batch[p] /\ known[p] = marked
        /\ \A q \in Processors : ppc'[q] # "write"
    BY <1>5, <1>7 DEF _process_results_async, MarkInv
  <2>2. sendLog \in Seq(Verdicts) /\ batch[p] \in Seq(Verdicts)
    BY DEF TypeOK
  <2>3. ASSUME NEW g \in Groups PROVE g \in marked' <=> Marks(sendLog', g, FALSE)
    <3>1. g \in marked <=> Marks(sendLog, g, FALSE)
      BY DEF MarkInv, MarkFollowsHistory
    <3>2. Marks(sendLog', g, FALSE) = Marks(batch[p], g, Marks(sendLog, g, FALSE))
      BY <2>1, <2>2, MarksConcat
    <3>3. \A v : Marks(batch[p], g, v) = IF Decisive(batch[p], g) = {} THEN v
                                         ELSE batch[p][Max(Decisive(batch[p], g))].status = "no_retry"
      BY DEF Marks
    <3>4. g \in marked' <=> IF Marks(batch[p], g, g \in marked) = (g \in marked) THEN g \in marked
                            ELSE Marks(batch[p], g, g \in marked)
      BY <1>7, <2>1 DEF _process_results_async
    <3>5. CASE Decisive(batch[p], g) = {}
      <4>1. Marks(batch[p], g, g \in marked) = (g \in marked)
        BY <3>3, <3>5
      <4>2. Marks(sendLog', g, FALSE) = Marks(sendLog, g, FALSE)
        BY <3>2, <3>3, <3>5
      <4>3. g \in marked' <=> g \in marked
        BY <3>4, <4>1
      <4> QED BY <3>1, <4>2, <4>3
    <3>6. CASE Decisive(batch[p], g) # {}
      BY <3>2, <3>3, <3>4, <3>6
    <3> QED BY <3>5, <3>6
  <2> QED BY <2>1, <2>3 DEF MarkInv, MarkFollowsHistory
<1>8. ASSUME NEW a \in Accounts, Consume(a) PROVE MarkInv'
  <2>1. UNCHANGED <<sendLog, marked, ppc, known>>
    BY <1>8 DEF Consume, Pop, RequeueDelayed, SendOk, PublishOk, SendForbidden, SendRateLimited, SendRetry,
                SendExhausted, Requeue, publishResult, resultVars, processorVars
  <2> QED BY <1>2, <2>1
<1>9. ASSUME NEW a \in Accounts, RedisFails(a) \/ ShutdownIdle(a) \/ Exit(a) \/ WorkerDies(a) \/ admin_restart_worker(a)
      PROVE  MarkInv'
  <2>1. UNCHANGED <<sendLog, marked, ppc, known>>
    BY <1>9 DEF RedisFails, ShutdownIdle, Exit, WorkerDies, admin_restart_worker, resultVars, processorVars
  <2> QED BY <1>2, <2>1
<1>10. ASSUME ReadPage \/ drop_task \/ (\E t \in Tasks : Dispatch(t)) \/ UNCHANGED vars PROVE MarkInv'
  <2>1. UNCHANGED <<sendLog, marked, ppc, known>>
    BY <1>10 DEF ReadPage, drop_task, Dispatch, vars, resultVars, processorVars
  <2> QED BY <1>2, <2>1
<1>11. ASSUME NEW m \in Managers, Manage(m) \/ StartFails(m) \/ ManagerDies(m) PROVE MarkInv'
  <2>1. UNCHANGED <<sendLog, marked, ppc, known>>
    BY <1>11 DEF Manage, ListActive, ReadLength, StartContainer, ReplaceStale, DropAccount, StartFails, ManagerDies,
                 resultVars, processorVars
  <2> QED BY <1>2, <2>1
<1> QED BY <1>3, <1>4, <1>6, <1>7, <1>8, <1>9, <1>10, <1>11 DEF Next, Record

(* With one run of process_*_results at a time the mark of a group follows the history,    *)
(* whatever batch dies before its commit.                                                  *)
THEOREM MarkFollowsHistoryHolds ==
  ASSUME \A p, q \in Processors : p = q
  PROVE  Spec => []MarkFollowsHistory
<1>1. Init => TypeOK /\ MarkInv
  BY TypeInit, MarkInit
<1>2. (TypeOK /\ MarkInv) /\ [Next]_vars => (TypeOK /\ MarkInv)'
  BY TypeStep, MarkStep
<1>3. MarkInv => MarkFollowsHistory
  BY DEF MarkInv
<1> QED BY <1>1, <1>2, <1>3, PTL DEF Spec

=============================================================================
