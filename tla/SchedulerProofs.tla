-------------------------- MODULE SchedulerProofs --------------------------
(***************************************************************************)
(* Theorems about Scheduler, for any schedules, groups, requests, week and *)
(* bounds; those about the slots are for one tick at a time.               *)
(***************************************************************************)
EXTENDS Scheduler, WellFoundedInduction, FiniteSetTheorems, TLAPS

LEMMA LeastNat ==
  ASSUME NEW I, I \subseteq Nat, I # {}
  PROVE  Min(I) \in I /\ \A y \in I : Min(I) <= y
<1>1. \E x \in I : \A y \in I : <<y, x>> \notin OpToRel(<, Nat)
  BY NatLessThanWellFounded, WFMin
<1>2. \A x, y \in I : <<y, x>> \notin OpToRel(<, Nat) => x <= y
  BY DEF OpToRel
<1>3. \E x \in I : \A y \in I : x <= y
  BY <1>1, <1>2
<1> QED BY <1>3 DEF Min

LEMMA Bounds == Week \in Nat \ {0} /\ MaxTime \in Nat /\ MaxFailures \in Nat
BY SchedulerAssumption

-----------------------------------------------------------------------------
(* The operators.                                                          *)

(* The next run lies after t and at most a week ahead.                                     *)
LEMMA NextRun ==
  ASSUME NEW slots, NEW t \in 0 .. MaxTime
  PROVE  LET n == compute_next_run_at(slots, t) IN n = NoRun \/ (n \in Runs /\ n > t)
<1> DEFINE candidates == {m \in t + 1 .. t + Week : m % Week \in slots}
<1>0. t \in Nat /\ t <= MaxTime /\ Week \in Nat /\ MaxTime \in Nat
  BY Bounds
<1>1. CASE candidates = {}
  BY <1>1 DEF compute_next_run_at
<1>2. CASE candidates # {}
  <2>1. candidates \subseteq Nat
    BY <1>0
  <2>2. Min(candidates) \in candidates
    BY <1>2, <2>1, LeastNat
  <2>3. Min(candidates) \in t + 1 .. t + Week
    BY <2>2
  <2>4. compute_next_run_at(slots, t) = Min(candidates)
    BY <1>2 DEF compute_next_run_at
  <2> HIDE DEF candidates
  <2>5. ASSUME NEW n \in t + 1 .. t + Week PROVE n \in Runs /\ n > t
    BY <1>0 DEF Runs
  <2> QED BY <2>3, <2>4, <2>5
<1> QED BY <1>1, <1>2

LEMMA NoRunIsNone == \A n \in Runs : n # NoRun /\ n \in Nat
BY Bounds DEF Runs, NoRun

Columns == {"active", "next", "slots", "groups", "account"}

LEMMA RowIs ==
  /\ \A r \in Row : /\ r.active \in BOOLEAN /\ r.next \in Runs \cup {NoRun} /\ r.slots \subseteq Slots
                    /\ r.groups \subseteq Groups /\ r.account \in BOOLEAN /\ DOMAIN r = Columns
BY DEF Row, Columns

LEMMA RowMade ==
  ASSUME NEW a \in BOOLEAN, NEW n \in Runs \cup {NoRun}, NEW s \in SUBSET Slots, NEW g \in SUBSET Groups, NEW c \in BOOLEAN
  PROVE  [active |-> a, next |-> n, slots |-> s, groups |-> g, account |-> c] \in Row
BY DEF Row

(* What is written back is a row, with the run the session has set or the one in the table. *)
LEMMA FlushTypes ==
  ASSUME NEW current \in Row, NEW loaded \in Row, NEW set \in Row
  PROVE  LET w == Flush(current, loaded, set) IN
         w \in Row /\ w.next = IF set.next = loaded.next THEN current.next ELSE set.next
<1> DEFINE w == Flush(current, loaded, set)
           v(c) == IF set[c] = loaded[c] THEN current[c] ELSE set[c]
<1>1. w = [c \in Columns |-> v(c)]
  BY RowIs DEF Flush
<1>2. w = [active |-> v("active"), next |-> v("next"), slots |-> v("slots"), groups |-> v("groups"),
           account |-> v("account")]
  BY <1>1 DEF Columns
<1>3. /\ v("active") \in BOOLEAN /\ v("next") \in Runs \cup {NoRun} /\ v("slots") \in SUBSET Slots
      /\ v("groups") \in SUBSET Groups /\ v("account") \in BOOLEAN
  BY RowIs
<1>4. w.next = v("next")
  BY <1>2
<1> HIDE DEF w, v
<1>5. w \in Row
  BY <1>2, <1>3, RowMade
<1> QED BY <1>4, <1>5 DEF w, v

LEMMA BlankIs == Blank \in Row /\ Blank.next = NoRun
BY DEF Blank, Row

LEMMA ScheduledTypes ==
  ASSUME TypeOK, NEW r \in Row, NEW wanted
  PROVE  LET e == Scheduled(r, wanted) IN e \in Row /\ (e.next = NoRun \/ e.next > now)
<1> DEFINE on == wanted /\ is_schedule_complete(r)
           n == IF on THEN next_run_or_none(r) ELSE NoRun
           e == [r EXCEPT !.active = on, !.next = n]
<1>1. n \in Runs \cup {NoRun} /\ (n = NoRun \/ n > now)
  BY NextRun DEF TypeOK, next_run_or_none
<1>2. on \in BOOLEAN
  OBVIOUS
<1>3. Scheduled(r, wanted) = e
  BY DEF Scheduled
<1> HIDE DEF n, on
<1>4. e \in Row /\ e.next = n
  BY <1>1, <1>2 DEF Row
<1> QED BY <1>1, <1>3, <1>4

LEMMA LoadedIs ==
  /\ \A f \in Loaded : DOMAIN f \subseteq Schedules /\ \A s \in DOMAIN f : f[s] \in Row
  /\ Nothing \in Loaded /\ DOMAIN Nothing = {}
<1>1. \A f \in Loaded : DOMAIN f \subseteq Schedules /\ \A s \in DOMAIN f : f[s] \in Row
  BY DEF Loaded
<1>2. Nothing \in [{} -> Row] /\ {} \in SUBSET Schedules /\ DOMAIN Nothing = {}
  BY DEF Nothing
<1>3. Nothing \in Loaded
  BY <1>2 DEF Loaded
<1> QED BY <1>1, <1>2, <1>3

LEMMA LoadedMade ==
  ASSUME NEW S \in SUBSET Schedules, NEW f \in [S -> Row]
  PROVE  f \in Loaded
BY DEF Loaded

-----------------------------------------------------------------------------
(* Types.                                                                  *)

(* A tick has loaded due rows, a request rows it sets to a later run, to none or leaves.   *)
SeenInv ==
  \A t \in Ticks :
    /\ tnow[t] <= now
    /\ \A s \in DOMAIN seen[t] :
         /\ tpc[t] = "collect"
         /\ seen[t][s].next \in Runs /\ seen[t][s].next <= tnow[t]

RequestInv ==
  \A r \in Requests :
    /\ DOMAIN new[r] = DOMAIN old[r]
    /\ \A s \in DOMAIN old[r] :
         /\ rpc[r] = "loaded"
         /\ LET n == new[r][s].next IN n = old[r][s].next \/ n = NoRun \/ n > now

Shape == TypeOK /\ SeenInv /\ RequestInv

LEMMA ShapeInit == Init => Shape
<1> SUFFICES ASSUME Init PROVE Shape
  OBVIOUS
<1>1. 0 \in 0 .. MaxTime /\ 0 \in 0 .. MaxFailures
  BY Bounds
<1>2. <<>> \in Seq(Settlement)
  OBVIOUS
<1>3. settled \in [Moments -> Seq(Settlement)] /\ sent \in [Moments -> Nat]
  BY <1>2 DEF Init
<1>4. TypeOK
  BY <1>1, <1>3, BlankIs, LoadedIs DEF Init, TypeOK
<1>5. SeenInv
  BY LoadedIs DEF Init, SeenInv
<1>6. RequestInv
  BY LoadedIs DEF Init, RequestInv
<1> QED BY <1>4, <1>5, <1>6 DEF Shape

(* What a tick writes to a row it has loaded: a run that lies after its "now".             *)
LEMMA AdvancedTypes ==
  ASSUME TypeOK, NEW t \in Ticks, NEW s \in DOMAIN seen[t]
  PROVE  /\ s \in Schedules /\ seen[t][s] \in Row /\ Advanced(t, s) \in Row
         /\ seen[t][s].next \in Runs /\ seen[t][s].next <= tnow[t] =>
              Advanced(t, s).next = NoRun \/ Advanced(t, s).next > tnow[t]
<1> DEFINE r == seen[t][s]
           n == compute_next_run_at(r.slots, tnow[t])
           e == [r EXCEPT !.next = n]
<1>1. s \in Schedules /\ r \in Row /\ row[s] \in Row /\ tnow[t] \in 0 .. MaxTime
  BY LoadedIs DEF TypeOK
<1>2. n = NoRun \/ (n \in Runs /\ n > tnow[t])
  BY <1>1, NextRun
<1>3. Advanced(t, s) = Flush(row[s], r, e)
  BY DEF Advanced
<1> HIDE DEF r, n
<1>4. e \in Row /\ e.next = n
  BY <1>1, <1>2 DEF Row
<1> HIDE DEF e
<1>5. Advanced(t, s) \in Row /\ Advanced(t, s).next = IF n = r.next THEN row[s].next ELSE n
  BY <1>1, <1>3, <1>4, FlushTypes
<1>6. ASSUME r.next \in Runs, r.next <= tnow[t] PROVE n # r.next
  <2>1. r.next \in Nat /\ r.next # NoRun /\ tnow[t] \in Nat
    BY <1>1, <1>6, Bounds, NoRunIsNone
  <2> QED BY <1>2, <1>6, <2>1, NoRunIsNone
<1> QED BY <1>1, <1>2, <1>5, <1>6 DEF r

LEMMA SelectShape ==
  ASSUME Shape, NEW t \in Ticks, TickSelect(t)
  PROVE  /\ Shape'
         /\ seen'[t] = [s \in {x \in Schedules : IsDue(x)} |-> row[s]] /\ tnow'[t] = now /\ tpc'[t] = "collect"
         /\ \A u \in Ticks \ {t} : seen'[u] = seen[u] /\ tnow'[u] = tnow[u] /\ tpc'[u] = tpc[u]
         /\ UNCHANGED <<now, live, row, out, rpc, old, new, failures, settled, sent>>
<1> DEFINE due == {x \in Schedules : IsDue(x)}
           f == [s \in due |-> row[s]]
<1>0. TypeOK /\ SeenInv /\ RequestInv
  BY DEF Shape
<1>1. f \in [due -> Row] /\ due \in SUBSET Schedules
  BY <1>0 DEF TypeOK
<1>2. f \in Loaded
  <2> HIDE DEF f, due
  <2> QED BY <1>1, LoadedMade
<1>3. ASSUME NEW s \in due PROVE f[s].next \in Runs /\ f[s].next <= now
  BY <1>0, <1>1, RowIs DEF IsDue
<1>4. /\ seen' = [seen EXCEPT ![t] = f] /\ tnow' = [tnow EXCEPT ![t] = now] /\ tpc' = [tpc EXCEPT ![t] = "collect"]
      /\ UNCHANGED <<now, fresh, live, row, out, rpc, old, new, failures, settled, sent>>
  BY DEF TickSelect, tableVars, requestVars, history
<1>5. DOMAIN f = due
  OBVIOUS
<1> HIDE DEF f, due
<1>6. /\ seen'[t] = f /\ tnow'[t] = now /\ tpc'[t] = "collect"
      /\ \A u \in Ticks \ {t} : seen'[u] = seen[u] /\ tnow'[u] = tnow[u] /\ tpc'[u] = tpc[u]
  BY <1>0, <1>4 DEF TypeOK
<1>7. TypeOK'
  <2>1. seen' \in [Ticks -> Loaded] /\ tnow' \in [Ticks -> 0 .. MaxTime]
        /\ tpc' \in [Ticks -> {"idle", "collect", "dispatch"}]
    BY <1>0, <1>2, <1>4 DEF TypeOK
  <2> QED BY <1>0, <1>4, <2>1 DEF TypeOK
<1>8. SeenInv'
  <2>1. now \in Nat
    BY <1>0, Bounds DEF TypeOK
  <2>2. ASSUME NEW u \in Ticks
        PROVE  /\ tnow'[u] <= now
               /\ \A s \in DOMAIN seen'[u] : /\ tpc'[u] = "collect"
                                             /\ seen'[u][s].next \in Runs /\ seen'[u][s].next <= tnow'[u]
    <3>1. CASE u = t
      BY <1>3, <1>5, <1>6, <2>1, <3>1
    <3>2. CASE u # t
      BY <1>0, <1>6, <3>2 DEF SeenInv
    <3> QED BY <3>1, <3>2
  <2> QED BY <1>4, <2>2 DEF SeenInv
<1>9. RequestInv'
  BY <1>0, <1>4 DEF RequestInv
<1> QED BY <1>4, <1>6, <1>7, <1>8, <1>9 DEF Shape, f, due

(* A tick that is over, committed or not, holds no rows.                                   *)
LEMMA SeenGone ==
  ASSUME TypeOK, SeenInv, NEW t \in Ticks, seen' = [seen EXCEPT ![t] = Nothing], UNCHANGED <<now, tnow>>,
         \A u \in Ticks \ {t} : tpc'[u] = tpc[u]
  PROVE  SeenInv' /\ seen' \in [Ticks -> Loaded] /\ DOMAIN seen'[t] = {} /\ \A u \in Ticks \ {t} : seen'[u] = seen[u]
<1>1. seen'[t] = Nothing /\ \A u \in Ticks \ {t} : seen'[u] = seen[u]
  BY DEF TypeOK
<1>2. seen' \in [Ticks -> Loaded]
  BY LoadedIs DEF TypeOK
<1>3. SeenInv'
  BY <1>1, LoadedIs DEF SeenInv
<1> QED BY <1>1, <1>2, <1>3, LoadedIs

Slot(t, s) == <<s, seen[t][s].next>>

(* The commit of the loop: every due row moves on, its slot is settled.                    *)
LEMMA CollectShape ==
  ASSUME Shape, NEW t \in Ticks, collect_due_schedules(t)
  PROVE  /\ Shape'
         /\ \A s \in DOMAIN seen[t] : s \in live /\ Slot(t, s) \in Moments /\ row'[s] = Advanced(t, s)
         /\ \A s \in Schedules \ DOMAIN seen[t] : row'[s] = row[s]
         /\ \A m \in Moments :
              settled'[m] = IF \E s \in DOMAIN seen[t] : m = Slot(t, s)
                            THEN Append(settled[m], [at |-> tnow[t], sent |-> m \in out'[t]]) ELSE settled[m]
         /\ \A m \in out'[t] : m \in Moments /\ \E s \in DOMAIN seen[t] : m = Slot(t, s)
         /\ tpc[t] = "collect" /\ (tpc'[t] # "dispatch" => out'[t] = {})
         /\ DOMAIN seen'[t] = {} /\ \A u \in Ticks \ {t} : seen'[u] = seen[u] /\ out'[u] = out[u] /\ tpc'[u] = tpc[u]
         /\ UNCHANGED <<now, live, tnow, rpc, old, new, failures, sent>>
<1> DEFINE due == DOMAIN seen[t]
<1>0. TypeOK /\ SeenInv /\ RequestInv
  BY DEF Shape
<1>1. PICK chosen \in SUBSET due :
        /\ out' = [out EXCEPT ![t] = {Slot(t, s) : s \in chosen}]
        /\ settled' = [m \in Moments |->
             IF m \in {Slot(t, s) : s \in due}
             THEN Append(settled[m], [at |-> tnow[t], sent |-> m \in out'[t]]) ELSE settled[m]]
        /\ tpc' = [tpc EXCEPT ![t] = IF chosen = {} THEN "idle" ELSE "dispatch"]
  BY DEF collect_due_schedules, Slot, Sendable
<1>2. ASSUME NEW s \in due PROVE s \in Schedules /\ Slot(t, s) \in Moments /\ Advanced(t, s) \in Row
  BY <1>0, AdvancedTypes DEF SeenInv, Slot, Moments
<1>3. /\ row' = [s \in Schedules |-> IF s \in due THEN Advanced(t, s) ELSE row[s]]
      /\ seen' = [seen EXCEPT ![t] = Nothing]
      /\ UNCHANGED <<now, fresh, live, tnow, rpc, old, new, failures, sent>>
      /\ tpc[t] = "collect" /\ \A s \in due : s \in live
  BY DEF collect_due_schedules, requestVars, Accepted
<1>4. out'[t] = {Slot(t, s) : s \in chosen} /\ \A u \in Ticks \ {t} : out'[u] = out[u]
  BY <1>0, <1>1 DEF TypeOK
<1>5. out' \in [Ticks -> SUBSET Moments]
  <2>1. {Slot(t, s) : s \in chosen} \in SUBSET Moments
    BY <1>2
  <2>2. PICK O \in SUBSET Moments : O = {Slot(t, s) : s \in chosen}
    BY <2>1
  <2> QED BY <1>0, <1>1, <2>2 DEF TypeOK
<1>6. settled' \in [Moments -> Seq(Settlement)]
  <2>1. ASSUME NEW m \in Moments PROVE [at |-> tnow[t], sent |-> m \in out'[t]] \in Settlement
    BY <1>0 DEF Settlement, TypeOK
  <2>2. ASSUME NEW m \in Moments
        PROVE  Append(settled[m], [at |-> tnow[t], sent |-> m \in out'[t]]) \in Seq(Settlement)
    BY <1>0, <2>1 DEF TypeOK
  <2> QED BY <1>0, <1>1, <2>2 DEF TypeOK
<1>7. row' \in [Schedules -> Row]
  BY <1>0, <1>2, <1>3 DEF TypeOK
<1>8. tpc' \in [Ticks -> {"idle", "collect", "dispatch"}] /\ \A u \in Ticks \ {t} : tpc'[u] = tpc[u]
  BY <1>0, <1>1 DEF TypeOK
<1>9. SeenInv' /\ seen' \in [Ticks -> Loaded] /\ DOMAIN seen'[t] = {} /\ \A u \in Ticks \ {t} : seen'[u] = seen[u]
  BY <1>0, <1>3, <1>8, SeenGone
<1>10. TypeOK'
  BY <1>0, <1>3, <1>5, <1>6, <1>7, <1>8, <1>9 DEF TypeOK
<1>11. RequestInv'
  BY <1>0, <1>3 DEF RequestInv
<1>12. \A m \in Moments :
         settled'[m] = IF \E s \in due : m = Slot(t, s)
                       THEN Append(settled[m], [at |-> tnow[t], sent |-> m \in out'[t]]) ELSE settled[m]
  BY <1>1
<1>13. /\ \A m \in out'[t] : m \in Moments /\ \E s \in due : m = Slot(t, s)
       /\ tpc'[t] # "dispatch" => out'[t] = {}
  <2>1. tpc'[t] # "dispatch" => chosen = {}
    BY <1>0, <1>1 DEF TypeOK
  <2> QED BY <1>2, <1>4, <2>1
<1>14. /\ \A s \in due : row'[s] = Advanced(t, s)
       /\ \A s \in Schedules \ due : row'[s] = row[s]
  BY <1>2, <1>3
<1> QED BY <1>2, <1>3, <1>4, <1>8, <1>9, <1>10, <1>11, <1>12, <1>13, <1>14 DEF Shape

(* A tick that ends without a commit, or sends a message of its batch.                     *)
LEMMA RefusedShape ==
  ASSUME Shape, NEW t \in Ticks, TickRefused(t) \/ TickDies(t)
  PROVE  /\ Shape'
         /\ \/ TickRefused(t) /\ UNCHANGED <<out, failures>>
            \/ failures' = failures + 1 /\ out'[t] = {}
         /\ DOMAIN seen'[t] = {} /\ tpc'[t] = "idle"
         /\ \A u \in Ticks \ {t} : seen'[u] = seen[u] /\ out'[u] = out[u] /\ tpc'[u] = tpc[u]
         /\ UNCHANGED <<now, live, row, tnow, rpc, old, new, settled, sent>>
<1>0. TypeOK /\ SeenInv /\ RequestInv
  BY DEF Shape
<1>1. /\ tpc' = [tpc EXCEPT ![t] = "idle"] /\ seen' = [seen EXCEPT ![t] = Nothing]
      /\ UNCHANGED <<now, fresh, live, row, tnow, rpc, old, new, settled, sent>>
  BY DEF TickRefused, TickDies, tableVars, requestVars, history
<1>2. /\ tpc' \in [Ticks -> {"idle", "collect", "dispatch"}] /\ tpc'[t] = "idle"
      /\ \A u \in Ticks \ {t} : tpc'[u] = tpc[u]
  BY <1>0, <1>1 DEF TypeOK
<1>3. SeenInv' /\ seen' \in [Ticks -> Loaded] /\ DOMAIN seen'[t] = {} /\ \A u \in Ticks \ {t} : seen'[u] = seen[u]
  BY <1>0, <1>1, <1>2, SeenGone
<1>4. /\ out' \in [Ticks -> SUBSET Moments] /\ \A u \in Ticks \ {t} : out'[u] = out[u]
      /\ failures' \in 0 .. MaxFailures
      /\ \/ TickRefused(t) /\ UNCHANGED <<out, failures>>
         \/ failures' = failures + 1 /\ out'[t] = {}
  <2>1. CASE TickRefused(t)
    BY <1>0, <2>1 DEF TickRefused, TypeOK
  <2>2. CASE TickDies(t)
    <3>1. failures' = failures + 1 /\ failures < MaxFailures /\ out' = [out EXCEPT ![t] = {}]
      BY <2>2 DEF TickDies
    <3>2. failures' \in 0 .. MaxFailures
      BY <1>0, <3>1, Bounds DEF TypeOK
    <3>3. out' \in [Ticks -> SUBSET Moments] /\ out'[t] = {} /\ \A u \in Ticks \ {t} : out'[u] = out[u]
      BY <1>0, <3>1 DEF TypeOK
    <3> QED BY <3>1, <3>2, <3>3
  <2> QED BY <2>1, <2>2
<1>5. TypeOK'
  BY <1>0, <1>1, <1>2, <1>3, <1>4 DEF TypeOK
<1>6. RequestInv'
  BY <1>0, <1>1 DEF RequestInv
<1> QED BY <1>1, <1>2, <1>3, <1>4, <1>5, <1>6 DEF Shape

LEMMA DispatchShape ==
  ASSUME Shape, NEW t \in Ticks, dispatch_send_tasks(t)
  PROVE  /\ Shape'
         /\ \E m \in out[t] : /\ m \in Moments /\ out'[t] = out[t] \ {m} /\ sent'[m] = sent[m] + 1
                              /\ \A k \in Moments \ {m} : sent'[k] = sent[k]
         /\ tpc[t] = "dispatch" /\ (tpc'[t] # "dispatch" => out'[t] = {})
         /\ \A u \in Ticks \ {t} : out'[u] = out[u] /\ tpc'[u] = tpc[u]
         /\ UNCHANGED <<now, live, row, tnow, seen, rpc, old, new, failures, settled>>
<1>0. TypeOK /\ SeenInv /\ RequestInv
  BY DEF Shape
<1>1. PICK m \in out[t] : sent' = [sent EXCEPT ![m] = sent[m] + 1] /\ out' = [out EXCEPT ![t] = out[t] \ {m}]
  BY DEF dispatch_send_tasks
<1>2. /\ tpc' = [tpc EXCEPT ![t] = IF out'[t] = {} THEN "idle" ELSE "dispatch"] /\ tpc[t] = "dispatch"
      /\ UNCHANGED <<now, fresh, live, row, tnow, seen, rpc, old, new, failures, settled>>
  BY DEF dispatch_send_tasks, tableVars, requestVars
<1>3. m \in Moments /\ sent \in [Moments -> Nat]
  BY <1>0 DEF TypeOK
<1>4. /\ sent' \in [Moments -> Nat] /\ sent'[m] = sent[m] + 1
      /\ \A k \in Moments \ {m} : sent'[k] = sent[k]
  BY <1>1, <1>3
<1>5. /\ out' \in [Ticks -> SUBSET Moments] /\ out'[t] = out[t] \ {m}
      /\ \A u \in Ticks \ {t} : out'[u] = out[u]
  BY <1>0, <1>1 DEF TypeOK
<1>6. /\ tpc' \in [Ticks -> {"idle", "collect", "dispatch"}]
      /\ \A u \in Ticks \ {t} : tpc'[u] = tpc[u]
      /\ tpc'[t] # "dispatch" => out'[t] = {}
  BY <1>0, <1>2 DEF TypeOK
<1>7. TypeOK'
  BY <1>0, <1>2, <1>4, <1>5, <1>6 DEF TypeOK
<1>8. SeenInv'
  <2>1. DOMAIN seen[t] = {}
    BY <1>0, <1>2 DEF SeenInv
  <2> QED BY <1>0, <1>2, <1>6, <2>1 DEF SeenInv
<1>9. RequestInv'
  BY <1>0, <1>2 DEF RequestInv
<1> QED BY <1>2, <1>3, <1>4, <1>5, <1>6, <1>7, <1>8, <1>9 DEF Shape

(* What the clock and the web requests do to the slots: nothing but set a later run.       *)
Quiet ==
  /\ UNCHANGED <<tpc, tnow, seen, out, failures, settled, sent>> /\ now <= now'
  /\ \A s \in Schedules : LET n == row'[s].next IN n = row[s].next \/ n = NoRun \/ n > now

LEMMA RowsShape ==
  ASSUME Shape, UNCHANGED <<now, tickVars, requestVars, failures, history>>,
         fresh' \subseteq Schedules, live' \subseteq Schedules, row' \in [Schedules -> Row],
         \A s \in Schedules : LET n == row'[s].next IN n = row[s].next \/ n = NoRun \/ n > now
  PROVE  Shape' /\ Quiet
<1>0. TypeOK /\ SeenInv /\ RequestInv
  BY DEF Shape
<1>1. TypeOK'
  BY <1>0 DEF TypeOK, tickVars, requestVars, history
<1>2. SeenInv' /\ RequestInv'
  BY <1>0 DEF SeenInv, RequestInv, tickVars, requestVars
<1>3. now \in Nat
  BY <1>0, Bounds DEF TypeOK
<1>4. Quiet
  BY <1>3 DEF Quiet, tickVars, history
<1> QED BY <1>1, <1>2, <1>4 DEF Shape

LEMMA CreateShape ==
  ASSUME Shape, NEW s \in Schedules, NEW slots \in SUBSET Slots, NEW groups \in SUBSET Groups,
         NEW account \in BOOLEAN, Create(s, slots, groups, account)
  PROVE  Shape' /\ Quiet
<1> DEFINE r == [Blank EXCEPT !.slots = slots, !.groups = groups, !.account = account]
           e == Scheduled(r, TRUE)
<1>0. TypeOK
  BY DEF Shape
<1>1. r \in Row
  BY BlankIs DEF Row
<1> HIDE DEF r
<1>2. e \in Row /\ (e.next = NoRun \/ e.next > now)
  BY <1>0, <1>1, ScheduledTypes
<1>3. /\ fresh' = fresh \ {s} /\ live' = live \cup {s} /\ row' = [row EXCEPT ![s] = e]
      /\ UNCHANGED <<now, tickVars, requestVars, failures, history>>
  BY DEF Create, r
<1> HIDE DEF e
<1>4. row' \in [Schedules -> Row] /\ row'[s] = e /\ \A u \in Schedules \ {s} : row'[u] = row[u]
  BY <1>0, <1>2, <1>3 DEF TypeOK
<1>5. fresh' \subseteq Schedules /\ live' \subseteq Schedules
  BY <1>0, <1>3 DEF TypeOK
<1> QED BY <1>2, <1>3, <1>4, <1>5, RowsShape

LEMMA DeleteShape ==
  ASSUME Shape, NEW s \in Schedules, Delete(s)
  PROVE  Shape' /\ Quiet
<1>0. TypeOK
  BY DEF Shape
<1>1. /\ fresh' = fresh /\ live' = live \ {s} /\ row' = [row EXCEPT ![s] = Blank]
      /\ UNCHANGED <<now, tickVars, requestVars, failures, history>>
  BY DEF Delete
<1>2. /\ row' \in [Schedules -> Row] /\ row'[s].next = NoRun /\ \A u \in Schedules \ {s} : row'[u] = row[u]
  BY <1>0, <1>1, BlankIs DEF TypeOK
<1>3. fresh' \subseteq Schedules /\ live' \subseteq Schedules
  BY <1>0, <1>1 DEF TypeOK
<1> QED BY <1>1, <1>2, <1>3, RowsShape

LEMMA DetachShape ==
  ASSUME Shape, detach_schedules_from_account
  PROVE  Shape' /\ Quiet
<1>0. TypeOK
  BY DEF Shape
<1>1. ASSUME NEW r \in Row
      PROVE  LET e == [r EXCEPT !.active = FALSE, !.next = NoRun, !.account = FALSE] IN e \in Row /\ e.next = NoRun
  BY DEF Row
<1>2. /\ row' = [s \in Schedules |-> IF row[s].account
           THEN [row[s] EXCEPT !.active = FALSE, !.next = NoRun, !.account = FALSE] ELSE row[s]]
      /\ UNCHANGED <<now, fresh, live, tickVars, requestVars, failures, history>>
  BY DEF detach_schedules_from_account
<1>3. \A s \in Schedules : row[s] \in Row
  BY <1>0 DEF TypeOK
<1>4. ASSUME NEW s \in Schedules PROVE row'[s] \in Row /\ (row'[s].next = row[s].next \/ row'[s].next = NoRun)
  BY <1>1, <1>2, <1>3
<1>5. row' \in [Schedules -> Row]
  BY <1>2, <1>4
<1>6. fresh' \subseteq Schedules /\ live' \subseteq Schedules
  BY <1>0, <1>2 DEF TypeOK
<1> QED BY <1>2, <1>4, <1>5, <1>6, RowsShape

LEMMA LoadShape ==
  ASSUME Shape, NEW r \in Requests, NEW S \in SUBSET Schedules, NEW set \in [S -> Row], Load(r, set),
         \A s \in S : LET n == set[s].next IN n = row[s].next \/ n = NoRun \/ n > now
  PROVE  Shape' /\ Quiet
<1> DEFINE o == [s \in S |-> row[s]]
<1>0. TypeOK /\ SeenInv /\ RequestInv
  BY DEF Shape
<1>1. /\ rpc' = [rpc EXCEPT ![r] = "loaded"] /\ old' = [old EXCEPT ![r] = o] /\ new' = [new EXCEPT ![r] = set]
      /\ UNCHANGED <<now, tableVars, tickVars, failures, history>>
  BY DEF Load
<1>2. o \in [S -> Row] /\ \A s \in S : o[s].next = row[s].next
  BY <1>0 DEF TypeOK
<1> HIDE DEF o
<1>3. o \in Loaded /\ set \in Loaded
  BY <1>2, LoadedMade
<1>4. /\ rpc' \in [Requests -> {"idle", "loaded"}] /\ old' \in [Requests -> Loaded] /\ new' \in [Requests -> Loaded]
      /\ rpc'[r] = "loaded" /\ old'[r] = o /\ new'[r] = set
      /\ \A q \in Requests \ {r} : rpc'[q] = rpc[q] /\ old'[q] = old[q] /\ new'[q] = new[q]
  BY <1>0, <1>1, <1>3 DEF TypeOK
<1>5. TypeOK'
  BY <1>0, <1>1, <1>4 DEF TypeOK, tableVars, tickVars, history
<1>6. SeenInv'
  BY <1>0, <1>1 DEF SeenInv, tickVars
<1>7. RequestInv'
  <2>1. DOMAIN o = S /\ DOMAIN set = S
    BY <1>2
  <2>2. ASSUME NEW q \in Requests
        PROVE  /\ DOMAIN new'[q] = DOMAIN old'[q]
               /\ \A s \in DOMAIN old'[q] :
                    /\ rpc'[q] = "loaded"
                    /\ LET n == new'[q][s].next IN n = old'[q][s].next \/ n = NoRun \/ n > now
    <3>1. CASE q = r
      BY <1>2, <1>4, <2>1, <3>1
    <3>2. CASE q # r
      BY <1>0, <1>4, <3>2 DEF RequestInv
    <3> QED BY <3>1, <3>2
  <2>3. now' = now
    BY <1>1
  <2> QED BY <2>2, <2>3 DEF RequestInv
<1>8. Quiet
  <2>1. now \in Nat
    BY <1>0, Bounds DEF TypeOK
  <2> QED BY <1>1, <2>1 DEF Quiet, tableVars, tickVars, history
<1> QED BY <1>5, <1>6, <1>7, <1>8 DEF Shape

LEMMA ToggleShape ==
  ASSUME Shape, NEW r \in Requests, NEW s \in Schedules, Toggle(r, s)
  PROVE  Shape' /\ Quiet
<1> DEFINE e == Toggled(row[s])
           set == [d \in {s} |-> e]
<1>1. e \in Row /\ (e.next = NoRun \/ e.next > now)
  BY ScheduledTypes DEF Toggled, Shape, TypeOK
<1>2. Load(r, set)
  BY DEF Toggle
<1> HIDE DEF e
<1>3. set \in [{s} -> Row] /\ {s} \in SUBSET Schedules /\ set[s] = e
  BY <1>1
<1> HIDE DEF set
<1> QED BY <1>1, <1>2, <1>3, LoadShape

LEMMA UpdateShape ==
  ASSUME Shape, NEW r \in Requests, NEW s \in Schedules, NEW slots \in SUBSET Slots, NEW groups \in SUBSET Groups,
         NEW account \in BOOLEAN, Update(r, s, slots, groups, account)
  PROVE  Shape' /\ Quiet
<1> DEFINE x == [row[s] EXCEPT !.slots = slots, !.groups = groups, !.account = account]
           e == Edited(row[s], slots, groups, account)
           set == [d \in {s} |-> e]
<1>0. row[s] \in Row
  BY DEF Shape, TypeOK
<1>1. x \in Row
  BY <1>0 DEF Row
<1>2. e = Scheduled(x, row[s].active)
  BY DEF Edited
<1>3. Load(r, set)
  BY DEF Update
<1> HIDE DEF x, e
<1>4. e \in Row /\ (e.next = NoRun \/ e.next > now)
  BY <1>1, <1>2, ScheduledTypes DEF Shape
<1>5. set \in [{s} -> Row] /\ {s} \in SUBSET Schedules /\ set[s] = e
  BY <1>4
<1> HIDE DEF set
<1> QED BY <1>3, <1>4, <1>5, LoadShape

LEMMA RemoveGroupShape ==
  ASSUME Shape, NEW r \in Requests, NEW g \in Groups, RemoveGroup(r, g)
  PROVE  Shape' /\ Quiet
<1> DEFINE S == {s \in live : g \in row[s].groups}
           set == [s \in S |-> [row[s] EXCEPT !.groups = row[s].groups \ {g}]]
<1>1. Load(r, set)
  BY DEF RemoveGroup
<1>2. S \in SUBSET Schedules /\ \A s \in S : row[s] \in Row
  BY DEF Shape, TypeOK
<1>3. ASSUME NEW e \in Row
      PROVE  LET x == [e EXCEPT !.groups = e.groups \ {g}] IN x \in Row /\ x.next = e.next
  BY DEF Row
<1> HIDE DEF S
<1>4. \A s \in S : set[s] \in Row /\ set[s].next = row[s].next
  BY <1>2, <1>3
<1>5. set \in [S -> Row]
  BY <1>4
<1> HIDE DEF set
<1> QED BY <1>1, <1>2, <1>4, <1>5, LoadShape

LEMMA CommitShape ==
  ASSUME Shape, NEW r \in Requests, CommitRequest(r)
  PROVE  Shape' /\ Quiet
<1>0. TypeOK /\ SeenInv /\ RequestInv
  BY DEF Shape
<1>1. /\ \A s \in Schedules : row'[s] = row[s] \/ (s \in DOMAIN old[r] /\ row'[s] = Written(r, s))
      /\ DOMAIN row' = Schedules /\ row' = [s \in Schedules |-> row'[s]]
      /\ rpc' = [rpc EXCEPT ![r] = "idle"]
      /\ old' = [old EXCEPT ![r] = Nothing] /\ new' = [new EXCEPT ![r] = Nothing]
      /\ UNCHANGED <<now, fresh, live, tickVars, failures, history>>
  BY DEF CommitRequest
<1>2. ASSUME NEW s \in DOMAIN old[r]
      PROVE  /\ Written(r, s) \in Row
             /\ LET n == Written(r, s).next IN n = row[s].next \/ n = NoRun \/ n > now
  <2>1. old[r][s] \in Row /\ new[r][s] \in Row /\ row[s] \in Row
    BY <1>0, LoadedIs DEF TypeOK, RequestInv
  <2>2. /\ Written(r, s) \in Row
        /\ Written(r, s).next = IF new[r][s].next = old[r][s].next THEN row[s].next ELSE new[r][s].next
    BY <2>1, FlushTypes DEF Written
  <2>3. LET n == new[r][s].next IN n = old[r][s].next \/ n = NoRun \/ n > now
    BY <1>0 DEF RequestInv
  <2> QED BY <2>2, <2>3
<1>3. \A s \in Schedules : /\ row'[s] \in Row
                           /\ LET n == row'[s].next IN n = row[s].next \/ n = NoRun \/ n > now
  <2> TAKE s \in Schedules
  <2>1. CASE row'[s] = row[s]
    BY <1>0, <2>1 DEF TypeOK
  <2>2. CASE s \in DOMAIN old[r] /\ row'[s] = Written(r, s)
    BY <1>2, <2>2
  <2> QED BY <1>1, <2>1, <2>2
<1>4. row' \in [Schedules -> Row]
  BY <1>1, <1>3
<1>5. /\ rpc' \in [Requests -> {"idle", "loaded"}] /\ old' \in [Requests -> Loaded] /\ new' \in [Requests -> Loaded]
      /\ old'[r] = Nothing /\ new'[r] = Nothing
      /\ \A q \in Requests \ {r} : rpc'[q] = rpc[q] /\ old'[q] = old[q] /\ new'[q] = new[q]
  BY <1>0, <1>1, LoadedIs DEF TypeOK
<1>6. TypeOK'
  BY <1>0, <1>1, <1>4, <1>5 DEF TypeOK, tickVars, history
<1>7. SeenInv'
  BY <1>0, <1>1 DEF SeenInv, tickVars
<1>8. RequestInv'
  BY <1>0, <1>1, <1>5, LoadedIs DEF RequestInv
<1>9. Quiet
  <2>1. now \in Nat
    BY <1>0, Bounds DEF TypeOK
  <2> QED BY <1>1, <1>3, <2>1 DEF Quiet, tickVars, history
<1> QED BY <1>6, <1>7, <1>8, <1>9 DEF Shape

LEMMA AdvanceShape ==
  ASSUME Shape, Advance
  PROVE  Shape' /\ Quiet
<1>0. TypeOK /\ SeenInv /\ RequestInv
  BY DEF Shape
<1>1. /\ now' = now + 1 /\ now \in Nat /\ now' \in 0 .. MaxTime /\ \A r \in Requests : rpc[r] = "idle"
      /\ UNCHANGED <<tableVars, tickVars, requestVars, failures, history>>
  BY <1>0, Bounds DEF Advance, TypeOK
<1>2. TypeOK'
  BY <1>0, <1>1 DEF TypeOK, tableVars, tickVars, requestVars, history
<1>3. SeenInv'
  <2>1. \A t \in Ticks : tnow[t] <= now' /\ tnow[t] \in Nat
    BY <1>0, <1>1, Bounds DEF SeenInv, TypeOK
  <2> QED BY <1>0, <1>1, <2>1 DEF SeenInv, tickVars
<1>4. RequestInv'
  <2>1. \A r \in Requests : DOMAIN old[r] = {}
    BY <1>0, <1>1 DEF RequestInv
  <2> QED BY <1>0, <1>1, <2>1 DEF RequestInv, requestVars
<1>5. Quiet
  BY <1>1 DEF Quiet, tableVars, tickVars, history
<1> QED BY <1>2, <1>3, <1>4, <1>5 DEF Shape

LEMMA QuietSteps ==
  ASSUME Shape, [Next]_vars, \A t \in Ticks : ~Tick(t) /\ ~TickDies(t)
  PROVE  Shape' /\ Quiet
<1>1. CASE UNCHANGED vars
  <2>0. TypeOK /\ SeenInv /\ RequestInv
    BY DEF Shape
  <2>1. TypeOK' /\ SeenInv' /\ RequestInv'
    BY <1>1, <2>0 DEF vars, tableVars, tickVars, requestVars, history, TypeOK, SeenInv, RequestInv
  <2>2. now \in Nat
    BY <2>0, Bounds DEF TypeOK
  <2> QED BY <1>1, <2>1, <2>2 DEF vars, tableVars, tickVars, history, Quiet, Shape
<1>2. CASE Edit
  BY <1>2, CreateShape, UpdateShape DEF Edit
<1> QED BY <1>1, <1>2, AdvanceShape, DetachShape, CommitShape, ToggleShape, RemoveGroupShape, DeleteShape DEF Next

LEMMA ShapeStep == Shape /\ [Next]_vars => Shape'
BY SelectShape, CollectShape, RefusedShape, DispatchShape, QuietSteps DEF Tick

(* Every variable keeps its type: every run a tick or a request writes is within a week.   *)
THEOREM TypeCorrect == Spec => []TypeOK
<1>1. Shape => TypeOK
  BY DEF Shape
<1> QED BY <1>1, ShapeInit, ShapeStep, PTL DEF Spec

-----------------------------------------------------------------------------
(* Nothing is lost, with any number of ticks.                              *)

LostInv ==
  /\ NothingLost
  /\ \A t \in Ticks : tpc[t] # "dispatch" => out[t] = {}

LEMMA LostInit == Init => LostInv
BY DEF Init, LostInv, NothingLost

LEMMA LostCollect ==
  ASSUME Shape, LostInv, NEW t \in Ticks, collect_due_schedules(t)
  PROVE  LostInv'
<1> DEFINE e(m) == [at |-> tnow[t], sent |-> m \in out'[t]]
<1>1. /\ \A m \in Moments : settled'[m] = IF \E s \in DOMAIN seen[t] : m = Slot(t, s)
                                          THEN Append(settled[m], e(m)) ELSE settled[m]
      /\ tpc[t] = "collect" /\ (tpc'[t] # "dispatch" => out'[t] = {})
      /\ \A u \in Ticks \ {t} : out'[u] = out[u] /\ tpc'[u] = tpc[u]
      /\ failures' = failures /\ sent' = sent
  BY CollectShape
<1>2. out[t] = {}
  BY <1>1 DEF LostInv
<1>3. ASSUME failures = 0, NEW m \in Moments, NEW n \in DOMAIN settled'[m], settled'[m][n].sent
      PROVE  sent[m] > 0 \/ \E u \in Ticks : m \in out'[u]
  <2>1. settled[m] \in Seq(Settlement)
    BY DEF Shape, TypeOK
  <2>2. CASE n \in DOMAIN settled[m] /\ settled'[m][n] = settled[m][n]
    <3>1. sent[m] > 0 \/ \E u \in Ticks : m \in out[u]
      BY <1>3, <2>2 DEF LostInv, NothingLost
    <3>2. \A u \in Ticks : m \in out[u] => m \in out'[u]
      BY <1>1, <1>2
    <3> QED BY <3>1, <3>2
  <2>3. CASE settled'[m][n] = e(m)
    <3>1. e(m).sent = (m \in out'[t])
      OBVIOUS
    <3>2. e(m).sent
      BY <1>3, <2>3, Zenon
    <3> QED BY <3>1, <3>2, Zenon
  <2>4. \/ n \in DOMAIN settled[m] /\ settled'[m][n] = settled[m][n]
        \/ settled'[m][n] = e(m)
    <3>1. CASE settled'[m] = settled[m]
      BY <1>3, <3>1
    <3>2. CASE settled'[m] = Append(settled[m], e(m))
      <4> HIDE DEF e
      <4> QED BY <1>3, <2>1, <3>2
    <3> QED BY <1>1, <3>1, <3>2
  <2> QED BY <2>2, <2>3, <2>4
<1>4. NothingLost'
  BY <1>1, <1>3 DEF NothingLost
<1>5. \A u \in Ticks : tpc'[u] # "dispatch" => out'[u] = {}
  BY <1>1 DEF LostInv
<1> QED BY <1>4, <1>5 DEF LostInv

LEMMA LostDispatch ==
  ASSUME Shape, LostInv, NEW t \in Ticks, dispatch_send_tasks(t)
  PROVE  LostInv'
<1>1. PICK m \in out[t] : /\ m \in Moments /\ out'[t] = out[t] \ {m} /\ sent'[m] = sent[m] + 1
                          /\ \A k \in Moments \ {m} : sent'[k] = sent[k]
  BY DispatchShape
<1>2. /\ tpc'[t] # "dispatch" => out'[t] = {}
      /\ \A u \in Ticks \ {t} : out'[u] = out[u] /\ tpc'[u] = tpc[u]
      /\ failures' = failures /\ settled' = settled
  BY DispatchShape
<1>3. sent[m] \in Nat
  BY <1>1 DEF Shape, TypeOK
<1>4. ASSUME NEW k \in Moments, sent[k] > 0 \/ \E u \in Ticks : k \in out[u]
      PROVE  sent'[k] > 0 \/ \E u \in Ticks : k \in out'[u]
  <2>1. CASE k = m
    BY <1>1, <1>3, <2>1
  <2>2. CASE k # m
    BY <1>1, <1>2, <1>4, <2>2
  <2> QED BY <2>1, <2>2
<1>5. NothingLost'
  BY <1>2, <1>4 DEF LostInv, NothingLost
<1> QED BY <1>2, <1>5 DEF LostInv

LEMMA LostStep ==
  ASSUME Shape, LostInv, [Next]_vars
  PROVE  LostInv'
<1>1. CASE \A t \in Ticks : ~Tick(t) /\ ~TickDies(t)
  BY <1>1, QuietSteps DEF Quiet, LostInv, NothingLost
<1>2. ASSUME NEW t \in Ticks, TickSelect(t) PROVE LostInv'
  <2>1. tpc'[t] = "collect" /\ tpc[t] = "idle"
    BY <1>2, SelectShape DEF TickSelect
  <2> QED BY <1>2, <2>1, SelectShape DEF LostInv, NothingLost
<1>3. ASSUME NEW t \in Ticks, TickRefused(t) \/ TickDies(t) PROVE LostInv'
  <2>0. /\ \A u \in Ticks \ {t} : out'[u] = out[u] /\ tpc'[u] = tpc[u]
        /\ UNCHANGED <<settled, sent>>
    BY <1>3, RefusedShape
  <2>1. CASE TickRefused(t) /\ UNCHANGED <<out, failures>>
    <3>1. out[t] = {}
      BY <2>1 DEF TickRefused, LostInv
    <3> QED BY <2>0, <2>1, <3>1 DEF LostInv, NothingLost
  <2>2. CASE failures' = failures + 1 /\ out'[t] = {}
    <3>1. failures \in Nat
      BY Bounds DEF Shape, TypeOK
    <3> QED BY <2>0, <2>2, <3>1 DEF LostInv, NothingLost
  <2> QED BY <1>3, <2>1, <2>2, RefusedShape
<1> QED BY <1>1, <1>2, <1>3, LostCollect, LostDispatch DEF Tick

(* Without a crash a slot settled to be sent has been dispatched or is in the hands of its *)
(* tick, whatever ticks overlap and whatever the web does to the rows meanwhile.           *)
THEOREM NothingLostHolds == Spec => []NothingLost
<1>1. Shape /\ LostInv /\ [Next]_vars => (Shape /\ LostInv)'
  BY ShapeStep, LostStep
<1>2. LostInv => NothingLost
  BY DEF LostInv
<1> QED BY <1>1, <1>2, ShapeInit, LostInit, PTL DEF Spec

-----------------------------------------------------------------------------
(* One tick at a time.                                                     *)

(* A settled slot was due; its schedule, in the table and in the hands of a tick, has been *)
(* moved past the moment it was settled at.                                                *)
PassedInv ==
  \A m \in Moments : settled[m] # <<>> =>
    /\ Len(settled[m]) = 1
    /\ m[2] <= settled[m][1].at /\ settled[m][1].at <= now
    /\ row[m[1]].next = NoRun \/ row[m[1]].next > settled[m][1].at
    /\ \A t \in Ticks : m[1] \in DOMAIN seen[t] => seen[t][m[1]].next > settled[m][1].at

(* A slot is in a batch before its one dispatch, and settled to be sent.                   *)
BatchInv ==
  /\ \A m \in Moments :
       /\ sent[m] \in {0, 1}
       /\ sent[m] = 1 => settled[m] # <<>> /\ settled[m][1].sent
  /\ \A t \in Ticks :
       /\ tpc[t] # "dispatch" => out[t] = {}
       /\ \A m \in out[t] : settled[m] # <<>> /\ settled[m][1].sent /\ sent[m] = 0

SlotInv == PassedInv /\ BatchInv /\ NoBurst

LEMMA SlotInit == Init => SlotInv
BY DEF Init, SlotInv, PassedInv, BatchInv, NoBurst

LEMMA MomentIs == \A m \in Moments : m[1] \in Schedules /\ m[2] \in Runs /\ m = <<m[1], m[2]>>
BY DEF Moments

LEMMA SettledAt ==
  ASSUME TypeOK, NEW m \in Moments, settled[m] # <<>>
  PROVE  settled[m][1] \in Settlement /\ settled[m][1].at \in Nat
<1>1. settled[m] \in Seq(Settlement)
  BY DEF TypeOK
<1>2. settled[m][1] \in Settlement
  BY <1>1
<1> QED BY <1>2, Bounds DEF Settlement

LEMMA RunOf == ASSUME TypeOK, NEW s \in Schedules PROVE row[s].next \in Runs \cup {NoRun}
BY RowIs DEF TypeOK

(* The rows a tick selects have been moved past every slot settled before.                 *)
LEMMA SlotSelect ==
  ASSUME Shape, SlotInv, NEW t \in Ticks, TickSelect(t)
  PROVE  SlotInv'
<1> DEFINE due == {x \in Schedules : IsDue(x)}
<1>1. /\ seen'[t] = [s \in due |-> row[s]] /\ tpc'[t] = "collect" /\ tpc[t] = "idle"
      /\ \A u \in Ticks \ {t} : seen'[u] = seen[u] /\ tpc'[u] = tpc[u]
      /\ UNCHANGED <<now, row, out, settled, sent>>
  BY SelectShape DEF TickSelect
<1>2. \A s \in due : row[s].next # NoRun
  BY DEF IsDue
<1>3. \A s \in DOMAIN seen'[t] : s \in due /\ seen'[t][s] = row[s]
  BY <1>1
<1> HIDE DEF due
<1>4. PassedInv'
  <2>1. ASSUME NEW m \in Moments, settled[m] # <<>>, NEW u \in Ticks, m[1] \in DOMAIN seen'[u]
        PROVE  seen'[u][m[1]].next > settled[m][1].at
    BY <1>1, <1>2, <1>3, <2>1 DEF SlotInv, PassedInv
  <2> QED BY <1>1, <2>1 DEF SlotInv, PassedInv
<1>5. BatchInv'
  BY <1>1 DEF SlotInv, BatchInv
<1>6. NoBurst'
  BY <1>1 DEF SlotInv, NoBurst
<1> QED BY <1>4, <1>5, <1>6 DEF SlotInv

LEMMA SlotCollect ==
  ASSUME Shape, SlotInv, NEW t \in Ticks, \A u \in Ticks : u = t, collect_due_schedules(t)
  PROVE  SlotInv'
<1> DEFINE due == DOMAIN seen[t]
           fresh_(m) == m[1] \in due /\ m[2] = seen[t][m[1]].next
           e(m) == [at |-> tnow[t], sent |-> m \in out'[t]]
<1>0. TypeOK /\ SeenInv
  BY DEF Shape
<1>1. /\ \A s \in due : row'[s] = Advanced(t, s)
      /\ \A s \in Schedules \ due : row'[s] = row[s]
      /\ \A m \in Moments : settled'[m] = IF \E s \in due : m = Slot(t, s)
                                          THEN Append(settled[m], e(m)) ELSE settled[m]
      /\ \A m \in out'[t] : m \in Moments /\ \E s \in due : m = Slot(t, s)
      /\ tpc'[t] # "dispatch" => out'[t] = {}
      /\ DOMAIN seen'[t] = {}
      /\ UNCHANGED <<now, tnow, sent>>
  BY CollectShape
<1>2. ASSUME NEW m \in Moments PROVE (\E s \in due : m = Slot(t, s)) <=> fresh_(m)
  BY <1>0, MomentIs, AdvancedTypes DEF Slot
<1>3. /\ tnow[t] \in Nat /\ now \in Nat /\ tnow[t] <= now
      /\ \A s \in due : /\ seen[t][s].next \in Nat /\ seen[t][s].next <= tnow[t]
                        /\ Advanced(t, s).next = NoRun \/ Advanced(t, s).next > tnow[t]
                        /\ Advanced(t, s).next = NoRun \/ Advanced(t, s).next \in Nat
  BY <1>0, AdvancedTypes, NoRunIsNone, RowIs, Bounds DEF SeenInv, TypeOK
<1>4. ASSUME NEW m \in Moments, settled[m] # <<>>
      PROVE  /\ settled[m][1].at \in Nat /\ m[2] <= settled[m][1].at /\ settled[m][1].at <= now
             /\ m[1] \in due => seen[t][m[1]].next > settled[m][1].at
             /\ Len(settled[m]) = 1
             /\ row[m[1]].next = NoRun \/ row[m[1]].next > settled[m][1].at
  BY <1>0, <1>4, SettledAt DEF SlotInv, PassedInv
<1>5. ASSUME NEW m \in Moments PROVE m[1] \in Schedules /\ m[2] \in Nat
  BY MomentIs, NoRunIsNone
<1>6. ASSUME NEW m \in Moments, fresh_(m) PROVE settled[m] = <<>> /\ settled'[m] = <<e(m)>> /\ sent[m] = 0
  <2>1. settled[m] = <<>>
    BY <1>3, <1>4, <1>5, <1>6
  <2>2. settled'[m] = Append(settled[m], e(m))
    BY <1>1, <1>2, <1>6
  <2>3. \A x : Append(<<>>, x) = <<x>>
    OBVIOUS
  <2>4. settled'[m] = <<e(m)>>
    BY <2>1, <2>2, <2>3
  <2>5. sent[m] = 0
    BY <2>1 DEF SlotInv, BatchInv
  <2> QED BY <2>1, <2>4, <2>5
<1>7. ASSUME NEW m \in Moments, ~fresh_(m) PROVE settled'[m] = settled[m]
  BY <1>1, <1>2, <1>7
<1>8. ASSUME NEW m \in Moments
      PROVE  /\ e(m).at = tnow[t]
             /\ e(m).sent = (m \in out'[t])
             /\ <<e(m)>>[1] = e(m) /\ Len(<<e(m)>>) = 1
  OBVIOUS
<1> HIDE DEF e
<1>9. PassedInv'
  <2>1. ASSUME NEW m \in Moments, settled'[m] # <<>>
        PROVE  /\ Len(settled'[m]) = 1
               /\ m[2] <= settled'[m][1].at /\ settled'[m][1].at <= now
               /\ row'[m[1]].next = NoRun \/ row'[m[1]].next > settled'[m][1].at
    <3>1. CASE fresh_(m)
      <4>1. settled'[m][1].at = tnow[t] /\ Len(settled'[m]) = 1
        BY <1>6, <1>8, <3>1
      <4>2. row'[m[1]] = Advanced(t, m[1])
        BY <1>1, <3>1
      <4> QED BY <1>3, <3>1, <4>1, <4>2
    <3>2. CASE ~fresh_(m) /\ m[1] \in due
      <4>1. settled'[m] = settled[m]
        BY <1>7, <3>2
      <4>2. PICK a \in Nat : a = settled[m][1].at
        BY <1>4, <2>1, <4>1
      <4>3. PICK x : x = Advanced(t, m[1]).next /\ x = row'[m[1]].next
        BY <1>1, <3>2
      <4>4. PICK y \in Nat : y = seen[t][m[1]].next /\ y <= tnow[t] /\ y > a
        BY <1>3, <1>4, <2>1, <3>2, <4>1, <4>2
      <4>5. (x = NoRun \/ x > tnow[t]) /\ (x = NoRun \/ x \in Nat)
        BY <1>3, <3>2, <4>3
      <4>6. x = NoRun \/ x > a
        BY <1>3, <4>4, <4>5
      <4>7. Len(settled[m]) = 1 /\ m[2] <= a /\ a <= now
        BY <1>4, <2>1, <4>1, <4>2
      <4> QED BY <4>1, <4>2, <4>3, <4>6, <4>7
    <3>3. CASE m[1] \notin due
      <4>1. settled'[m] = settled[m] /\ row'[m[1]] = row[m[1]]
        BY <1>1, <1>5, <1>7, <3>3
      <4> QED BY <1>4, <2>1, <4>1
    <3> QED BY <3>1, <3>2, <3>3
  <2>2. \A u \in Ticks : DOMAIN seen'[u] = {}
    BY <1>1
  <2> QED BY <1>1, <2>1, <2>2 DEF PassedInv
<1>10. BatchInv'
  <2>1. ASSUME NEW m \in Moments PROVE sent[m] = 1 => settled'[m] # <<>> /\ settled'[m][1].sent
    BY <1>6, <1>7 DEF SlotInv, BatchInv
  <2>2. ASSUME NEW m \in out'[t] PROVE settled'[m] # <<>> /\ settled'[m][1].sent /\ sent[m] = 0
    <3>1. m \in Moments /\ fresh_(m)
      BY <1>1, <1>2
    <3>2. settled'[m] = <<e(m)>> /\ sent[m] = 0
      BY <1>6, <3>1
    <3>3. settled'[m][1] = e(m) /\ settled'[m] # <<>>
      BY <1>8, <3>1, <3>2
    <3>4. e(m).sent
      BY <1>8, <3>1, Zenon
    <3> QED BY <3>2, <3>3, <3>4
  <2> QED BY <1>1, <2>1, <2>2 DEF SlotInv, BatchInv
<1>11. NoBurst'
  <2>1. ASSUME NEW m \in Moments, NEW k \in Moments, m[1] = k[1], m[2] < k[2], settled'[m] # <<>>, settled'[k] # <<>>
        PROVE  k[2] > settled'[m][1].at
    <3>1. CASE fresh_(m)
      <4>1. ~fresh_(k)
        BY <1>5, <2>1, <3>1
      <4>2. settled'[k] = settled[k]
        BY <1>7, <4>1
      <4> QED BY <1>3, <1>4, <1>5, <2>1, <3>1, <4>2
    <3>2. CASE ~fresh_(m) /\ fresh_(k)
      <4>1. settled'[m] = settled[m]
        BY <1>7, <3>2
      <4> QED BY <1>3, <1>4, <2>1, <3>2, <4>1
    <3>3. CASE ~fresh_(m) /\ ~fresh_(k)
      <4>1. settled'[m] = settled[m] /\ settled'[k] = settled[k]
        BY <1>7, <3>3
      <4> QED BY <2>1, <4>1 DEF SlotInv, NoBurst
    <3> QED BY <3>1, <3>2, <3>3
  <2> QED BY <2>1 DEF NoBurst
<1> QED BY <1>9, <1>10, <1>11 DEF SlotInv

LEMMA SlotDispatch ==
  ASSUME Shape, SlotInv, NEW t \in Ticks, \A u \in Ticks : u = t, dispatch_send_tasks(t)
  PROVE  SlotInv'
<1>1. PICK m \in out[t] : /\ m \in Moments /\ out'[t] = out[t] \ {m} /\ sent'[m] = sent[m] + 1
                          /\ \A k \in Moments \ {m} : sent'[k] = sent[k]
  BY DispatchShape
<1>2. /\ tpc'[t] # "dispatch" => out'[t] = {}
      /\ UNCHANGED <<now, row, seen, settled>>
  BY DispatchShape
<1>3. sent[m] = 0 /\ settled[m] # <<>> /\ settled[m][1].sent
  BY <1>1 DEF SlotInv, BatchInv
<1>4. PassedInv'
  BY <1>2 DEF SlotInv, PassedInv
<1>5. BatchInv'
  <2>1. ASSUME NEW k \in Moments
        PROVE  sent'[k] \in {0, 1} /\ (sent'[k] = 1 => settled[k] # <<>> /\ settled[k][1].sent)
    <3>1. CASE k = m
      BY <1>1, <1>3, <3>1
    <3>2. CASE k # m
      BY <1>1, <3>2 DEF SlotInv, BatchInv
    <3> QED BY <3>1, <3>2
  <2>2. ASSUME NEW k \in out'[t] PROVE settled[k] # <<>> /\ settled[k][1].sent /\ sent'[k] = 0
    BY <1>1 DEF SlotInv, BatchInv, Shape, TypeOK
  <2> QED BY <1>2, <2>1, <2>2 DEF BatchInv
<1>6. NoBurst'
  BY <1>2 DEF SlotInv, NoBurst
<1> QED BY <1>4, <1>5, <1>6 DEF SlotInv

LEMMA SlotRefused ==
  ASSUME Shape, SlotInv, NEW t \in Ticks, \A u \in Ticks : u = t, TickRefused(t) \/ TickDies(t)
  PROVE  SlotInv'
<1>1. /\ (TickRefused(t) /\ out' = out) \/ out'[t] = {}
      /\ DOMAIN seen'[t] = {} /\ UNCHANGED <<now, row, settled, sent>>
  BY RefusedShape
<1>2. out'[t] = {}
  BY <1>1 DEF TickRefused, SlotInv, BatchInv
<1>3. PassedInv'
  BY <1>1 DEF SlotInv, PassedInv
<1>4. BatchInv'
  BY <1>1, <1>2 DEF SlotInv, BatchInv
<1>5. NoBurst'
  BY <1>1 DEF SlotInv, NoBurst
<1> QED BY <1>3, <1>4, <1>5 DEF SlotInv

(* An edit, a pause, a resume and the clock leave a schedule past what it has settled.     *)
LEMMA SlotQuiet ==
  ASSUME Shape, SlotInv, Shape', Quiet
  PROVE  SlotInv'
<1>0. TypeOK /\ TypeOK'
  BY DEF Shape
<1>1. now \in Nat /\ now' \in Nat /\ now <= now' /\ UNCHANGED <<tpc, seen, out, settled, sent>>
  BY <1>0, Bounds DEF Quiet, TypeOK
<1>2. PassedInv'
  <2>1. ASSUME NEW m \in Moments, settled[m] # <<>>
        PROVE  /\ settled[m][1].at <= now'
               /\ row'[m[1]].next = NoRun \/ row'[m[1]].next > settled[m][1].at
    <3>1. /\ settled[m][1].at \in Nat /\ settled[m][1].at <= now
          /\ row[m[1]].next = NoRun \/ row[m[1]].next > settled[m][1].at
      BY <1>0, <2>1, SettledAt DEF SlotInv, PassedInv
    <3>2. row'[m[1]].next = row[m[1]].next \/ row'[m[1]].next = NoRun \/ row'[m[1]].next > now
      BY MomentIs DEF Quiet
    <3>3. row'[m[1]].next \in Runs \cup {NoRun} /\ Runs \subseteq Nat
      BY <1>0, RunOf, MomentIs, NoRunIsNone, RowIs DEF TypeOK
    <3>4. PICK a \in Nat : a = settled[m][1].at
      BY <3>1
    <3>5. PICK x : x = row'[m[1]].next
      OBVIOUS
    <3>6. PICK y : y = row[m[1]].next
      OBVIOUS
    <3>7. a <= now /\ (y = NoRun \/ y > a)
      BY <3>1, <3>4, <3>6
    <3>8. (x = y \/ x = NoRun \/ x > now) /\ (x = NoRun \/ x \in Nat)
      BY <3>2, <3>3, <3>5, <3>6
    <3>9. a <= now' /\ (x = NoRun \/ x > a)
      BY <1>1, <3>7, <3>8
    <3> QED BY <3>4, <3>5, <3>9
  <2> QED BY <1>1, <2>1 DEF SlotInv, PassedInv
<1>3. BatchInv'
  BY <1>1 DEF SlotInv, BatchInv
<1>4. NoBurst'
  BY <1>1 DEF SlotInv, NoBurst
<1> QED BY <1>2, <1>3, <1>4 DEF SlotInv

LEMMA SlotStep ==
  ASSUME \A t, u \in Ticks : t = u, Shape, SlotInv, [Next]_vars
  PROVE  SlotInv'
<1>1. CASE \A t \in Ticks : ~Tick(t) /\ ~TickDies(t)
  BY <1>1, QuietSteps, SlotQuiet
<1> QED BY <1>1, SlotSelect, SlotCollect, SlotDispatch, SlotRefused DEF Tick

LEMMA SlotSafety ==
  ASSUME \A t, u \in Ticks : t = u
  PROVE  Spec => [](Shape /\ SlotInv)
<1>1. Shape /\ SlotInv /\ [Next]_vars => (Shape /\ SlotInv)'
  BY ShapeStep, SlotStep
<1> QED BY <1>1, ShapeInit, SlotInit, PTL DEF Spec

(* With one tick at a time a slot is settled once and dispatched at most once, and not     *)
(* after it was passed over, whatever the web does to its schedule and however ticks die.  *)
THEOREM SlotSettledOnceHolds ==
  ASSUME \A t, u \in Ticks : t = u
  PROVE  Spec => []SlotSettledOnce
<1>1. ASSUME Shape, SlotInv PROVE SlotSettledOnce
  <2> SUFFICES ASSUME NEW m \in Moments
               PROVE  /\ Len(settled[m]) <= 1
                      /\ sent[m] <= Cardinality({n \in DOMAIN settled[m] : settled[m][n].sent})
    BY DEF SlotSettledOnce
  <2> DEFINE S == {n \in DOMAIN settled[m] : settled[m][n].sent}
  <2>1. settled[m] \in Seq(Settlement)
    BY <1>1 DEF Shape, TypeOK
  <2>2. CASE settled[m] = <<>>
    <3>1. S = {} /\ Len(settled[m]) = 0
      BY <2>2
    <3>2. sent[m] = 0
      BY <1>1, <2>2 DEF SlotInv, BatchInv
    <3> QED BY <3>1, <3>2, FS_EmptySet
  <2>3. CASE settled[m] # <<>>
    <3>1. Len(settled[m]) = 1 /\ DOMAIN settled[m] = {1}
      BY <1>1, <2>1, <2>3 DEF SlotInv, PassedInv
    <3>2. CASE settled[m][1].sent
      <4>1. S = {1}
        BY <3>1, <3>2
      <4> QED BY <1>1, <3>1, <4>1, FS_Singleton DEF SlotInv, BatchInv
    <3>3. CASE ~settled[m][1].sent
      <4>1. S = {} /\ sent[m] = 0
        BY <1>1, <3>1, <3>3 DEF SlotInv, BatchInv
      <4> QED BY <3>1, <4>1, FS_EmptySet
    <3> QED BY <3>2, <3>3
  <2> QED BY <2>2, <2>3
<1> QED BY <1>1, SlotSafety, PTL

(* With one tick at a time the slots missed while nothing ran are not made up for.         *)
THEOREM NoBurstHolds ==
  ASSUME \A t, u \in Ticks : t = u
  PROVE  Spec => []NoBurst
<1>1. SlotInv => NoBurst
  BY DEF SlotInv
<1> QED BY <1>1, SlotSafety, PTL

=============================================================================
