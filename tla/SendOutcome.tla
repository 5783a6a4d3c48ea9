---------------------------- MODULE SendOutcome ----------------------------
(***************************************************************************)
(* What the send pipeline promises of a task: once submitted it is in      *)
(* flight until it is settled with one verdict, for good, or lost, for     *)
(* good.  The processors settle, and a crash may lose, several at once.    *)
(***************************************************************************)

CONSTANT Tasks

VARIABLE outcome

Final == {"ok", "fail", "no_retry"}

InFlight == {t \in Tasks : outcome[t] = "inflight"}

Init == outcome = [t \in Tasks |-> "new"]

Submit(t) ==
  /\ outcome[t] = "new"
  /\ outcome' = [outcome EXCEPT ![t] = "inflight"]

Settle(S) ==
  \E v \in [S -> Final] :
    outcome' = [t \in Tasks |-> IF t \in S THEN v[t] ELSE outcome[t]]

Lose(S) == outcome' = [t \in Tasks |-> IF t \in S THEN "lost" ELSE outcome[t]]

Next ==
  \/ \E t \in Tasks : Submit(t)
  \/ \E S \in SUBSET InFlight : Settle(S) \/ Lose(S)

Spec == Init /\ [][Next]_outcome

=============================================================================
