--------------------------- MODULE MCSendPipeline ---------------------------
(* Instances of SendPipeline for TLC. *)
EXTENDS SendPipeline, TLC

CONSTANTS t1, t2, a1, a2, g1

OneAccount == [t \in Tasks |-> a1]

EachItsOwn == t1 :> a1 @@ t2 :> a2

OneGroup == [t \in Tasks |-> g1]

MaxFleet == [a \in Accounts |-> "max"]

\* Tasks of one account and group, and processors, may be exchanged.
Interchangeable == Permutations(Tasks) \cup Permutations(Processors)

BothFleets == a1 :> "wa" @@ a2 :> "max"
=============================================================================
