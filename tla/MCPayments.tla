----------------------------- MODULE MCPayments -----------------------------
(* Instances of Payments for TLC: one user, whose calls and deliveries overlap. *)
EXTENDS Payments, TLC

CONSTANTS u1, i3

OneOwner == [i \in Intents |-> u1]

AllSubscriptions == [i \in Intents |-> "subscription"]

AndPackage == [i \in Intents |-> IF i = i3 THEN "package" ELSE "subscription"]
=============================================================================
