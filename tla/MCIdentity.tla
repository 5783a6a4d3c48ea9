---------------------------- MODULE MCIdentity ----------------------------
(* Identity with interchangeable browsers, and ids but the administrator's. *)
EXTENDS Identity, TLC

CONSTANTS u1, u2

Interchangeable == Permutations(Browsers) \cup Permutations({u1, u2})

=============================================================================
