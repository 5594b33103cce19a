------------------------- MODULE MCExpiryReconciler -------------------------
(* Instances of ExpiryReconciler for TLC. *)
EXTENDS ExpiryInvariant, TLC

\* Users are interchangeable; the nodes are not, one may be hidden. Used by the runs
\* without liveness.
UserSymmetry == Permutations(Users)
=============================================================================
