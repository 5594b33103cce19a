-------------------------- MODULE MCAccessHandlers --------------------------
(* Instances of AccessHandlers for TLC. *)
EXTENDS AccessInvariant, TLC

\* Requests are interchangeable; nodes are not, they differ in protocol.
RequestSymmetry == Permutations(Requests)
=============================================================================
