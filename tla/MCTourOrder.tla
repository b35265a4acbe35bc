----------------------------- MODULE MCTourOrder -----------------------------
(* Instances of TourOrder for TLC. *)
EXTENDS TourOrder, TLC

\* Nothing orders ids, contents or slots.
Symmetry == Permutations(Tours) \cup Permutations(Contents) \cup Permutations(Requests)
=============================================================================
