---------------------------- MODULE MCHotelAccess ----------------------------
(* Instances of HotelAccess for TLC. *)
EXTENDS HotelAccess, TLC

\* Nothing orders ids, addresses or slots; candidate names are tried in order.
Symmetry ==
  Permutations(Hotels) \cup Permutations(Users) \cup Permutations(Identities)
    \cup Permutations(Emails) \cup Permutations(Cvrs) \cup Permutations(Requests)

TwoNames == 1..2

ThreeNames == 1..3
=============================================================================
