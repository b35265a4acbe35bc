------------------------------ MODULE MCPartners ------------------------------
(* Partners for TLC. *)
EXTENDS Partners, TLC

\* A charge: with the tour's line beside it, a total shows which lines it counts.
MCExtras == {4}

TwoNames == 1..2

\* Hotels, users, accounts and slots are interchangeable: nothing orders them.
Symmetry ==
  Permutations(HotelIds) \cup Permutations(Users) \cup Permutations(Identities)
    \cup Permutations(Requests)
=============================================================================
