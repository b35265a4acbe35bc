--------------------------- MODULE MCHotelBookings ---------------------------
(* Instances of HotelBookings for TLC. *)
EXTENDS HotelBookings, TLC

\* A charge and a discount.
MCExtras == {-1, 4}

\* Rows and slots are interchangeable: nothing orders them.
Symmetry == Permutations(Requests) \cup Permutations(LineIds)
=============================================================================
