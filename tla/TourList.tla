------------------------------- MODULE TourList -------------------------------
(***************************************************************************)
(* What the manual order of the tours promises: the catalogue is a list    *)
(* into which a tour is inserted, in which it is moved to a place, and     *)
(* whose other tours keep their contents and their order meanwhile.        *)
(***************************************************************************)
EXTENDS Integers, Sequences, SequencesExt

CONSTANTS Tours, Contents, NoRow

VARIABLES
  list,       \* the tours, the first of the catalogue first
  contents    \* everything else a tour has

vars == <<list, contents>>

\* A place past the end is the end.
Insert(places, t, place) == InsertAt(places, IF place > Len(places) THEN Len(places) + 1 ELSE place + 1, t)

\* The list without one of its tours.
Without(places, t) == RemoveAt(places, CHOOSE i \in DOMAIN places : places[i] = t)

Add(t, place, c) ==
  /\ contents[t] = NoRow
  /\ list' = Insert(list, t, place)
  /\ contents' = [contents EXCEPT ![t] = c]

Move(t, place, c) ==
  /\ contents[t] # NoRow
  /\ list' = Insert(Without(list, t), t, place)
  /\ contents' = [contents EXCEPT ![t] = c]

Edit(t, c) ==
  /\ contents[t] # NoRow
  /\ contents' = [contents EXCEPT ![t] = c]
  /\ UNCHANGED list
=============================================================================
