------------------------------- MODULE TourOrder -------------------------------
(***************************************************************************)
(* The manual order of the tours: create and update of                     *)
(* src/src/tours/tours.service.ts and the unique constraint on sort_order  *)
(* of src/src/database/migrations/1710000000007-tour-sort-order.ts.        *)
(*                                                                         *)
(* update reads the tour, awaits, and saves it; when it is given a place,  *)
(* it renumbers the tours in a READ COMMITTED transaction instead, as      *)
(* create does.  A save is two statements: it reads the rows again, and    *)
(* then writes the columns in which its copies differ from what it just    *)
(* read.  Rows being written by another transaction make it wait, so the   *)
(* writes and the commit are one action.                                   *)
(***************************************************************************)
EXTENDS Integers, FiniteSets

CONSTANTS
  Tours,      \* ids of tours rows
  Contents,   \* what a tour has besides its order
  LastPlace,  \* places asked for are 0..LastPlace
  Requests,   \* slots for requests in flight
  NoRow,      \* no such row
  NoPlace     \* no place asked for

ASSUME ToursAssumption ==
  /\ IsFiniteSet(Tours)
  /\ LastPlace \in Nat
  /\ NoPlace \notin Nat

VARIABLES
  tours,      \* tours rows
  requests,   \* requests in flight
  alone       \* the request in flight, if any, has overlapped with no other (history)

vars == <<tours, requests, alone>>

-----------------------------------------------------------------------------
(* Types *)

Row == [order : Nat, content : Contents]

ASSUME NoRowAssumption == NoRow \notin Row \cup Contents

Table == [Tours -> Row \cup {NoRow}]

Present(rows) == { t \in Tours : rows[t] # NoRow }

Idle == [pc |-> "idle"]

Kinds == {"add", "move", "edit"}

Places == 0..LastPlace \cup {NoPlace}

ReadRequest   == [pc : {"read"}, tour : Tours, place : Places, copy : Row]
ListedRequest == [pc : {"listed"}, kind : {"add", "move"}, tour : Tours, place : Places,
                  content : Contents, rows : Table]
SavingRequest == [pc : {"saving"}, kind : Kinds, tour : Tours, place : Places,
                  copies : Table, seen : Table]

\* Rows and requests have the columns and values of their kind.
TypeOK ==
  /\ tours \in Table
  /\ requests \in [Requests -> {Idle} \cup ReadRequest \cup ListedRequest \cup SavingRequest]
  /\ alone \in BOOLEAN

Init ==
  /\ tours = [t \in Tours |-> NoRow]
  /\ requests = [r \in Requests |-> Idle]
  /\ alone = TRUE

-----------------------------------------------------------------------------
(* Renumbering *)

Others(rows, t) == Present(rows) \ {t}

\* How many of the others come before tour u.
Rank(rows, t, u) == Cardinality({ v \in Others(rows, t) : rows[v].order < rows[u].order })

\* normalizeInsertSortOrder and normalizeExistingTourSortOrder: a place past the
\* end, or none for a new tour, is the end.
TakeLiterally(rows, t, place) ==   \* mistake
  IF place # NoPlace THEN place ELSE Cardinality(Others(rows, t))
InsertAfter(rows, t, place) ==   \* mistake: one place too far
  LET last == Cardinality(Others(rows, t)) IN
  IF place # NoPlace /\ place + 1 < last THEN place + 1 ELSE last
TargetPlace(rows, t, place) ==
  LET last == Cardinality(Others(rows, t)) IN
  IF place # NoPlace /\ place < last THEN place ELSE last

\* The number tour u gets when t is taken out of the list and put in at its place.
NewOrder(rows, t, place, u) ==
  IF u = t THEN TargetPlace(rows, t, place)
  ELSE IF Rank(rows, t, u) < TargetPlace(rows, t, place) THEN Rank(rows, t, u)
  ELSE Rank(rows, t, u) + 1

\* persistOrderedTours: the tours to save are t and those whose number changes,
\* as they were listed but for the number.
Renumbered(rows, t, place, content) ==
  [u \in Tours |->
     IF u = t THEN [order |-> NewOrder(rows, t, place, t), content |-> content]
     ELSE IF u \in Present(rows) /\ NewOrder(rows, t, place, u) # rows[u].order
     THEN [order |-> NewOrder(rows, t, place, u), content |-> rows[u].content]
     ELSE NoRow]

-----------------------------------------------------------------------------
(* Requests *)

NoneBut(r) == \A q \in Requests \ {r} : requests[q] = Idle

Step(r, request) ==
  /\ requests' = [requests EXCEPT ![r] = request]
  /\ alone' = (alone \/ (request = Idle /\ NoneBut(r)))

Start(r, request) ==
  /\ requests[r] = Idle
  /\ requests' = [requests EXCEPT ![r] = request]
  /\ alone' = NoneBut(r)

\* update: the tour is read and changed.
ReadTour(r, t) ==
  /\ tours[t] # NoRow
  /\ \E content \in Contents, place \in Places :
       Start(r, [pc |-> "read", tour |-> t, place |-> place,
                 copy |-> [tours[t] EXCEPT !.content = content]])
  /\ UNCHANGED tours

Makes(request, t) ==
  request.pc \in {"listed", "saving"} /\ request.kind = "add" /\ request.tour = t

\* createTourWithManualOrder: the tours are listed.
ListForNew(r, t) ==
  /\ tours[t] = NoRow
  /\ \A q \in Requests : ~Makes(requests[q], t)
  /\ \E content \in Contents, place \in Places :
       Start(r, [pc |-> "listed", kind |-> "add", tour |-> t, place |-> place,
                 content |-> content, rows |-> tours])
  /\ UNCHANGED tours

\* moveTourToSortOrder: the tours are listed.
ListForMove(r) ==
  /\ requests[r].pc = "read"
  /\ requests[r].place # NoPlace
  /\ LET q == requests[r] IN
     Step(r, [pc |-> "listed", kind |-> "move", tour |-> q.tour, place |-> q.place,
              content |-> q.copy.content, rows |-> tours])
  /\ UNCHANGED tours

\* What a save reads: the rows of the tours it is to write.
Loaded(copies) == [u \in Tours |-> IF copies[u] = NoRow THEN NoRow ELSE tours[u]]

Saving(kind, t, place, copies) ==
  [pc |-> "saving", kind |-> kind, tour |-> t, place |-> place, copies |-> copies,
   seen |-> Loaded(copies)]

\* The first statement of the save of one tour.
ReadToSave(r) ==
  /\ requests[r].pc = "read"
  /\ requests[r].place = NoPlace
  /\ LET q == requests[r] IN
     Step(r, Saving("edit", q.tour, NoPlace, [u \in Tours |-> IF u = q.tour THEN q.copy ELSE NoRow]))
  /\ UNCHANGED tours

\* The first statement of the save of the renumbered tours.
ReadToRenumber(r) ==
  /\ requests[r].pc = "listed"
  /\ LET q == requests[r] IN
     Step(r, Saving(q.kind, q.tour, q.place, Renumbered(q.rows, q.tour, q.place, q.content)))
  /\ UNCHANGED tours

\* A column is written if the copy differs from what the save has read.
Column(now, seen, copy) == IF copy = seen THEN now ELSE copy

Written(now, seen, copy) ==
  [order   |-> Column(now.order, seen.order, copy.order),
   content |-> Column(now.content, seen.content, copy.content)]

Result(q) ==
  [u \in Tours |->
     IF q.copies[u] = NoRow THEN tours[u]
     ELSE IF q.seen[u] = NoRow THEN q.copies[u]
     ELSE Written(tours[u], q.seen[u], q.copies[u])]

\* UQ_tours_sort_order, looked at when the transaction commits.
NoConstraint(rows) == TRUE   \* mistake
IsUnique(rows) ==
  \A t, u \in Present(rows) : t # u => rows[t].order # rows[u].order

\* The second statement, and the commit or the refusal.
Save(r) ==
  /\ requests[r].pc = "saving"
  /\ LET result == Result(requests[r]) IN tours' = IF IsUnique(result) THEN result ELSE tours
  /\ Step(r, Idle)

\* A process dies, or two transactions wait for each other and one is aborted.
Abort(r) ==
  /\ requests[r] # Idle
  /\ Step(r, Idle)
  /\ UNCHANGED tours

Next == \E r \in Requests :
  \/ \E t \in Tours : ReadTour(r, t) \/ ListForNew(r, t)
  \/ ListForMove(r) \/ ReadToSave(r) \/ ReadToRenumber(r)
  \/ Save(r)
  \/ Abort(r)

Spec == Init /\ [][Next]_vars

-----------------------------------------------------------------------------
(* What always holds, however requests interleave *)

Orders(rows) == { rows[t].order : t \in Present(rows) }

\* The tours are numbered from 0 without a gap or a repetition, though every
\* renumbering starts from a list that may be out of date: no committed number
\* reaches the number of tours, and the constraint keeps them apart.
OrderIsGapless == Orders(tours) = 0..(Cardinality(Present(tours)) - 1)

NoEditMoves ==
  \A t \in Present(tours) : tours'[t].order # tours[t].order =>
    \E r \in Requests : /\ requests[r].pc = "saving" /\ requests[r].kind # "edit"
                       /\ requests'[r] = Idle

\* A save without a place never moves a tour, although it writes the number it has
\* read: with no gap to fall into, a number out of date is another tour's.
EditsKeepPlaces == [][NoEditMoves]_vars

-----------------------------------------------------------------------------
(* What holds of a request that overlaps with no other *)

\* No place asked for is the end of the list.
Place(q) == IF q.place = NoPlace THEN Cardinality(Tours) ELSE q.place

\* The catalogue as an administrator sees it.
List == INSTANCE TourList WITH
  list     <- [i \in 1..Cardinality(Present(tours)) |->
                 CHOOSE t \in Present(tours) : tours[t].order = i - 1],
  contents <- [t \in Tours |-> IF tours[t] = NoRow THEN NoRow ELSE tours[t].content]

\* Every save that commits inserts, moves or edits the tour it was asked to, to the
\* place and with the content it was given, and disturbs no other tour.
SavesDoAsAsked ==
  [][alone => \A r \in Requests :
       LET q == requests[r] IN
       q.pc = "saving" /\ tours' # tours =>
         LET c == q.copies[q.tour].content IN
         \/ q.kind = "add"  /\ List!Add(q.tour, Place(q), c)
         \/ q.kind = "move" /\ List!Move(q.tour, q.place, c)
         \/ q.kind = "edit" /\ List!Edit(q.tour, c)]_vars
=============================================================================
