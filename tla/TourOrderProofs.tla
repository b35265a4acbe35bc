--------------------------- MODULE TourOrderProofs ---------------------------
(***************************************************************************)
(* Proofs about TourOrder, for every number of tours, contents, places and *)
(* requests.  The step from "no two tours have one number and no number    *)
(* reaches the count" to "the numbers are 0..n-1" is the pigeonhole.  On   *)
(* it stands the refinement of TourList: without gaps the rank of a tour   *)
(* is its number, so what a renumbering stores is the list with the tour   *)
(* put in, if what it has read is still what is stored.                    *)
(***************************************************************************)
EXTENDS TourOrder, SequenceTheorems, FiniteSetTheorems, TLAPS

\* A request's record tells what it is.
LEMMA RequestKinds ==
  ASSUME TypeOK, NEW r \in Requests
  PROVE  /\ requests[r].pc = "idle" => requests[r] = Idle
         /\ requests[r].pc = "read" => requests[r] \in ReadRequest
         /\ requests[r].pc = "listed" => requests[r] \in ListedRequest
         /\ requests[r].pc = "saving" => requests[r] \in SavingRequest
  BY DEF TypeOK, Idle, ReadRequest, ListedRequest, SavingRequest

\* A set of tours is finite, and a larger one has no fewer members.
LEMMA CountGrows ==
  ASSUME NEW A \in SUBSET Tours, NEW B \in SUBSET A
  PROVE  /\ IsFiniteSet(A) /\ Cardinality(A) \in Nat
         /\ IsFiniteSet(B) /\ Cardinality(B) \in Nat
         /\ Cardinality(B) <= Cardinality(A)
PROOF
  <1>1. IsFiniteSet(A)
    BY ToursAssumption, FS_Subset
  <1>2. IsFiniteSet(B) /\ Cardinality(B) <= Cardinality(A)
    BY <1>1, FS_Subset
  <1> QED BY <1>1, <1>2, FS_CardinalityType

-----------------------------------------------------------------------------
(* The numbers a renumbering hands out *)

\* TargetPlace is one of the places of the list with the tour in it.
LEMMA TargetPlaceIsInside ==
  ASSUME NEW rows \in Table, NEW t \in Tours, NEW place \in Places
  PROVE  TargetPlace(rows, t, place) \in 0..Cardinality(Others(rows, t))
PROOF
  <1>1. Cardinality(Others(rows, t)) \in Nat
    BY CountGrows DEF Others, Present
  <1>2. place # NoPlace => place \in Nat
    BY ToursAssumption DEF Places
  <1> QED BY <1>1, <1>2 DEF TargetPlace

\* A tour has fewer tours before it than there are others to the one moved.
LEMMA RankIsInside ==
  ASSUME NEW rows \in Table, NEW t \in Tours, NEW u \in Others(rows, t)
  PROVE  Rank(rows, t, u) \in 0..(Cardinality(Others(rows, t)) - 1)
PROOF
  <1> DEFINE before == { v \in Others(rows, t) : rows[v].order < rows[u].order }
             rest == Others(rows, t) \ {u}
  <1>1. rows[u] \in Row
    BY DEF Others, Present, Table
  <1>2. rows[u].order \in Nat
    BY <1>1 DEF Row
  <1>3. before \subseteq rest
    BY <1>2
  <1>4. Others(rows, t) \in SUBSET Tours
    BY DEF Others, Present
  <1>5. IsFiniteSet(Others(rows, t)) /\ Cardinality(Others(rows, t)) \in Nat
    BY <1>4, CountGrows
  <1>6. Cardinality(rest) = Cardinality(Others(rows, t)) - 1
    BY <1>5, FS_RemoveElement
  <1>7. Cardinality(before) \in Nat /\ Cardinality(before) <= Cardinality(rest)
    BY <1>3, <1>4, CountGrows
  <1> QED BY <1>5, <1>6, <1>7 DEF Rank

\* Every number of a renumbering is below the number of tours it lists.
LEMMA RenumberedIsBounded ==
  ASSUME NEW rows \in Table, NEW t \in Tours, NEW place \in Places, NEW content \in Contents
  PROVE  LET copies == Renumbered(rows, t, place, content) IN
         /\ copies \in Table
         /\ copies[t] # NoRow
         /\ \A u \in Present(copies) :
              /\ u \in Present(rows) \cup {t}
              /\ copies[u].order < Cardinality(Present(rows) \cup {t})
PROOF
  <1> DEFINE copies == Renumbered(rows, t, place, content)
             all == Present(rows) \cup {t}
             last == Cardinality(Others(rows, t))
  <1>1. last \in Nat /\ Cardinality(all) = last + 1
    <2>1. Others(rows, t) \in SUBSET Tours /\ Others(rows, t) \cup {t} = all /\ t \notin Others(rows, t)
      BY DEF Others, Present
    <2>2. IsFiniteSet(Others(rows, t)) /\ last \in Nat
      BY <2>1, CountGrows
    <2>3. Cardinality(Others(rows, t) \cup {t}) = last + 1
      BY <2>1, <2>2, FS_AddElement
    <2> QED BY <2>1, <2>2, <2>3
  <1>2. TargetPlace(rows, t, place) \in 0..last
    BY TargetPlaceIsInside
  <1>3. \A u \in Others(rows, t) : Rank(rows, t, u) \in 0..(last - 1)
    BY RankIsInside
  <1>4. \A u \in all : NewOrder(rows, t, place, u) \in Nat /\ NewOrder(rows, t, place, u) < Cardinality(all)
    <2> SUFFICES ASSUME NEW u \in all
                 PROVE  NewOrder(rows, t, place, u) \in Nat /\ NewOrder(rows, t, place, u) < Cardinality(all)
      OBVIOUS
    <2>1. CASE u = t
      BY <2>1, <1>1, <1>2 DEF NewOrder
    <2>2. CASE u # t
      <3>1. u \in Others(rows, t)
        BY <2>2 DEF Others
      <3>2. Rank(rows, t, u) \in 0..(last - 1)
        BY <3>1, <1>3
      <3> QED BY <2>2, <3>2, <1>1 DEF NewOrder
    <2> QED BY <2>1, <2>2
  <1>5. \A u \in Present(rows) : rows[u] \in Row /\ rows[u].content \in Contents
    BY DEF Present, Table, Row
  <1>6. \A u \in Tours :
          \/ /\ u \in all
             /\ copies[u] \in Row
             /\ copies[u].order = NewOrder(rows, t, place, u)
          \/ u # t /\ copies[u] = NoRow
    <2> SUFFICES ASSUME NEW u \in Tours
                 PROVE  \/ /\ u \in all
                           /\ copies[u] \in Row
                           /\ copies[u].order = NewOrder(rows, t, place, u)
                        \/ u # t /\ copies[u] = NoRow
      OBVIOUS
    <2> HIDE DEF all
    <2>1. CASE u = t
      <3>1. copies[u] = [order |-> NewOrder(rows, t, place, t), content |-> content]
        BY <2>1 DEF Renumbered
      <3>2. u \in all
        BY <2>1 DEF all
      <3> QED BY <2>1, <3>1, <3>2, <1>4 DEF Row
    <2>2. CASE u # t /\ u \in Present(rows) /\ NewOrder(rows, t, place, u) # rows[u].order
      <3>1. copies[u] = [order |-> NewOrder(rows, t, place, u), content |-> rows[u].content]
        BY <2>2 DEF Renumbered
      <3>2. u \in all
        BY <2>2 DEF all
      <3> QED BY <3>1, <3>2, <1>4, <1>5, <2>2 DEF Row
    <2>3. CASE u # t /\ ~(u \in Present(rows) /\ NewOrder(rows, t, place, u) # rows[u].order)
      BY <2>3 DEF Renumbered
    <2> QED BY <2>1, <2>2, <2>3
  <1>7. copies = [u \in Tours |-> copies[u]]
    BY DEF Renumbered
  <1>8. copies \in Table
    BY <1>6, <1>7 DEF Table
  <1>9. copies[t] # NoRow
    BY <1>6, NoRowAssumption
  <1>10. \A u \in Present(copies) : u \in all /\ copies[u].order < Cardinality(all)
    BY <1>4, <1>6 DEF Present
  <1> QED BY <1>8, <1>9, <1>10

-----------------------------------------------------------------------------
(* Types *)

\* A commit yields rows, and takes none away.
LEMMA ResultRows ==
  ASSUME TypeOK, NEW q \in SavingRequest, Present(q.seen) \subseteq Present(tours)
  PROVE  /\ Result(q) \in Table
         /\ Present(Result(q)) = Present(tours) \cup Present(q.copies)
         /\ \A u \in Present(Result(q)) :
              \/ u \in Present(tours) /\ Result(q)[u].order = tours[u].order
              \/ u \in Present(q.copies) /\ Result(q)[u].order = q.copies[u].order
PROOF
  <1> DEFINE row(u) == Result(q)[u]
  <1>1. /\ tours \in Table /\ q.copies \in Table /\ q.seen \in Table
    BY DEF TypeOK, SavingRequest
  <1>2. \A u \in Tours : row(u) =
          IF q.copies[u] = NoRow THEN tours[u]
          ELSE IF q.seen[u] = NoRow THEN q.copies[u]
          ELSE Written(tours[u], q.seen[u], q.copies[u])
    BY DEF Result
  <1>3. ASSUME NEW u \in Tours
        PROVE  \/ /\ row(u) \in Row
                  /\ \/ u \in Present(tours) /\ row(u).order = tours[u].order
                     \/ u \in Present(q.copies) /\ row(u).order = q.copies[u].order
               \/ row(u) = NoRow /\ u \notin Present(tours) /\ u \notin Present(q.copies)
    <2>1. CASE q.copies[u] = NoRow
      BY <2>1, <1>1, <1>2 DEF Table, Present
    <2>2. CASE q.copies[u] # NoRow /\ q.seen[u] = NoRow
      BY <2>2, <1>1, <1>2 DEF Table, Present
    <2>3. CASE q.copies[u] # NoRow /\ q.seen[u] # NoRow
      <3>1. u \in Present(tours) /\ u \in Present(q.copies)
        BY <2>3 DEF Present
      <3>2. tours[u] \in Row /\ q.copies[u] \in Row /\ q.seen[u] \in Row
        BY <1>1, <2>3, <3>1 DEF Table, Present
      <3>3. row(u) = Written(tours[u], q.seen[u], q.copies[u])
        BY <1>2, <2>3
      <3>4. /\ row(u).order \in {tours[u].order, q.copies[u].order}
            /\ row(u) \in Row
        BY <3>2, <3>3 DEF Written, Column, Row
      <3> QED BY <3>1, <3>4
    <2> QED BY <2>1, <2>2, <2>3
  <1>4. Result(q) \in Table
    <2>1. Result(q) = [u \in Tours |-> row(u)]
      BY DEF Result
    <2> QED BY <1>3, <2>1 DEF Table
  <1>5. \A u \in Tours : row(u) # NoRow <=> u \in Present(tours) \cup Present(q.copies)
    BY <1>3, NoRowAssumption
  <1>6. Present(Result(q)) = Present(tours) \cup Present(q.copies)
    BY <1>5 DEF Present
  <1>7. \A u \in Present(Result(q)) :
              \/ u \in Present(tours) /\ row(u).order = tours[u].order
              \/ u \in Present(q.copies) /\ row(u).order = q.copies[u].order
    BY <1>3, NoRowAssumption DEF Present
  <1> QED BY <1>4, <1>6, <1>7

\* No number in the rows reaches the size of the set.
Within(rows, bound) == \A t \in Present(rows) : rows[t].order < Cardinality(bound)

\* What a request holds is in line with a catalogue that has grown since: it knows
\* no tour the catalogue has lost, and no number beyond the end of the catalogue.
HeldRowsFit(q, catalogue) ==
  /\ q.pc = "read" => q.tour \in catalogue /\ q.copy.order < Cardinality(catalogue)
  /\ q.pc = "listed" => Present(q.rows) \subseteq catalogue
  /\ q.pc = "saving" =>
       /\ q.copies[q.tour] # NoRow
       /\ Present(q.copies) \subseteq catalogue \cup {q.tour}
       /\ Within(q.copies, catalogue \cup {q.tour})
       /\ Present(q.seen) \subseteq catalogue
       /\ q.kind = "edit" => q.tour \in catalogue /\ Present(q.copies) = {q.tour}

\* The inductive invariant: numbers are distinct and below the number of tours,
\* and what is in flight keeps it so.
NumbersFit ==
  /\ IsUnique(tours)
  /\ Within(tours, Present(tours))
  /\ \A r \in Requests : HeldRowsFit(requests[r], Present(tours))

\* What a save reads are rows of the table.
LEMMA LoadedRows ==
  ASSUME TypeOK, NEW copies \in Table
  PROVE  Loaded(copies) \in Table /\ Present(Loaded(copies)) \subseteq Present(tours)
  BY DEF TypeOK, Loaded, Table, Present

\* The one copy an edit saves.
LEMMA EditCopies ==
  ASSUME NEW t \in Tours, NEW row \in Row
  PROVE  LET copies == [u \in Tours |-> IF u = t THEN row ELSE NoRow] IN
         copies \in Table /\ copies[t] = row /\ Present(copies) = {t}
  BY NoRowAssumption DEF Table, Present

\* Every column and every request keeps its type.
LEMMA TypeStep ==
  TypeOK /\ NumbersFit /\ [Next]_vars => TypeOK'
PROOF
  <1> SUFFICES ASSUME TypeOK, NumbersFit, [Next]_vars PROVE TypeOK'
    OBVIOUS
  <1> DEFINE Request == {Idle} \cup ReadRequest \cup ListedRequest \cup SavingRequest
  <1>a. /\ tours \in Table /\ requests \in [Requests -> Request] /\ alone \in BOOLEAN
    BY DEF TypeOK
  <1>b. ASSUME tours' \in Table, alone' \in BOOLEAN, NEW r \in Requests, NEW q \in Request,
               requests' = [requests EXCEPT ![r] = q]
        PROVE  TypeOK'
    BY <1>a, <1>b DEF TypeOK, Table, Row, ReadRequest, ListedRequest, SavingRequest, Idle
  <1>c. ASSUME NEW r \in Requests, NEW q, Start(r, q) \/ Step(r, q)
        PROVE  alone' \in BOOLEAN /\ requests' = [requests EXCEPT ![r] = q]
    BY <1>a, <1>c DEF Start, Step, NoneBut
  <1>1. ASSUME NEW r \in Requests, NEW t \in Tours, ReadTour(r, t) PROVE TypeOK'
    <2>1. PICK content \in Contents, place \in Places :
            Start(r, [pc |-> "read", tour |-> t, place |-> place,
                      copy |-> [tours[t] EXCEPT !.content = content]])
      BY <1>1 DEF ReadTour
    <2>2. tours[t] \in Row /\ tours' = tours
      BY <1>1, <1>a DEF ReadTour, Table
    <2>3. [tours[t] EXCEPT !.content = content] \in Row
      BY <2>2 DEF Row
    <2>4. [pc |-> "read", tour |-> t, place |-> place,
           copy |-> [tours[t] EXCEPT !.content = content]] \in ReadRequest
      BY <2>3 DEF ReadRequest
    <2> QED BY <1>a, <1>b, <1>c, <2>1, <2>2, <2>4
  <1>2. ASSUME NEW r \in Requests, NEW t \in Tours, ListForNew(r, t) PROVE TypeOK'
    <2>1. PICK content \in Contents, place \in Places :
            Start(r, [pc |-> "listed", kind |-> "add", tour |-> t, place |-> place,
                      content |-> content, rows |-> tours])
      BY <1>2 DEF ListForNew
    <2>2. [pc |-> "listed", kind |-> "add", tour |-> t, place |-> place,
           content |-> content, rows |-> tours] \in ListedRequest
      BY <1>a DEF ListedRequest
    <2>3. tours' = tours
      BY <1>2 DEF ListForNew
    <2> QED BY <1>a, <1>b, <1>c, <2>1, <2>2, <2>3
  <1>3. ASSUME NEW r \in Requests, ListForMove(r) PROVE TypeOK'
    <2> DEFINE q == requests[r]
               next == [pc |-> "listed", kind |-> "move", tour |-> q.tour, place |-> q.place,
                        content |-> q.copy.content, rows |-> tours]
    <2>1. q \in ReadRequest
      BY <1>3, RequestKinds DEF ListForMove
    <2>2. next \in ListedRequest
      BY <1>a, <2>1 DEF ListedRequest, ReadRequest, Row
    <2>3. Step(r, next) /\ tours' = tours
      BY <1>3 DEF ListForMove
    <2> QED BY <1>a, <1>b, <1>c, <2>2, <2>3
  <1>4. ASSUME NEW r \in Requests, ReadToSave(r) PROVE TypeOK'
    <2> DEFINE q == requests[r]
               copies == [u \in Tours |-> IF u = q.tour THEN q.copy ELSE NoRow]
    <2>1. q \in ReadRequest
      BY <1>4, RequestKinds DEF ReadToSave
    <2>2. q.tour \in Tours /\ q.copy \in Row
      BY <2>1 DEF ReadRequest
    <2>3. copies \in Table
      BY <2>2, EditCopies
    <2>4. Loaded(copies) \in Table
      BY <2>3, LoadedRows
    <2>5. Saving("edit", q.tour, NoPlace, copies) \in SavingRequest
      BY <2>2, <2>3, <2>4 DEF Saving, SavingRequest, Kinds, Places
    <2>6. Step(r, Saving("edit", q.tour, NoPlace, copies)) /\ tours' = tours
      BY <1>4 DEF ReadToSave
    <2> QED BY <1>a, <1>b, <1>c, <2>5, <2>6
  <1>5. ASSUME NEW r \in Requests, ReadToRenumber(r) PROVE TypeOK'
    <2> DEFINE q == requests[r]
               copies == Renumbered(q.rows, q.tour, q.place, q.content)
    <2>1. q \in ListedRequest
      BY <1>5, RequestKinds DEF ReadToRenumber
    <2>2. q.rows \in Table /\ q.tour \in Tours /\ q.place \in Places /\ q.content \in Contents
          /\ q.kind \in Kinds
      BY <2>1 DEF ListedRequest, Kinds
    <2>3. copies \in Table
      BY <2>2, RenumberedIsBounded
    <2>4. Loaded(copies) \in Table
      BY <2>3, LoadedRows
    <2>5. Saving(q.kind, q.tour, q.place, copies) \in SavingRequest
      BY <2>2, <2>3, <2>4 DEF Saving, SavingRequest
    <2>6. Step(r, Saving(q.kind, q.tour, q.place, copies)) /\ tours' = tours
      BY <1>5 DEF ReadToRenumber
    <2> QED BY <1>a, <1>b, <1>c, <2>5, <2>6
  <1>6. ASSUME NEW r \in Requests, Save(r) PROVE TypeOK'
    <2>1. requests[r] \in SavingRequest /\ Present(requests[r].seen) \subseteq Present(tours)
      BY <1>6, RequestKinds DEF Save, NumbersFit, HeldRowsFit
    <2>2. Result(requests[r]) \in Table
      BY <2>1, ResultRows
    <2>3. tours' \in Table /\ Step(r, Idle)
      BY <1>6, <1>a, <2>2 DEF Save
    <2> QED BY <1>b, <1>c, <2>3
  <1>7. ASSUME NEW r \in Requests, Abort(r) PROVE TypeOK'
    BY <1>7, <1>a, <1>b, <1>c DEF Abort
  <1>8. CASE UNCHANGED vars
    BY <1>8 DEF vars, TypeOK, Table, Row, ReadRequest, ListedRequest, SavingRequest, Idle
  <1> QED BY <1>1, <1>2, <1>3, <1>4, <1>5, <1>6, <1>7, <1>8 DEF Next

-----------------------------------------------------------------------------
(* The numbers *)

\* What a request holds fits a larger catalogue too.
LEMMA FitsLarger ==
  ASSUME NEW small \in SUBSET Tours, NEW large \in SUBSET Tours, small \subseteq large,
         NEW q \in {Idle} \cup ReadRequest \cup ListedRequest \cup SavingRequest,
         HeldRowsFit(q, small)
  PROVE  HeldRowsFit(q, large)
PROOF
  <1>1. /\ Cardinality(small) \in Nat /\ Cardinality(large) \in Nat
        /\ Cardinality(small) <= Cardinality(large)
    BY CountGrows
  <1>2. CASE q \in {Idle} \cup ListedRequest
    BY <1>2 DEF HeldRowsFit, Idle, ListedRequest
  <1>3. CASE q \in ReadRequest
    <2>1. q.copy.order \in Nat
      BY <1>3 DEF ReadRequest, Row
    <2> QED BY <1>1, <1>3, <2>1 DEF HeldRowsFit, ReadRequest
  <1>4. CASE q \in SavingRequest
    <2>1. q.tour \in Tours /\ q.copies \in Table
      BY <1>4 DEF SavingRequest
    <2>2. /\ Cardinality(small \cup {q.tour}) \in Nat /\ Cardinality(large \cup {q.tour}) \in Nat
          /\ Cardinality(small \cup {q.tour}) <= Cardinality(large \cup {q.tour})
      <3>1. small \cup {q.tour} \in SUBSET (large \cup {q.tour}) /\ large \cup {q.tour} \in SUBSET Tours
        BY <2>1
      <3> HIDE <2>1
      <3> QED BY <3>1, CountGrows
    <2>3. \A u \in Present(q.copies) : q.copies[u].order \in Nat
      BY <2>1 DEF Table, Present, Row
    <2>4. Within(q.copies, small \cup {q.tour})
      BY <1>4 DEF HeldRowsFit, SavingRequest
    <2>5. Within(q.copies, large \cup {q.tour})
      <3> DEFINE few == Cardinality(small \cup {q.tour})
                 many == Cardinality(large \cup {q.tour})
      <3>1. \A u \in Present(q.copies) : q.copies[u].order \in Nat /\ q.copies[u].order < few
        BY <2>3, <2>4 DEF Within
      <3>2. few \in Nat /\ many \in Nat /\ few <= many
        BY <2>2
      <3> HIDE DEF few, many
      <3>3. \A u \in Present(q.copies) : q.copies[u].order < many
        BY <3>1, <3>2
      <3> QED BY <3>3 DEF Within, many
    <2> QED BY <1>4, <2>5 DEF HeldRowsFit, SavingRequest
  <1> QED BY <1>2, <1>3, <1>4

\* A step that replaces one request and takes no tour away keeps the requests
\* fitting if the new request fits.
LEMMA OthersStillFit ==
  ASSUME TypeOK, NumbersFit, NEW catalogue \in SUBSET Tours, Present(tours) \subseteq catalogue,
         NEW r \in Requests, NEW q, HeldRowsFit(q, catalogue),
         requests' = [requests EXCEPT ![r] = q]
  PROVE  \A s \in Requests : HeldRowsFit(requests'[s], catalogue)
PROOF
  <1> SUFFICES ASSUME NEW s \in Requests PROVE HeldRowsFit(requests'[s], catalogue)
    OBVIOUS
  <1>1. CASE s = r
    BY <1>1 DEF TypeOK
  <1>2. CASE s # r
    <2>1. requests'[s] = requests[s]
      BY <1>2 DEF TypeOK
    <2>2. requests[s] \in {Idle} \cup ReadRequest \cup ListedRequest \cup SavingRequest
      BY DEF TypeOK
    <2>3. HeldRowsFit(requests[s], Present(tours)) /\ Present(tours) \in SUBSET Tours
      BY DEF NumbersFit, Present
    <2> QED BY <2>1, <2>2, <2>3, FitsLarger
  <1> QED BY <1>1, <1>2

\* A commit keeps the numbers below the number of tours.
LEMMA CommitFits ==
  ASSUME TypeOK, NumbersFit, NEW r \in Requests, requests[r].pc = "saving"
  PROVE  LET result == Result(requests[r]) IN
         /\ Present(tours) \subseteq Present(result)
         /\ Present(result) \in SUBSET Tours
         /\ Within(result, Present(result))
PROOF
  <1> DEFINE q == requests[r]
             result == Result(q)
             all == Present(tours) \cup {q.tour}
  <1>1. q \in SavingRequest /\ HeldRowsFit(q, Present(tours))
    BY RequestKinds DEF NumbersFit
  <1>2. /\ q.copies[q.tour] # NoRow
        /\ Within(q.copies, all)
        /\ Present(q.copies) \subseteq all
        /\ Present(q.seen) \subseteq Present(tours)
        /\ q.tour \in Tours /\ q.copies \in Table
    BY <1>1 DEF HeldRowsFit, SavingRequest
  <1>3. q.tour \in Present(q.copies)
    BY <1>2 DEF Present
  <1>4. Present(result) = all
    BY <1>1, <1>2, <1>3, ResultRows
  <1>5. all \in SUBSET Tours /\ Present(tours) \in SUBSET all
    BY <1>2 DEF Present
  <1>6. /\ Cardinality(all) \in Nat /\ Cardinality(Present(tours)) \in Nat
        /\ Cardinality(Present(tours)) <= Cardinality(all)
    BY <1>5, CountGrows
  <1>7. \A u \in Present(result) : result[u].order < Cardinality(all)
    <2> SUFFICES ASSUME NEW u \in Present(result) PROVE result[u].order < Cardinality(all)
      OBVIOUS
    <2>1. \/ u \in Present(tours) /\ result[u].order = tours[u].order
          \/ u \in Present(q.copies) /\ result[u].order = q.copies[u].order
      BY <1>1, <1>2, ResultRows
    <2>2. CASE u \in Present(tours) /\ result[u].order = tours[u].order
      <3>1. tours[u].order \in Nat
        BY <2>2 DEF TypeOK, Table, Row, Present
      <3>2. tours[u].order < Cardinality(Present(tours))
        BY <2>2 DEF NumbersFit, Within
      <3> HIDE DEF all, result
      <3> QED BY <2>2, <3>1, <3>2, <1>6
    <2>3. CASE u \in Present(q.copies) /\ result[u].order = q.copies[u].order
      BY <2>3, <1>2 DEF Within
    <2> QED BY <2>1, <2>2, <2>3
  <1>8. Within(result, Present(result))
    BY <1>4, <1>7 DEF Within
  <1> QED BY <1>4, <1>5, <1>8

\* The numbers fit after every step.
LEMMA NumbersStep ==
  TypeOK /\ NumbersFit /\ [Next]_vars => NumbersFit'
PROOF
  <1> SUFFICES ASSUME TypeOK, NumbersFit, [Next]_vars PROVE NumbersFit'
    OBVIOUS
  <1> DEFINE catalogue == Present(tours)
  <1>a. requests \in [Requests -> {Idle} \cup ReadRequest \cup ListedRequest \cup SavingRequest]
        /\ tours \in Table /\ catalogue \in SUBSET Tours
    BY DEF TypeOK, Present
  <1>b. ASSUME NEW r \in Requests, NEW q, HeldRowsFit(q, catalogue), tours' = tours,
               Start(r, q) \/ Step(r, q)
        PROVE  NumbersFit'
    <2>1. requests' = [requests EXCEPT ![r] = q]
      BY <1>b DEF Start, Step
    <2>2. \A s \in Requests : HeldRowsFit(requests'[s], catalogue)
      BY <1>a, <1>b, <2>1, OthersStillFit
    <2>3. Present(tours') = catalogue
      BY <1>b
    <2> QED BY <1>b, <2>2, <2>3 DEF NumbersFit, IsUnique, Within, Present
  <1>1. ASSUME NEW r \in Requests, NEW t \in Tours, ReadTour(r, t) PROVE NumbersFit'
    <2>1. PICK content \in Contents, place \in Places :
            Start(r, [pc |-> "read", tour |-> t, place |-> place,
                      copy |-> [tours[t] EXCEPT !.content = content]])
      BY <1>1 DEF ReadTour
    <2> DEFINE q == [pc |-> "read", tour |-> t, place |-> place,
                     copy |-> [tours[t] EXCEPT !.content = content]]
    <2>2. tours[t] \in Row /\ tours' = tours /\ t \in catalogue
      BY <1>1, <1>a DEF ReadTour, Table, Present
    <2>3. [tours[t] EXCEPT !.content = content].order = tours[t].order
      BY <2>2 DEF Row
    <2>4. tours[t].order < Cardinality(catalogue)
      BY <2>2 DEF NumbersFit, Within
    <2>5. HeldRowsFit(q, catalogue)
      BY <2>2, <2>3, <2>4 DEF HeldRowsFit
    <2> QED BY <1>b, <2>1, <2>2, <2>5
  <1>2. ASSUME NEW r \in Requests, NEW t \in Tours, ListForNew(r, t) PROVE NumbersFit'
    <2>1. PICK content \in Contents, place \in Places :
            Start(r, [pc |-> "listed", kind |-> "add", tour |-> t, place |-> place,
                      content |-> content, rows |-> tours])
      BY <1>2 DEF ListForNew
    <2>2. tours' = tours
      BY <1>2 DEF ListForNew
    <2>3. HeldRowsFit([pc |-> "listed", kind |-> "add", tour |-> t, place |-> place,
                       content |-> content, rows |-> tours], catalogue)
      BY DEF HeldRowsFit
    <2> QED BY <1>b, <2>1, <2>2, <2>3
  <1>3. ASSUME NEW r \in Requests, ListForMove(r) PROVE NumbersFit'
    <2> DEFINE q == requests[r]
               next == [pc |-> "listed", kind |-> "move", tour |-> q.tour, place |-> q.place,
                        content |-> q.copy.content, rows |-> tours]
    <2>1. Step(r, next) /\ tours' = tours
      BY <1>3 DEF ListForMove
    <2>2. HeldRowsFit(next, catalogue)
      BY DEF HeldRowsFit
    <2> QED BY <1>b, <2>1, <2>2
  <1>4. ASSUME NEW r \in Requests, ReadToSave(r) PROVE NumbersFit'
    <2> DEFINE q == requests[r]
               copies == [u \in Tours |-> IF u = q.tour THEN q.copy ELSE NoRow]
    <2>1. q \in ReadRequest /\ q.pc = "read" /\ HeldRowsFit(q, catalogue)
      BY <1>4, RequestKinds DEF ReadToSave, NumbersFit
    <2>2. /\ q.tour \in Tours /\ q.copy \in Row
          /\ q.tour \in catalogue /\ q.copy.order < Cardinality(catalogue)
      BY <2>1 DEF ReadRequest, HeldRowsFit
    <2>3. copies \in Table /\ copies[q.tour] = q.copy /\ Present(copies) = {q.tour}
      BY <2>2, EditCopies
    <2>4. Present(Loaded(copies)) \subseteq catalogue
      BY <2>3, LoadedRows
    <2>5. catalogue \cup {q.tour} = catalogue
      BY <2>2
    <2>6. Within(copies, catalogue \cup {q.tour})
      BY <2>2, <2>3, <2>5 DEF Within
    <2>7. copies[q.tour] # NoRow
      BY <2>2, <2>3, NoRowAssumption
    <2> HIDE DEF copies, catalogue
    <2>8. HeldRowsFit(Saving("edit", q.tour, NoPlace, copies), catalogue)
      BY <2>2, <2>3, <2>4, <2>6, <2>7 DEF HeldRowsFit, Saving
    <2>9. Step(r, Saving("edit", q.tour, NoPlace, copies)) /\ tours' = tours
      BY <1>4 DEF ReadToSave, copies
    <2> QED BY <1>b, <2>8, <2>9
  <1>5. ASSUME NEW r \in Requests, ReadToRenumber(r) PROVE NumbersFit'
    <2> DEFINE q == requests[r]
               copies == Renumbered(q.rows, q.tour, q.place, q.content)
    <2>1. q \in ListedRequest /\ q.pc = "listed" /\ HeldRowsFit(q, catalogue)
      BY <1>5, RequestKinds DEF ReadToRenumber, NumbersFit
    <2>2. /\ q.rows \in Table /\ q.tour \in Tours /\ q.place \in Places /\ q.content \in Contents
          /\ q.kind # "edit" /\ Present(q.rows) \subseteq catalogue
      BY <2>1 DEF ListedRequest, HeldRowsFit
    <2> DEFINE known == Present(q.rows) \cup {q.tour}
               all == catalogue \cup {q.tour}
    <2>3. /\ copies \in Table /\ copies[q.tour] # NoRow
          /\ \A u \in Present(copies) : u \in known /\ copies[u].order < Cardinality(known)
      <3> DEFINE rows == q.rows
                 t == q.tour
                 place == q.place
                 content == q.content
      <3>1. rows \in Table /\ t \in Tours /\ place \in Places /\ content \in Contents
        BY <2>2
      <3> HIDE DEF rows, t, place, content
      <3>2. /\ Renumbered(rows, t, place, content) \in Table
            /\ Renumbered(rows, t, place, content)[t] # NoRow
            /\ \A u \in Present(Renumbered(rows, t, place, content)) :
                 /\ u \in Present(rows) \cup {t}
                 /\ Renumbered(rows, t, place, content)[u].order < Cardinality(Present(rows) \cup {t})
        BY <3>1, RenumberedIsBounded
      <3> QED BY <3>2 DEF rows, t, place, content
    <2>4. Present(Loaded(copies)) \subseteq catalogue
      BY <2>3, LoadedRows
    <2>5. all \in SUBSET Tours /\ known \in SUBSET all
      BY <1>a, <2>2
    <2>6. /\ Cardinality(known) \in Nat /\ Cardinality(all) \in Nat
          /\ Cardinality(known) <= Cardinality(all)
      BY <2>5, CountGrows
    <2>7. \A u \in Present(copies) : copies[u].order \in Nat
      BY <2>3 DEF Table, Present, Row
    <2>8. Present(copies) \subseteq all
      BY <2>3, <2>5
    <2> HIDE DEF copies, catalogue, known
    <2>9. Within(copies, all)
      BY <2>3, <2>6, <2>7 DEF Within
    <2>10. HeldRowsFit(Saving(q.kind, q.tour, q.place, copies), catalogue)
      BY <2>2, <2>3, <2>4, <2>8, <2>9 DEF HeldRowsFit, Saving
    <2>11. Step(r, Saving(q.kind, q.tour, q.place, copies)) /\ tours' = tours
      BY <1>5 DEF ReadToRenumber, copies
    <2> QED BY <1>b, <2>10, <2>11
  <1>6. ASSUME NEW r \in Requests, Save(r) PROVE NumbersFit'
    <2>1. HeldRowsFit(Idle, Present(tours'))
      BY DEF HeldRowsFit, Idle
    <2>2. CASE tours' = tours
      BY <1>6, <1>b, <2>1, <2>2 DEF Save
    <2>3. CASE tours' # tours
      <3>1. tours' = Result(requests[r]) /\ IsUnique(tours') /\ requests[r].pc = "saving"
        BY <1>6, <2>3 DEF Save
      <3>2. /\ Present(tours) \subseteq Present(tours')
            /\ Present(tours') \in SUBSET Tours
            /\ Within(tours', Present(tours'))
        BY <3>1, CommitFits
      <3>3. requests' = [requests EXCEPT ![r] = Idle]
        BY <1>6 DEF Save, Step
      <3>4. \A s \in Requests : HeldRowsFit(requests'[s], Present(tours'))
        BY <2>1, <3>2, <3>3, OthersStillFit
      <3> QED BY <3>1, <3>2, <3>4 DEF NumbersFit, IsUnique, Within, Present
    <2> QED BY <2>2, <2>3
  <1>7. ASSUME NEW r \in Requests, Abort(r) PROVE NumbersFit'
    <2>1. HeldRowsFit(Idle, catalogue)
      BY DEF HeldRowsFit, Idle
    <2> QED BY <1>7, <1>b, <2>1 DEF Abort
  <1>8. CASE UNCHANGED vars
    BY <1>8 DEF vars, NumbersFit, IsUnique, Within, Present
  <1> QED BY <1>1, <1>2, <1>3, <1>4, <1>5, <1>6, <1>7, <1>8 DEF Next

\* However requests overlap, the columns and the requests keep their types, and the
\* numbers fit the catalogue.
THEOREM TypeCorrect == Spec => [](TypeOK /\ NumbersFit)
PROOF
  <1>1. Init => TypeOK /\ NumbersFit
    BY DEF Init, TypeOK, NumbersFit, Table, Present, IsUnique, Within, HeldRowsFit, Idle
  <1>2. (TypeOK /\ NumbersFit) /\ [Next]_vars => (TypeOK /\ NumbersFit)'
    BY TypeStep, NumbersStep
  <1> QED BY <1>1, <1>2, PTL DEF Spec

\* Distinct numbers below the number of tours are all of them (the pigeonhole).
LEMMA DistinctAndBounded ==
  ASSUME TypeOK, NumbersFit PROVE OrderIsGapless
PROOF
  <1> DEFINE n == Cardinality(Present(tours))
             f == [t \in Present(tours) |-> tours[t].order]
  <1>1. Present(tours) \in SUBSET Tours /\ \A t \in Present(tours) : tours[t].order \in Nat
    BY DEF TypeOK, Table, Row, Present
  <1>2. IsFiniteSet(Present(tours)) /\ n \in Nat
    BY <1>1, CountGrows
  <1>3. Orders(tours) \subseteq 0..(n - 1)
    BY <1>1, <1>2 DEF NumbersFit, Within, Orders
  <1>4. f \in Injection(Present(tours), Orders(tours))
    BY DEF Injection, IsInjective, Orders, NumbersFit, IsUnique
  <1>5. f \in Surjection(Present(tours), Orders(tours))
    BY DEF Surjection, Orders
  <1>6. Cardinality(Orders(tours)) = n
    BY <1>2, <1>4, <1>5, FS_Surjection
  <1>7. IsFiniteSet(0..(n - 1)) /\ Cardinality(0..(n - 1)) = n
    BY <1>2, FS_Interval
  <1>8. Orders(tours) = 0..(n - 1)
    BY <1>3, <1>6, <1>7, FS_Subset
  <1> QED BY <1>8 DEF OrderIsGapless

\* The catalogue is numbered from 0 without a gap, whatever renumberings overlap.
THEOREM OrderCorrect == Spec => []OrderIsGapless
PROOF
  <1> QED BY TypeCorrect, DistinctAndBounded, PTL

\* A save without a place moves no tour: the number it writes, out of date, is
\* another tour's, and the constraint refuses it.
THEOREM EditsStay == Spec => EditsKeepPlaces
PROOF
  <1>1. ASSUME TypeOK, NumbersFit, [Next]_vars, NEW t \in Present(tours),
               tours'[t].order # tours[t].order
        PROVE  \E r \in Requests : /\ requests[r].pc = "saving" /\ requests[r].kind # "edit"
                                   /\ requests'[r] = Idle
    <2>1. PICK r \in Requests : Save(r) /\ tours' # tours
      BY <1>1 DEF Next, vars, ReadTour, ListForNew, ListForMove, ReadToSave, ReadToRenumber, Abort
    <2> DEFINE q == requests[r]
    <2>2. /\ tours' = Result(q) /\ IsUnique(tours') /\ q.pc = "saving" /\ requests'[r] = Idle
      BY <1>1, <2>1 DEF Save, Step, TypeOK
    <2>3. q \in SavingRequest /\ HeldRowsFit(q, Present(tours))
      BY <1>1, <2>2, RequestKinds DEF NumbersFit
    <2>4. /\ Present(tours') = Present(tours) \cup Present(q.copies)
          /\ \A u \in Present(tours') :
               \/ u \in Present(tours) /\ tours'[u].order = tours[u].order
               \/ u \in Present(q.copies) /\ tours'[u].order = q.copies[u].order
      BY <1>1, <2>2, <2>3, ResultRows DEF HeldRowsFit
    <2>5. ASSUME q.kind = "edit" PROVE FALSE
      <3>1. /\ q.tour \in Present(tours) /\ Present(q.copies) = {q.tour}
            /\ Within(q.copies, Present(tours) \cup {q.tour})
        BY <2>2, <2>3, <2>5 DEF HeldRowsFit
      <3>2. t = q.tour /\ tours'[t].order = q.copies[t].order /\ t \in Present(q.copies)
        BY <1>1, <2>4, <3>1
      <3>3. Present(tours) \cup {q.tour} = Present(tours)
        BY <3>1
      <3>4. q.copies[t].order < Cardinality(Present(tours))
        BY <3>1, <3>2, <3>3 DEF Within
      <3>5. q.copies[t].order \in Nat
        BY <2>3, <3>2 DEF SavingRequest, Table, Row, Present
      <3>6. Cardinality(Present(tours)) \in Nat
        BY CountGrows DEF Present
      <3>7. q.copies[t].order \in Orders(tours)
        BY <1>1, <3>4, <3>5, <3>6, DistinctAndBounded DEF OrderIsGapless
      <3>8. PICK u \in Present(tours) : tours[u].order = q.copies[t].order
        BY <3>7 DEF Orders
      <3>9. u # t
        BY <1>1, <3>2, <3>8
      <3>10. tours'[u].order = tours[u].order /\ u \in Present(tours') /\ t \in Present(tours')
        BY <1>1, <2>4, <3>1, <3>2, <3>9
      <3> QED BY <2>2, <3>2, <3>8, <3>9, <3>10 DEF IsUnique
    <2> QED BY <2>2, <2>5
  <1>2. TypeOK /\ NumbersFit /\ [Next]_vars => [NoEditMoves]_vars
    BY <1>1 DEF NoEditMoves
  <1> QED BY <1>2, TypeCorrect, PTL DEF Spec, EditsKeepPlaces

-----------------------------------------------------------------------------
(* The catalogue as a list *)

\* What an insertion into a list and a removal from it yield, place by place.
LEMMA Inserted ==
  ASSUME NEW s \in Seq(Tours), NEW t \in Tours, NEW place \in Nat
  PROVE  LET at == IF place > Len(s) THEN Len(s) ELSE place IN
         /\ List!Insert(s, t, place) \in Seq(Tours)
         /\ Len(List!Insert(s, t, place)) = Len(s) + 1
         /\ \A i \in 1..(Len(s) + 1) :
              List!Insert(s, t, place)[i] =
                IF i <= at THEN s[i] ELSE IF i = at + 1 THEN t ELSE s[i - 1]
PROOF
  <1> DEFINE n == Len(s)
             at == IF place > n THEN n ELSE place
             before == SubSeq(s, 1, at)
             after == SubSeq(s, at + 1, n)
  <1>1. n \in Nat /\ at \in 0..n /\ \A i \in 1..n : s[i] \in Tours
    BY LenProperties
  <1>2. List!Insert(s, t, place) = before \o <<t>> \o after
    <2>1. (IF place > n THEN n + 1 ELSE place + 1) = at + 1 /\ (at + 1) - 1 = at
      BY <1>1
    <2> HIDE DEF at
    <2> QED BY <2>1 DEF List!Insert, List!InsertAt
  <1> HIDE DEF at, n
  <1>3. /\ before \in Seq(Tours) /\ Len(before) = at
        /\ \A i \in 1..at : before[i] = s[i]
    <2>1. \A i \in 1..at : s[i] \in Tours
      BY <1>1
    <2>2. /\ SubSeq(s, 1, at) \in Seq(Tours)
          /\ Len(SubSeq(s, 1, at)) = IF 1 <= at THEN at - 1 + 1 ELSE 0
          /\ \A i \in 1..(at - 1 + 1) : SubSeq(s, 1, at)[i] = s[1 + i - 1]
      BY <1>1, <2>1, SubSeqProperties
    <2> QED BY <1>1, <2>2
  <1>4. /\ after \in Seq(Tours) /\ Len(after) = n - at
        /\ \A i \in 1..(n - at) : after[i] = s[at + i]
    <2>1. \A i \in (at + 1)..n : s[i] \in Tours
      BY <1>1
    <2>2. /\ SubSeq(s, at + 1, n) \in Seq(Tours)
          /\ Len(SubSeq(s, at + 1, n)) = IF at + 1 <= n THEN n - (at + 1) + 1 ELSE 0
          /\ \A i \in 1..(n - (at + 1) + 1) : SubSeq(s, at + 1, n)[i] = s[(at + 1) + i - 1]
      BY <1>1, <2>1, SubSeqProperties
    <2>3. n - (at + 1) + 1 = n - at /\ (IF at + 1 <= n THEN n - (at + 1) + 1 ELSE 0) = n - at
      BY <1>1
    <2>4. \A i \in 1..(n - at) : (at + 1) + i - 1 = at + i
      BY <1>1
    <2> QED BY <2>2, <2>3, <2>4
  <1> HIDE DEF before, after
  <1>5. <<t>> \in Seq(Tours) /\ Len(<<t>>) = 1 /\ <<t>>[1] = t
    OBVIOUS
  <1>6. /\ before \o <<t>> \in Seq(Tours) /\ Len(before \o <<t>>) = at + 1
        /\ \A i \in 1..(at + 1) : (before \o <<t>>)[i] = IF i <= at THEN s[i] ELSE t
    BY <1>1, <1>3, <1>5, ConcatProperties
  <1>7. /\ (before \o <<t>>) \o after \in Seq(Tours)
        /\ Len((before \o <<t>>) \o after) = n + 1
        /\ \A i \in 1..(n + 1) : ((before \o <<t>>) \o after)[i] =
             IF i <= at + 1 THEN (before \o <<t>>)[i] ELSE after[i - (at + 1)]
    BY <1>1, <1>4, <1>6, ConcatProperties
  <1>8. ASSUME NEW i \in 1..(n + 1)
        PROVE  ((before \o <<t>>) \o after)[i] = IF i <= at THEN s[i] ELSE IF i = at + 1 THEN t ELSE s[i - 1]
    <2>0. at \in Int /\ n \in Int /\ i \in Int
      BY <1>1
    <2>1. CASE i <= at + 1
      <3>1. i \in 1..(at + 1) /\ (i = at + 1 <=> ~(i <= at))
        BY <2>0, <2>1
      <3>2. ((before \o <<t>>) \o after)[i] = (before \o <<t>>)[i]
        BY <1>7, <2>1
      <3> QED BY <1>6, <3>1, <3>2
    <2>2. CASE ~(i <= at + 1)
      <3>1. i - (at + 1) \in 1..(n - at) /\ at + (i - (at + 1)) = i - 1
        BY <2>0, <2>2
      <3>2. after[i - (at + 1)] = s[i - 1]
        BY <1>4, <3>1
      <3>3. ((before \o <<t>>) \o after)[i] = after[i - (at + 1)]
        BY <1>7, <2>2
      <3>4. ~(i <= at) /\ i # at + 1
        BY <2>0, <2>2
      <3> QED BY <3>2, <3>3, <3>4
    <2> QED BY <2>1, <2>2
  <1> QED BY <1>2, <1>7, <1>8 DEF at, n

\* A removal leaves the rest in order.
LEMMA Removed ==
  ASSUME NEW s \in Seq(Tours), NEW k \in 1..Len(s), \A i \in 1..Len(s) : s[i] = s[k] => i = k
  PROVE  /\ List!Without(s, s[k]) \in Seq(Tours)
         /\ Len(List!Without(s, s[k])) = Len(s) - 1
         /\ \A i \in 1..(Len(s) - 1) :
              List!Without(s, s[k])[i] = IF i < k THEN s[i] ELSE s[i + 1]
PROOF
  <1> DEFINE n == Len(s)
             before == SubSeq(s, 1, k - 1)
             after == SubSeq(s, k + 1, n)
  <1>1. n \in Nat /\ DOMAIN s = 1..n /\ \A i \in 1..n : s[i] \in Tours
    BY LenProperties
  <1>2. List!Without(s, s[k]) = before \o after
    <2>1. (CHOOSE i \in DOMAIN s : s[i] = s[k]) = k
      BY <1>1
    <2> QED BY <2>1 DEF List!Without, List!RemoveAt
  <1> HIDE DEF n
  <1>0. k \in 1..n
    BY DEF n
  <1>3. /\ before \in Seq(Tours) /\ Len(before) = k - 1
        /\ \A i \in 1..(k - 1) : before[i] = s[i]
    <2>1. \A i \in 1..(k - 1) : s[i] \in Tours
      BY <1>0, <1>1
    <2>2. /\ SubSeq(s, 1, k - 1) \in Seq(Tours)
          /\ Len(SubSeq(s, 1, k - 1)) = IF 1 <= k - 1 THEN (k - 1) - 1 + 1 ELSE 0
          /\ \A i \in 1..((k - 1) - 1 + 1) : SubSeq(s, 1, k - 1)[i] = s[1 + i - 1]
      BY <1>0, <1>1, <2>1, SubSeqProperties
    <2> QED BY <1>0, <1>1, <2>2
  <1>4. /\ after \in Seq(Tours) /\ Len(after) = n - k
        /\ \A i \in 1..(n - k) : after[i] = s[k + i]
    <2>1. \A i \in (k + 1)..n : s[i] \in Tours
      BY <1>0, <1>1
    <2>2. /\ SubSeq(s, k + 1, n) \in Seq(Tours)
          /\ Len(SubSeq(s, k + 1, n)) = IF k + 1 <= n THEN n - (k + 1) + 1 ELSE 0
          /\ \A i \in 1..(n - (k + 1) + 1) : SubSeq(s, k + 1, n)[i] = s[(k + 1) + i - 1]
      BY <1>0, <1>1, <2>1, SubSeqProperties
    <2> QED BY <1>0, <1>1, <2>2
  <1> HIDE DEF before, after
  <1>5. /\ before \o after \in Seq(Tours) /\ Len(before \o after) = n - 1
        /\ \A i \in 1..(n - 1) : (before \o after)[i] = IF i <= k - 1 THEN before[i] ELSE after[i - (k - 1)]
    <2>1. /\ before \o after \in Seq(Tours) /\ Len(before \o after) = Len(before) + Len(after)
          /\ \A i \in 1..(Len(before) + Len(after)) : (before \o after)[i] =
               IF i <= Len(before) THEN before[i] ELSE after[i - Len(before)]
      BY <1>3, <1>4, ConcatProperties
    <2>2. Len(before) + Len(after) = n - 1
      BY <1>0, <1>1, <1>3, <1>4
    <2> QED BY <1>3, <2>1, <2>2
  <1>6. ASSUME NEW i \in 1..(n - 1) PROVE (before \o after)[i] = IF i < k THEN s[i] ELSE s[i + 1]
    <2>1. CASE i < k
      BY <1>0, <1>1, <1>3, <1>5, <2>1
    <2>2. CASE ~(i < k)
      <3>1. i - (k - 1) \in 1..(n - k) /\ k + (i - (k - 1)) = i + 1
        BY <1>0, <1>1, <2>2
      <3>2. after[i - (k - 1)] = s[i + 1]
        BY <1>4, <3>1
      <3> QED BY <1>0, <1>1, <1>5, <2>2, <3>2
    <2> QED BY <2>1, <2>2
  <1> QED BY <1>2, <1>5, <1>6 DEF n

\* The tours of a table in the order of their numbers: what TourOrder takes for the list.
Listing(rows) ==
  [i \in 1..Cardinality(Present(rows)) |-> CHOOSE t \in Present(rows) : rows[t].order = i - 1]

Numbered(rows) ==
  rows \in Table /\ IsUnique(rows) /\ Orders(rows) = 0..(Cardinality(Present(rows)) - 1)

\* A sequence of the tours in their order is the list.
LEMMA ListingIs ==
  ASSUME NEW rows \in Table, IsUnique(rows), NEW s \in Seq(Tours),
         Len(s) = Cardinality(Present(rows)),
         \A i \in 1..Len(s) : s[i] \in Present(rows) /\ rows[s[i]].order = i - 1
  PROVE  Listing(rows) = s
PROOF
  <1>1. ASSUME NEW i \in 1..Len(s) PROVE (CHOOSE t \in Present(rows) : rows[t].order = i - 1) = s[i]
    <2> DEFINE u == CHOOSE t \in Present(rows) : rows[t].order = i - 1
    <2>1. u \in Present(rows) /\ rows[u].order = i - 1
      OBVIOUS
    <2> HIDE DEF u
    <2>2. u = s[i]
      BY <2>1 DEF IsUnique
    <2> QED BY <2>2 DEF u
  <1>2. s = [i \in 1..Len(s) |-> s[i]]
    BY LenProperties
  <1>3. Listing(rows) = [i \in 1..Len(s) |-> CHOOSE t \in Present(rows) : rows[t].order = i - 1]
    BY DEF Listing
  <1>4. [i \in 1..Len(s) |-> CHOOSE t \in Present(rows) : rows[t].order = i - 1] = [i \in 1..Len(s) |-> s[i]]
    BY <1>1
  <1> QED BY <1>2, <1>3, <1>4

\* In the list every tour has the place of its number.
LEMMA ListingPlaces ==
  ASSUME NEW rows, Numbered(rows)
  PROVE  /\ Listing(rows) \in Seq(Tours) /\ Len(Listing(rows)) = Cardinality(Present(rows))
         /\ \A i \in 1..Len(Listing(rows)) :
              Listing(rows)[i] \in Present(rows) /\ rows[Listing(rows)[i]].order = i - 1
         /\ \A u \in Present(rows) : /\ rows[u].order + 1 \in 1..Len(Listing(rows))
                                     /\ Listing(rows)[rows[u].order + 1] = u
PROOF
  <1> DEFINE n == Cardinality(Present(rows))
             s == Listing(rows)
             own(i) == CHOOSE t \in Present(rows) : rows[t].order = i - 1
  <1>1. n \in Nat /\ Present(rows) \subseteq Tours
    BY CountGrows DEF Present
  <1>2. ASSUME NEW i \in 1..n PROVE own(i) \in Present(rows) /\ rows[own(i)].order = i - 1
    <2>1. i - 1 \in 0..(n - 1)
      BY <1>1
    <2>2. i - 1 \in Orders(rows)
      BY <2>1 DEF Numbered
    <2>3. \E t \in Present(rows) : rows[t].order = i - 1
      BY <2>2 DEF Orders
    <2> QED BY <2>3
  <1>3. s = [i \in 1..n |-> own(i)]
    BY DEF Listing
  <1> HIDE DEF own, s, n
  <1>4. s \in Seq(Tours) /\ Len(s) = n /\ \A i \in 1..n : s[i] = own(i)
    <2>1. s \in [1..n -> Tours]
      BY <1>1, <1>2, <1>3
    <2> QED BY <1>1, <1>3, <2>1
  <1>5. ASSUME NEW u \in Present(rows) PROVE rows[u].order + 1 \in 1..n /\ s[rows[u].order + 1] = u
    <2>1. rows[u].order \in 0..(n - 1)
      BY DEF Numbered, Orders, n
    <2>2. PICK k \in 0..(n - 1) : rows[u].order = k
      BY <2>1
    <2>3. k + 1 \in 1..n /\ (k + 1) - 1 = k
      BY <1>1, <2>2
    <2>4. own(k + 1) \in Present(rows) /\ rows[own(k + 1)].order = k
      BY <1>2, <2>3
    <2>5. own(k + 1) = u
      BY <2>2, <2>4 DEF Numbered, IsUnique
    <2> QED BY <1>4, <2>2, <2>3, <2>5
  <1> QED BY <1>2, <1>4, <1>5 DEF s, n

\* Without gaps, as many tours have a number below k as there are numbers below k.
LEMMA CountBelow ==
  ASSUME NEW rows, Numbered(rows), NEW k \in 0..Cardinality(Present(rows))
  PROVE  LET below == { v \in Present(rows) : rows[v].order < k }
         IN  IsFiniteSet(below) /\ Cardinality(below) = k
PROOF
  <1> DEFINE n == Cardinality(Present(rows))
             below == { v \in Present(rows) : rows[v].order < k }
             f == [v \in below |-> rows[v].order]
  <1>1. n \in Nat /\ IsFiniteSet(Present(rows))
    BY CountGrows DEF Present
  <1>2. IsFiniteSet(below)
    BY <1>1, FS_Subset
  <1>3. \A v \in Present(rows) : rows[v].order \in 0..(n - 1)
    BY DEF Numbered, Orders
  <1>4. ASSUME NEW j \in 0..(k - 1) PROVE \E v \in below : rows[v].order = j
    <2>1. j \in 0..(n - 1) /\ j < k
      BY <1>1
    <2>2. j \in Orders(rows)
      BY <2>1 DEF Numbered
    <2> QED BY <2>1, <2>2 DEF Orders
  <1>5. \A v \in below : rows[v].order \in 0..(k - 1)
    BY <1>1, <1>3
  <1>6. \A u, v \in below : rows[u].order = rows[v].order => u = v
    BY DEF Numbered, IsUnique
  <1> HIDE DEF below, n
  <1>7. f \in Surjection(below, 0..(k - 1)) /\ f \in Injection(below, 0..(k - 1))
    BY <1>4, <1>5, <1>6 DEF Surjection, Injection, IsInjective
  <1>8. Cardinality(0..(k - 1)) = k
    <2>1. k \in Nat
      BY <1>1 DEF n
    <2> QED BY <2>1, FS_Interval
  <1> HIDE DEF f
  <1>10. Cardinality(0..(k - 1)) = Cardinality(below)
    BY <1>2, <1>7, FS_Surjection
  <1> QED BY <1>2, <1>8, <1>10 DEF below

\* The place of a tour among the others.
LEMMA RankOf ==
  ASSUME NEW rows, Numbered(rows), NEW t \in Tours, NEW u \in Others(rows, t)
  PROVE  Rank(rows, t, u) =
           IF t \in Present(rows) /\ rows[t].order < rows[u].order THEN rows[u].order - 1 ELSE rows[u].order
PROOF
  <1> DEFINE n == Cardinality(Present(rows))
             k == rows[u].order
             below == { v \in Present(rows) : rows[v].order < k }
             before == { v \in Others(rows, t) : rows[v].order < k }
  <1>1. n \in Nat /\ k \in 0..(n - 1)
    <2>1. n \in Nat
      BY CountGrows DEF Present
    <2>2. u \in Present(rows)
      BY DEF Others
    <2> QED BY <2>1, <2>2 DEF Numbered, Orders
  <1>2. IsFiniteSet(below) /\ Cardinality(below) = k
    <2>1. k \in 0..n
      BY <1>1
    <2> HIDE DEF k
    <2>2. k \in 0..Cardinality(Present(rows))
      BY <2>1
    <2> QED BY <2>2, CountBelow
  <1>3. before = below \ {t} /\ Rank(rows, t, u) = Cardinality(before)
    BY DEF Others, Rank
  <1>4. t \in below <=> t \in Present(rows) /\ rows[t].order < k
    OBVIOUS
  <1> HIDE DEF below, before, k
  <1>5. Cardinality(before) = IF t \in below THEN k - 1 ELSE k
    BY <1>2, <1>3, FS_RemoveElement
  <1> QED BY <1>3, <1>4, <1>5 DEF k

\* Rows numbered anew around a tour are the list of the others with the tour put in.
LEMMA RenumberedIsInserted ==
  ASSUME NEW rows \in Table, NEW t \in Tours, NEW place \in Places, NEW asked \in Nat,
         NEW base \in Seq(Tours), Len(base) = Cardinality(Others(rows, t)),
         \A i \in 1..Len(base) : base[i] \in Others(rows, t) /\ Rank(rows, t, base[i]) = i - 1,
         IF place = NoPlace THEN asked >= Len(base) ELSE asked = place,
         NEW result \in Table, IsUnique(result), Present(result) = Present(rows) \cup {t},
         \A u \in Present(result) : result[u].order = NewOrder(rows, t, place, u)
  PROVE  Listing(result) = List!Insert(base, t, asked)
PROOF
  <1> DEFINE m == Len(base)
             at == IF asked > m THEN m ELSE asked
             s == List!Insert(base, t, asked)
  <1>1. m \in Nat /\ at \in 0..m
    BY LenProperties
  <1>2. /\ s \in Seq(Tours) /\ Len(s) = m + 1
        /\ \A i \in 1..(m + 1) : s[i] = IF i <= at THEN base[i] ELSE IF i = at + 1 THEN t ELSE base[i - 1]
    BY Inserted
  <1>3. TargetPlace(rows, t, place) = at
    <2>1. place # NoPlace => place \in Nat
      BY DEF Places
    <2> QED BY <1>1, <2>1 DEF TargetPlace
  <1>4. Cardinality(Present(result)) = m + 1
    <2>1. Others(rows, t) \in SUBSET Tours /\ Others(rows, t) \cup {t} = Present(result) /\ t \notin Others(rows, t)
      BY DEF Others, Present
    <2>2. IsFiniteSet(Others(rows, t))
      BY <2>1, CountGrows
    <2>3. Cardinality(Others(rows, t) \cup {t}) = Cardinality(Others(rows, t)) + 1
      <3> DEFINE others == Others(rows, t)
      <3>1. IsFiniteSet(others) /\ t \notin others
        BY <2>1, <2>2
      <3> HIDE DEF others
      <3>2. Cardinality(others \cup {t}) = Cardinality(others) + 1
        BY <3>1, FS_AddElement
      <3> QED BY <3>2 DEF others
    <2> QED BY <2>1, <2>3
  <1> HIDE DEF s, at, m
  <1>5. ASSUME NEW i \in 1..(m + 1) PROVE s[i] \in Present(result) /\ result[s[i]].order = i - 1
    <2>0. at \in Int /\ m \in Int /\ i \in Int
      BY <1>1
    <2>1. CASE i = at + 1
      <3>1. s[i] = t
        BY <1>2, <2>0, <2>1
      <3>2. t \in Present(result) /\ NewOrder(rows, t, place, t) = at
        BY <1>3 DEF NewOrder
      <3> QED BY <2>0, <2>1, <3>1, <3>2
    <2>2. CASE i # at + 1
      <3>1. PICK j \in 1..m : s[i] = base[j] /\ i = IF j <= at THEN j ELSE j + 1
        <4>1. CASE i <= at
          <5>1. i \in 1..m /\ s[i] = base[i]
            BY <1>1, <1>2, <2>0, <4>1
          <5> QED BY <4>1, <5>1
        <4>2. CASE ~(i <= at)
          <5>1. i - 1 \in 1..m /\ s[i] = base[i - 1] /\ ~(i - 1 <= at) /\ i = (i - 1) + 1
            BY <1>1, <1>2, <2>0, <2>2, <4>2
          <5> QED BY <5>1
        <4> QED BY <4>1, <4>2
      <3>2. base[j] \in Others(rows, t) /\ Rank(rows, t, base[j]) = j - 1
        BY DEF m
      <3>3. base[j] # t /\ base[j] \in Present(result)
        BY <3>2 DEF Others
      <3>4. NewOrder(rows, t, place, base[j]) = IF j - 1 < at THEN j - 1 ELSE (j - 1) + 1
        BY <1>3, <3>2, <3>3 DEF NewOrder
      <3>5. NewOrder(rows, t, place, base[j]) = i - 1
        BY <2>0, <3>1, <3>4
      <3> QED BY <3>1, <3>3, <3>5
    <2> QED BY <2>1, <2>2
  <1>6. Listing(result) = s
    BY <1>2, <1>4, <1>5, ListingIs
  <1> QED BY <1>6 DEF s

\* The others of a tour, in the order of their numbers: all tours if it is new, else the list
\* without it.
LEMMA OthersOfNew ==
  ASSUME NEW rows, Numbered(rows), NEW t \in Tours, t \notin Present(rows)
  PROVE  LET base == Listing(rows) IN
         /\ base \in Seq(Tours) /\ Len(base) = Cardinality(Others(rows, t))
         /\ \A i \in 1..Len(base) : base[i] \in Others(rows, t) /\ Rank(rows, t, base[i]) = i - 1
PROOF
  <1> DEFINE base == Listing(rows)
  <1>1. Others(rows, t) = Present(rows)
    BY DEF Others
  <1>2. /\ base \in Seq(Tours) /\ Len(base) = Cardinality(Present(rows))
        /\ \A i \in 1..Len(base) : base[i] \in Present(rows) /\ rows[base[i]].order = i - 1
    BY ListingPlaces
  <1> HIDE DEF base
  <1>3. ASSUME NEW i \in 1..Len(base) PROVE base[i] \in Others(rows, t) /\ Rank(rows, t, base[i]) = i - 1
    <2>1. base[i] \in Others(rows, t)
      BY <1>1, <1>2
    <2> QED BY <1>2, <2>1, RankOf
  <1> QED BY <1>1, <1>2, <1>3 DEF base

\* The others of a tour of the list: the list without it.
LEMMA OthersOfMoved ==
  ASSUME NEW rows, Numbered(rows), NEW t \in Present(rows)
  PROVE  LET base == List!Without(Listing(rows), t) IN
         /\ base \in Seq(Tours) /\ Len(base) = Cardinality(Others(rows, t))
         /\ \A i \in 1..Len(base) : base[i] \in Others(rows, t) /\ Rank(rows, t, base[i]) = i - 1
PROOF
  <1> DEFINE base == List!Without(Listing(rows), t)
             all == Listing(rows)
             k == rows[t].order + 1
             n == Cardinality(Present(rows))
  <1>1. /\ all \in Seq(Tours) /\ Len(all) = n
        /\ \A i \in 1..n : all[i] \in Present(rows) /\ rows[all[i]].order = i - 1
        /\ k \in 1..n /\ all[k] = t
    BY ListingPlaces
  <1>2. t \in Tours /\ n \in Nat /\ IsFiniteSet(Present(rows))
    BY CountGrows DEF Present
  <1>3. Cardinality(Others(rows, t)) = n - 1
    BY <1>2, FS_RemoveElement DEF Others
  <1>0. \A i \in 1..n : all[i] = t => i = k
    <2> SUFFICES ASSUME NEW i \in 1..n, all[i] = t PROVE i = k
      OBVIOUS
    <2>1. rows[t].order = i - 1
      BY <1>1
    <2> QED BY <2>1
  <1> HIDE DEF all, k
  <1>4. /\ base \in Seq(Tours) /\ Len(base) = n - 1
        /\ \A i \in 1..(n - 1) : base[i] = IF i < k THEN all[i] ELSE all[i + 1]
    <2>1. /\ List!Without(all, all[k]) \in Seq(Tours)
          /\ Len(List!Without(all, all[k])) = Len(all) - 1
          /\ \A i \in 1..(Len(all) - 1) :
               List!Without(all, all[k])[i] = IF i < k THEN all[i] ELSE all[i + 1]
      BY <1>0, <1>1, Removed
    <2> QED BY <1>1, <2>1 DEF all
  <1> HIDE DEF base, n
  <1>5. ASSUME NEW i \in 1..(n - 1) PROVE base[i] \in Others(rows, t) /\ Rank(rows, t, base[i]) = i - 1
    <2>1. PICK j \in 1..n : base[i] = all[j] /\ j = IF i < k THEN i ELSE i + 1
      <3>1. CASE i < k
        <4>1. i \in 1..n /\ base[i] = all[i]
          BY <1>2, <1>4, <3>1 DEF n
        <4> QED BY <3>1, <4>1
      <3>2. CASE ~(i < k)
        <4>1. i + 1 \in 1..n /\ base[i] = all[i + 1]
          BY <1>2, <1>4, <3>2 DEF n
        <4> QED BY <3>2, <4>1
      <3> QED BY <3>1, <3>2
    <2>2. all[j] \in Present(rows) /\ rows[all[j]].order = j - 1
      BY <1>1
    <2>3. k \in Int /\ j # k /\ rows[t].order = k - 1
      <3>1. k \in Int /\ j # k
        BY <1>1, <2>1
      <3>2. rows[t].order = k - 1
        BY <1>1
      <3> QED BY <3>1, <3>2
    <2>4. all[j] \in Others(rows, t)
      BY <2>2, <2>3 DEF Others
    <2>5. Rank(rows, t, all[j]) =
            IF t \in Present(rows) /\ rows[t].order < rows[all[j]].order THEN rows[all[j]].order - 1
            ELSE rows[all[j]].order
      BY <1>2, <2>4, RankOf
    <2>6. Rank(rows, t, all[j]) = IF k - 1 < j - 1 THEN j - 1 - 1 ELSE j - 1
      BY <2>2, <2>3, <2>5
    <2>7. Rank(rows, t, all[j]) = i - 1
      BY <2>1, <2>3, <2>6
    <2> QED BY <2>1, <2>4, <2>7
  <1> QED BY <1>3, <1>4, <1>5 DEF base

-----------------------------------------------------------------------------
(* A request that overlaps with no other *)

\* What it has read is what is stored.
Knows(q, rows) ==
  /\ q.pc = "read" => rows[q.tour] # NoRow /\ q.copy.order = rows[q.tour].order
  /\ q.pc = "listed" =>
       /\ q.rows = rows
       /\ q.kind = "add" <=> rows[q.tour] = NoRow
       /\ q.kind = "move" => q.place # NoPlace
  /\ q.pc = "saving" =>
       /\ q.seen = [u \in Tours |-> IF q.copies[u] = NoRow THEN NoRow ELSE rows[u]]
       /\ q.kind = "add" <=> rows[q.tour] = NoRow
       /\ q.kind = "edit" => q.copies[q.tour].order = rows[q.tour].order
       /\ q.kind = "move" => q.place # NoPlace
       /\ q.kind # "edit" => q.copies = Renumbered(rows, q.tour, q.place, q.copies[q.tour].content)

AloneKnows ==
  alone => \A r \in Requests :
             /\ Knows(requests[r], tours)
             /\ \A s \in Requests \ {r} : requests[r] = Idle \/ requests[s] = Idle

\* A step of one request keeps the readings current if its own are.
LEMMA AloneGoesOn ==
  ASSUME TypeOK, AloneKnows, NEW r \in Requests, NEW q,
         Start(r, q) \/ (Step(r, q) /\ requests[r] # Idle),
         tours' = tours \/ q = Idle,
         Start(r, q) \/ alone => Knows(q, tours')
  PROVE  AloneKnows'
PROOF
  <1> SUFFICES ASSUME alone' PROVE \A p \in Requests :
                 /\ Knows(requests'[p], tours')
                 /\ \A s \in Requests \ {p} : requests'[p] = Idle \/ requests'[s] = Idle
    BY DEF AloneKnows
  <1>1. requests' = [requests EXCEPT ![r] = q] /\ requests'[r] = q
    BY DEF Start, Step, TypeOK
  <1>2. \A rows : Knows(Idle, rows)
    BY DEF Knows, Idle
  <1>3. \A s \in Requests \ {r} : requests[s] = Idle
    BY DEF Start, Step, NoneBut, AloneKnows
  <1>4. \A s \in Requests \ {r} : requests'[s] = Idle
    BY <1>1, <1>3 DEF TypeOK
  <1>5. Knows(q, tours')
    BY <1>2 DEF Start, Step
  <1> QED BY <1>1, <1>2, <1>4, <1>5

\* What a lone request has read stays current at every step.
LEMMA AloneStep ==
  TypeOK /\ NumbersFit /\ AloneKnows /\ [Next]_vars => AloneKnows'
PROOF
  <1> SUFFICES ASSUME TypeOK, NumbersFit, AloneKnows, [Next]_vars PROVE AloneKnows'
    OBVIOUS
  <1>a. tours \in Table
    BY DEF TypeOK
  <1>b. ASSUME NEW r \in Requests, alone PROVE Knows(requests[r], tours)
    BY <1>b DEF AloneKnows
  <1>1. ASSUME NEW r \in Requests, NEW t \in Tours, ReadTour(r, t) PROVE AloneKnows'
    <2>1. PICK content \in Contents, place \in Places :
            Start(r, [pc |-> "read", tour |-> t, place |-> place,
                      copy |-> [tours[t] EXCEPT !.content = content]])
      BY <1>1 DEF ReadTour
    <2> DEFINE q == [pc |-> "read", tour |-> t, place |-> place,
                     copy |-> [tours[t] EXCEPT !.content = content]]
    <2>2. tours[t] \in Row /\ tours[t] # NoRow /\ tours' = tours
      BY <1>1, <1>a DEF ReadTour, Table
    <2>3. q.copy.order = tours[t].order
      BY <2>2 DEF Row
    <2>4. Knows(q, tours)
      BY <2>2, <2>3 DEF Knows
    <2> QED BY <2>1, <2>2, <2>4, AloneGoesOn
  <1>2. ASSUME NEW r \in Requests, NEW t \in Tours, ListForNew(r, t) PROVE AloneKnows'
    <2>1. PICK content \in Contents, place \in Places :
            Start(r, [pc |-> "listed", kind |-> "add", tour |-> t, place |-> place,
                      content |-> content, rows |-> tours])
      BY <1>2 DEF ListForNew
    <2> DEFINE q == [pc |-> "listed", kind |-> "add", tour |-> t, place |-> place,
                     content |-> content, rows |-> tours]
    <2>2. tours[t] = NoRow /\ tours' = tours
      BY <1>2 DEF ListForNew
    <2>3. Knows(q, tours)
      BY <2>2 DEF Knows
    <2> QED BY <2>1, <2>2, <2>3, AloneGoesOn
  <1>3. ASSUME NEW r \in Requests, ListForMove(r) PROVE AloneKnows'
    <2> DEFINE q == requests[r]
               next == [pc |-> "listed", kind |-> "move", tour |-> q.tour, place |-> q.place,
                        content |-> q.copy.content, rows |-> tours]
    <2>1. q.pc = "read" /\ q.place # NoPlace /\ Step(r, next) /\ tours' = tours
      BY <1>3 DEF ListForMove
    <2>2. requests[r] # Idle
      BY <2>1 DEF Idle
    <2>3. alone => Knows(next, tours)
      BY <1>b, <2>1 DEF Knows
    <2>4. ~Start(r, next)
      BY <2>2 DEF Start
    <2> HIDE DEF next
    <2> QED BY <2>1, <2>2, <2>3, <2>4, AloneGoesOn
  <1>4. ASSUME NEW r \in Requests, ReadToSave(r) PROVE AloneKnows'
    <2> DEFINE q == requests[r]
               copies == [u \in Tours |-> IF u = q.tour THEN q.copy ELSE NoRow]
               next == Saving("edit", q.tour, NoPlace, copies)
    <2>1. q.pc = "read" /\ Step(r, next) /\ tours' = tours
      BY <1>4 DEF ReadToSave
    <2>2. requests[r] # Idle
      BY <2>1 DEF Idle
    <2>3. q \in ReadRequest /\ q.tour \in Tours
      BY <2>1, RequestKinds DEF ReadRequest
    <2>4. copies[q.tour] = q.copy
      BY <2>3
    <2> HIDE DEF copies
    <2>5. alone => Knows(next, tours)
      BY <1>b, <2>1, <2>4 DEF Knows, Saving, Loaded
    <2>6. ~Start(r, next)
      BY <2>2 DEF Start
    <2> HIDE DEF next
    <2> QED BY <2>1, <2>2, <2>5, <2>6, AloneGoesOn
  <1>5. ASSUME NEW r \in Requests, ReadToRenumber(r) PROVE AloneKnows'
    <2> DEFINE q == requests[r]
               copies == Renumbered(q.rows, q.tour, q.place, q.content)
               next == Saving(q.kind, q.tour, q.place, copies)
    <2>1. q.pc = "listed" /\ Step(r, next) /\ tours' = tours
      BY <1>5 DEF ReadToRenumber
    <2>2. requests[r] # Idle
      BY <2>1 DEF Idle
    <2>3. q \in ListedRequest /\ q.tour \in Tours /\ q.kind # "edit"
      BY <2>1, RequestKinds DEF ListedRequest
    <2>4. copies[q.tour].content = q.content
      BY <2>3 DEF Renumbered
    <2>5. alone => q.rows = tours /\ (q.kind = "add" <=> tours[q.tour] = NoRow) /\ (q.kind = "move" => q.place # NoPlace)
      BY <1>b, <2>1 DEF Knows
    <2>6. alone => copies = Renumbered(tours, q.tour, q.place, copies[q.tour].content)
      BY <2>4, <2>5
    <2> HIDE DEF copies
    <2>7. alone => Knows(next, tours)
      BY <2>3, <2>5, <2>6 DEF Knows, Saving, Loaded
    <2>8. ~Start(r, next)
      BY <2>2 DEF Start
    <2> HIDE DEF next
    <2> QED BY <2>1, <2>2, <2>7, <2>8, AloneGoesOn
  <1>6. ASSUME NEW r \in Requests, Save(r) \/ Abort(r) PROVE AloneKnows'
    <2>1. Step(r, Idle) /\ requests[r] # Idle
      BY <1>6 DEF Save, Abort, Idle
    <2>2. Knows(Idle, tours')
      BY DEF Knows, Idle
    <2> QED BY <2>1, <2>2, AloneGoesOn
  <1>7. CASE UNCHANGED vars
    BY <1>7 DEF vars, AloneKnows
  <1> QED BY <1>1, <1>2, <1>3, <1>4, <1>5, <1>6, <1>7 DEF Next

\* The inductive invariant of requests that overlap with no other.
THEOREM ReadingsStand == Spec => []AloneKnows
PROOF
  <1>1. Init => AloneKnows
    BY DEF Init, AloneKnows, Knows, Idle
  <1> QED BY <1>1, TypeCorrect, AloneStep, PTL DEF Spec

\* With the save's own reading current, a commit stores the copies.
LEMMA LoneResult ==
  ASSUME TypeOK, NEW q \in SavingRequest, Knows(q, tours), q.pc = "saving", NEW u \in Tours
  PROVE  Result(q)[u] = IF q.copies[u] = NoRow THEN tours[u] ELSE q.copies[u]
PROOF
  <1>1. tours \in Table /\ q.copies \in Table
    BY DEF TypeOK, SavingRequest
  <1>2. Result(q)[u] =
          IF q.copies[u] = NoRow THEN tours[u]
          ELSE IF q.seen[u] = NoRow THEN q.copies[u]
          ELSE Written(tours[u], q.seen[u], q.copies[u])
    BY DEF Result
  <1>3. CASE q.copies[u] # NoRow /\ q.seen[u] # NoRow
    <2>1. q.seen[u] = tours[u]
      BY <1>3 DEF Knows
    <2>2. q.copies[u] \in Row /\ tours[u] \in Row
      BY <1>1, <1>3, <2>1 DEF Table
    <2>3. /\ q.copies[u] = [order |-> q.copies[u].order, content |-> q.copies[u].content]
      BY <2>2 DEF Row
    <2>4. Written(tours[u], tours[u], q.copies[u]) = q.copies[u]
      BY <2>3 DEF Written, Column
    <2> QED BY <1>2, <1>3, <2>1, <2>4
  <1> QED BY <1>2, <1>3

\* The contents of a catalogue: what TourOrder takes for TourList's.
ContentsOf(rows) == [t \in Tours |-> IF rows[t] = NoRow THEN NoRow ELSE rows[t].content]

\* The tours are numbered without gaps.
LEMMA ToursAreNumbered == ASSUME TypeOK, NumbersFit PROVE Numbered(tours)
  BY DistinctAndBounded DEF Numbered, OrderIsGapless, NumbersFit, TypeOK

\* A lone edit replaces a content and leaves the list.
LEMMA EditIsAsked ==
  ASSUME TypeOK, NumbersFit, NEW q \in SavingRequest, q.pc = "saving", q.kind = "edit",
         Knows(q, tours), HeldRowsFit(q, Present(tours)),
         NEW result, result = Result(q)
  PROVE  /\ ContentsOf(tours)[q.tour] # NoRow
         /\ ContentsOf(result) = [ContentsOf(tours) EXCEPT ![q.tour] = q.copies[q.tour].content]
         /\ Listing(result) = Listing(tours)
PROOF
  <1> DEFINE t == q.tour
  <1>1. /\ t \in Present(tours) /\ Present(q.copies) = {t} /\ q.copies \in Table /\ tours \in Table
        /\ q.copies[t].order = tours[t].order
    BY DEF HeldRowsFit, Knows, SavingRequest, TypeOK
  <1>2. ASSUME NEW u \in Tours PROVE result[u] = IF u = t THEN q.copies[t] ELSE tours[u]
    <2>1. q.copies[u] = NoRow <=> u # t
      BY <1>1 DEF Present
    <2> QED BY <2>1, LoneResult
  <1>3. q.copies[t] \in Row /\ tours[t] \in Row /\ t \in Tours /\ q.copies[t] # NoRow /\ tours[t] # NoRow
    BY <1>1 DEF Present, Table
  <1> HIDE DEF t
  <1>4. Present(result) = Present(tours)
    BY <1>2, <1>3 DEF Present
  <1>5. \A u \in Present(tours) : result[u].order = tours[u].order
    <2> SUFFICES ASSUME NEW u \in Present(tours) PROVE result[u].order = tours[u].order
      OBVIOUS
    <2>1. u \in Tours
      BY DEF Present
    <2> QED BY <1>1, <1>2, <2>1 DEF t
  <1>6. Listing(result) = Listing(tours)
    <2>1. \A i \in 1..Cardinality(Present(tours)) :
            (CHOOSE x \in Present(tours) : result[x].order = i - 1) = (CHOOSE x \in Present(tours) : tours[x].order = i - 1)
      BY <1>5
    <2> QED BY <1>4, <2>1 DEF Listing
  <1>7. ContentsOf(result) = [ContentsOf(tours) EXCEPT ![t] = q.copies[t].content]
    BY <1>2, <1>3 DEF ContentsOf
  <1>8. ContentsOf(tours)[t] # NoRow
    BY <1>3, NoRowAssumption DEF ContentsOf, Row
  <1> QED BY <1>6, <1>7, <1>8 DEF t

\* A new number is a number.
LEMMA NewOrderIsNumber ==
  ASSUME NEW rows \in Table, NEW t \in Tours, NEW place \in Places,
         NEW u \in Present(rows) \cup {t}
  PROVE  NewOrder(rows, t, place, u) \in Nat
PROOF
  <1>1. TargetPlace(rows, t, place) \in Nat
    <2>1. TargetPlace(rows, t, place) \in 0..Cardinality(Others(rows, t))
      BY TargetPlaceIsInside
    <2> QED BY <2>1
  <1>2. CASE u # t
    <2>1. u \in Others(rows, t)
      BY <1>2 DEF Others
    <2>2. Rank(rows, t, u) \in 0..(Cardinality(Others(rows, t)) - 1)
      BY <2>1, RankIsInside
    <2>3. Rank(rows, t, u) \in Nat
      BY <2>2
    <2> QED BY <1>2, <2>3 DEF NewOrder
  <1> QED BY <1>1, <1>2 DEF NewOrder

\* What a lone renumbering stores: every tour under its new number, and only the
\* one it is about with another content.
LEMMA RenumberingStores ==
  ASSUME TypeOK, NEW q \in SavingRequest, q.pc = "saving", q.kind # "edit",
         Knows(q, tours), q.copies[q.tour] # NoRow, NEW u \in Tours
  PROVE  LET row == Result(q)[u] IN
         IF u \in Present(tours) \cup {q.tour}
         THEN /\ row \in Row
              /\ row.order = NewOrder(tours, q.tour, q.place, u)
              /\ row.content = IF u = q.tour THEN q.copies[q.tour].content ELSE tours[u].content
         ELSE row = NoRow
PROOF
  <1> DEFINE t == q.tour
             c == q.copies[t].content
             row == Result(q)[u]
             number == NewOrder(tours, t, q.place, u)
  <1>1. /\ t \in Tours /\ q.copies = Renumbered(tours, t, q.place, c)
        /\ tours \in Table /\ q.copies \in Table
    BY DEF Knows, SavingRequest, TypeOK
  <1>2. row = IF q.copies[u] = NoRow THEN tours[u] ELSE q.copies[u]
    BY LoneResult
  <1>3. q.copies[u] =
          IF u = t THEN [order |-> number, content |-> c]
          ELSE IF u \in Present(tours) /\ number # tours[u].order
          THEN [order |-> number, content |-> tours[u].content]
          ELSE NoRow
    BY <1>1 DEF Renumbered
  <1>4. q.copies[u] \in Row \cup {NoRow} /\ tours[u] \in Row \cup {NoRow}
    BY <1>1 DEF Table
  <1>5. q.copies[t] # NoRow
    OBVIOUS
  <1>6. NoRow \notin Row
    BY NoRowAssumption
  <1>7. u \in Present(tours) <=> tours[u] # NoRow
    BY DEF Present
  <1> SUFFICES IF u \in Present(tours) \cup {t}
               THEN row \in Row /\ row.order = number /\ row.content = IF u = t THEN c ELSE tours[u].content
               ELSE row = NoRow
    OBVIOUS
  <1> HIDE DEF row, number, c, t
  <1>8. CASE u = t
    <2>1. q.copies[u] = [order |-> number, content |-> c]
      BY <1>3, <1>8
    <2>2. row = q.copies[u] /\ row \in Row
      BY <1>2, <1>4, <1>5, <1>8
    <2> QED BY <1>8, <2>1, <2>2
  <1>9. CASE u # t /\ u \in Present(tours) /\ number # tours[u].order
    <2>1. q.copies[u] = [order |-> number, content |-> tours[u].content]
      BY <1>3, <1>9
    <2>2. tours[u] \in Row
      BY <1>4, <1>7, <1>9
    <2>3. q.copies[u] # NoRow
      <3> SUFFICES ASSUME q.copies[u] = NoRow PROVE FALSE
        OBVIOUS
      <3>1. number \in Nat
        <4>1. q.place \in Places /\ u \in Present(tours) \cup {t}
          BY <1>9 DEF SavingRequest
        <4> QED BY <1>1, <4>1, NewOrderIsNumber DEF number
      <3>2. q.copies[u] \in Row
        BY <2>1, <2>2, <3>1 DEF Row
      <3> QED BY <1>6, <3>2
    <2>4. row = q.copies[u] /\ row \in Row
      BY <1>2, <1>4, <2>3
    <2> QED BY <1>9, <2>1, <2>4
  <1>10. CASE u # t /\ u \in Present(tours) /\ number = tours[u].order
    <2>1. q.copies[u] = NoRow
      BY <1>3, <1>10
    <2>2. row = tours[u] /\ row \in Row
      BY <1>2, <1>4, <1>7, <1>10, <2>1
    <2> QED BY <1>10, <2>2
  <1>11. CASE u # t /\ u \notin Present(tours)
    <2>1. q.copies[u] = NoRow
      BY <1>3, <1>11
    <2> QED BY <1>2, <1>7, <1>11, <2>1
  <1> QED BY <1>8, <1>9, <1>10, <1>11

\* A lone renumbering inserts a new tour, or moves one, and leaves the other contents.
LEMMA RenumberingIsAsked ==
  ASSUME TypeOK, NumbersFit, NEW q \in SavingRequest, q.pc = "saving", q.kind # "edit",
         Knows(q, tours), q.copies[q.tour] # NoRow,
         NEW result, result = Result(q), IsUnique(result), result \in Table
  PROVE  /\ ContentsOf(result) = [ContentsOf(tours) EXCEPT ![q.tour] = q.copies[q.tour].content]
         /\ q.kind = "add" => /\ ContentsOf(tours)[q.tour] = NoRow
                              /\ Listing(result) = List!Insert(Listing(tours), q.tour, Place(q))
         /\ q.kind = "move" =>
              /\ ContentsOf(tours)[q.tour] # NoRow
              /\ Listing(result) = List!Insert(List!Without(Listing(tours), q.tour), q.tour, q.place)
PROOF
  <1> DEFINE t == q.tour
             c == q.copies[t].content
  <1>0. t \in Tours /\ q.place \in Places /\ tours \in Table
    BY DEF SavingRequest, TypeOK
  <1>1. Numbered(tours)
    BY ToursAreNumbered
  <1>2. \A u \in Tours :
          IF u \in Present(tours) \cup {t}
          THEN /\ result[u] \in Row
               /\ result[u].order = NewOrder(tours, t, q.place, u)
               /\ result[u].content = IF u = t THEN c ELSE tours[u].content
          ELSE result[u] = NoRow
    BY RenumberingStores
  <1>k. /\ q.kind = "add" <=> tours[t] = NoRow
        /\ q.kind = "move" => q.place # NoPlace
    BY DEF Knows
  <1> HIDE DEF t, c
  <1>3. Present(result) = Present(tours) \cup {t}
    BY <1>0, <1>2, NoRowAssumption DEF Present
  <1>4. \A u \in Present(result) : result[u].order = NewOrder(tours, t, q.place, u)
    BY <1>2, <1>3 DEF Present
  <1>5. ContentsOf(result) = [ContentsOf(tours) EXCEPT ![t] = c]
    <2>1. ASSUME NEW u \in Tours
          PROVE  ContentsOf(result)[u] = IF u = t THEN c ELSE ContentsOf(tours)[u]
      <3>1. ContentsOf(result)[u] = IF result[u] = NoRow THEN NoRow ELSE result[u].content
        BY DEF ContentsOf
      <3>2. ContentsOf(tours)[u] = IF tours[u] = NoRow THEN NoRow ELSE tours[u].content
        BY DEF ContentsOf
      <3>3. u \in Present(tours) <=> tours[u] # NoRow
        BY DEF Present
      <3>4. CASE u \in Present(tours) \cup {t}
        BY <1>2, <3>1, <3>2, <3>3, <3>4, NoRowAssumption
      <3>5. CASE u \notin Present(tours) \cup {t}
        BY <1>2, <3>1, <3>2, <3>3, <3>5
      <3> QED BY <3>4, <3>5
    <2>2. /\ ContentsOf(result) = [u \in Tours |-> ContentsOf(result)[u]]
          /\ ContentsOf(tours) = [u \in Tours |-> ContentsOf(tours)[u]]
      BY DEF ContentsOf
    <2> QED BY <1>0, <2>1, <2>2
  <1>6. ASSUME q.kind = "add"
        PROVE  /\ ContentsOf(tours)[t] = NoRow
               /\ Listing(result) = List!Insert(Listing(tours), t, Place(q))
    <2> DEFINE base == Listing(tours)
               asked == Place(q)
    <2>1. t \notin Present(tours) /\ ContentsOf(tours)[t] = NoRow
      BY <1>0, <1>6, <1>k DEF Present, ContentsOf
    <2>2. /\ base \in Seq(Tours) /\ Len(base) = Cardinality(Others(tours, t))
          /\ \A i \in 1..Len(base) : base[i] \in Others(tours, t) /\ Rank(tours, t, base[i]) = i - 1
      BY <1>0, <1>1, <2>1, OthersOfNew
    <2>3. /\ Cardinality(Others(tours, t)) \in Nat /\ Cardinality(Tours) \in Nat
          /\ Cardinality(Others(tours, t)) <= Cardinality(Tours)
      <3>1. Others(tours, t) \in SUBSET Tours
        BY DEF Others, Present
      <3> QED BY <3>1, CountGrows
    <2> HIDE DEF base
    <2>4. /\ asked \in Nat
          /\ IF q.place = NoPlace THEN asked >= Len(base) ELSE asked = q.place
      BY <1>0, <2>2, <2>3, ToursAssumption DEF Place, Places
    <2> HIDE DEF asked
    <2>5. Listing(result) = List!Insert(base, t, asked)
      <3> DEFINE place == q.place
      <3>1. place \in Places /\ IF place = NoPlace THEN asked >= Len(base) ELSE asked = place
        BY <1>0, <2>4
      <3>2. \A u \in Present(result) : result[u].order = NewOrder(tours, t, place, u)
        BY <1>4
      <3>3. Len(base) \in Nat
        BY <2>2, LenProperties
      <3> HIDE DEF place
      <3>4. asked \in Nat
        BY <2>4
      <3> QED BY <1>0, <1>3, <2>2, <3>1, <3>2, <3>3, <3>4, RenumberedIsInserted
    <2> QED BY <2>1, <2>5 DEF base, asked
  <1>7. ASSUME q.kind = "move"
        PROVE  /\ ContentsOf(tours)[t] # NoRow
               /\ Listing(result) = List!Insert(List!Without(Listing(tours), t), t, q.place)
    <2> DEFINE base == List!Without(Listing(tours), t)
               asked == q.place
    <2>1. tours[t] # NoRow
      BY <1>7, <1>k
    <2>2. t \in Present(tours)
      BY <1>0, <2>1 DEF Present
    <2>3. ContentsOf(tours)[t] # NoRow
      <3>1. tours[t] \in Row
        BY <1>0, <2>1 DEF Table
      <3>2. ContentsOf(tours)[t] = tours[t].content /\ tours[t].content \in Contents
        BY <1>0, <2>1, <3>1 DEF ContentsOf, Row
      <3> QED BY <3>2, NoRowAssumption
    <2>4. /\ base \in Seq(Tours) /\ Len(base) = Cardinality(Others(tours, t))
          /\ \A i \in 1..Len(base) : base[i] \in Others(tours, t) /\ Rank(tours, t, base[i]) = i - 1
      BY <1>1, <2>2, OthersOfMoved
    <2>5. asked \in Nat /\ asked # NoPlace
      BY <1>0, <1>7, <1>k, ToursAssumption DEF Places
    <2> HIDE DEF base
    <2>6. Listing(result) = List!Insert(base, t, asked)
      BY <1>0, <1>3, <1>4, <2>4, <2>5, RenumberedIsInserted
    <2> QED BY <2>3, <2>6 DEF base
  <1> QED BY <1>5, <1>6, <1>7 DEF t, c

-----------------------------------------------------------------------------
(* The refinement *)

\* One commit of a lone request, in the words of TourList.
LEMMA SaveIsAsked ==
  ASSUME TypeOK, NumbersFit, AloneKnows, alone, [Next]_vars,
         NEW r \in Requests, requests[r].pc = "saving", tours' # tours
  PROVE  LET q == requests[r]
             c == q.copies[q.tour].content IN
         \/ q.kind = "add"  /\ List!Add(q.tour, Place(q), c)
         \/ q.kind = "move" /\ List!Move(q.tour, q.place, c)
         \/ q.kind = "edit" /\ List!Edit(q.tour, c)
PROOF
  <1> DEFINE q == requests[r]
             c == q.copies[q.tour].content
  <1>1. PICK s \in Requests : Save(s)
    BY DEF Next, vars, ReadTour, ListForNew, ListForMove, ReadToSave, ReadToRenumber, Abort
  <1>2. s = r
    BY <1>1 DEF Save, AloneKnows, Idle
  <1>3. tours' = Result(q) /\ IsUnique(tours')
    BY <1>1, <1>2 DEF Save
  <1>4. /\ q \in SavingRequest /\ HeldRowsFit(q, Present(tours)) /\ Knows(q, tours)
    BY RequestKinds DEF NumbersFit, AloneKnows
  <1>5. /\ q.copies[q.tour] # NoRow /\ Present(q.seen) \subseteq Present(tours)
        /\ q.kind \in Kinds
    BY <1>4 DEF HeldRowsFit, SavingRequest
  <1>6. tours' \in Table
    BY <1>3, <1>4, <1>5, ResultRows
  <1> HIDE DEF q
  <1>7. CASE q.kind = "edit"
    <2>1. /\ ContentsOf(tours)[q.tour] # NoRow
          /\ ContentsOf(tours') = [ContentsOf(tours) EXCEPT ![q.tour] = c]
          /\ Listing(tours') = Listing(tours)
      BY <1>3, <1>4, <1>7, EditIsAsked DEF q
    <2>2. List!Edit(q.tour, c)
      BY <2>1 DEF List!Edit, Listing, ContentsOf
    <2> QED BY <1>7, <2>2 DEF q
  <1>8. CASE q.kind = "add"
    <2>1. /\ ContentsOf(tours') = [ContentsOf(tours) EXCEPT ![q.tour] = c]
          /\ ContentsOf(tours)[q.tour] = NoRow
          /\ Listing(tours') = List!Insert(Listing(tours), q.tour, Place(q))
      BY <1>3, <1>4, <1>5, <1>6, <1>8, RenumberingIsAsked DEF q
    <2>2. List!Add(q.tour, Place(q), c)
      BY <2>1 DEF List!Add, Listing, ContentsOf
    <2> QED BY <1>8, <2>2 DEF q
  <1>9. CASE q.kind = "move"
    <2>1. /\ ContentsOf(tours') = [ContentsOf(tours) EXCEPT ![q.tour] = c]
          /\ ContentsOf(tours)[q.tour] # NoRow
          /\ Listing(tours') = List!Insert(List!Without(Listing(tours), q.tour), q.tour, q.place)
      BY <1>3, <1>4, <1>5, <1>6, <1>9, RenumberingIsAsked DEF q
    <2>2. List!Move(q.tour, q.place, c)
      BY <2>1 DEF List!Move, Listing, ContentsOf
    <2> QED BY <1>9, <2>2 DEF q
  <1> QED BY <1>5, <1>7, <1>8, <1>9 DEF Kinds

\* A save that overlaps with no other request inserts, moves or edits the tour it was
\* asked to: the renumbering of tours.service.ts implements the list an administrator sees.
THEOREM SavesAreAsAsked == Spec => SavesDoAsAsked
PROOF
  <1> DEFINE Asked ==
        alone => \A r \in Requests :
          LET q == requests[r] IN
          q.pc = "saving" /\ tours' # tours =>
            LET c == q.copies[q.tour].content IN
            \/ q.kind = "add"  /\ List!Add(q.tour, Place(q), c)
            \/ q.kind = "move" /\ List!Move(q.tour, q.place, c)
            \/ q.kind = "edit" /\ List!Edit(q.tour, c)
  <1>1. TypeOK /\ NumbersFit /\ AloneKnows /\ [Next]_vars => [Asked]_vars
    BY SaveIsAsked
  <1>2. SavesDoAsAsked <=> [][Asked]_vars
    BY PTL DEF SavesDoAsAsked
  <1> HIDE DEF Asked
  <1> QED BY <1>1, <1>2, TypeCorrect, ReadingsStand, PTL DEF Spec
=============================================================================
