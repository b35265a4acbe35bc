------------------------- MODULE HotelBookingsProofs -------------------------
(***************************************************************************)
(* Proofs about HotelBookings, for every number of hotels, bookings,       *)
(* requests and prices, and about Partners, which moves it side by side    *)
(* with HotelAccess and inherits what is proved of either.                 *)
(***************************************************************************)
EXTENDS Partners, NumberTheorems, FiniteSetTheorems, TLAPS

\* One-line names of the code's checks and log entries.
USE DEF IsGranted, IsUnused, IsFound, IsRemovable, StampsFor, StatusEntry, MoveEntry, EditEntry, LinesLeft

\* The record of a request tells what it is: the program counters of the kinds
\* of request are disjoint.
LEMMA RequestKinds ==
  ASSUME NEW q \in Request
  PROVE  /\ q.pc = "idle" => q = Idle
         /\ q.pc = "statusChecked" => q \in StatusRequest
         /\ q.pc = "addChecked" => q \in AddRequest
         /\ q.pc = "removeChecked" => q \in RemoveRequest
         /\ q.pc \in {"addSummed", "removeSummed"} => q \in SummedRequest
         /\ q.pc = "granted" => q \in GrantedRequest
         /\ q.pc = "priced" => q \in PricedRequest
         /\ q.pc = "numbered" => q \in NumberedRequest
  BY DEF Request, Idle, StatusRequest, AddRequest, RemoveRequest, SummedRequest,
         GrantedRequest, PricedRequest, NumberedRequest

\* A price and a quote give a base line of the line's type.
LEMMA BaseLinesType ==
  ASSUME NEW id \in LineIds, NEW quote \in Quote
  PROVE  BaseLines(id, quote) \in SUBSET LineItem
  BY DEF BaseLines, LineItem, LineAmounts, Quote, Amounts, BaseAmount

\* The numbers MAX(reference) yields are natural ones.
LEMMA LastReferencesType ==
  ASSUME TypeOK PROVE LastReferences \subseteq Nat
PROOF
  <1>1. References \subseteq Nat
    <2> SUFFICES ASSUME NEW b \in Bookings, bookings[b] # NoBooking
                 PROVE  bookings[b].reference \in Nat
      BY DEF References
    <2>1. bookings[b] \in Row
      BY DEF TypeOK
    <2> QED BY <2>1 DEF Row
  <1>2. { n \in References : \A m \in References : SortKey(m) <= SortKey(n) } \subseteq References
    OBVIOUS
  <1>3. CASE References = {}
    BY <1>3 DEF LastReferences
  <1>4. CASE References # {}
    BY <1>1, <1>2, <1>4 DEF LastReferences
  <1> QED BY <1>3, <1>4

\* The three ways a step treats the requests.
LEMMA StepType ==
  ASSUME TypeOK, NEW r \in Requests, NEW q \in Request, Step(r, q)
  PROVE  requests' \in [Requests -> Request]
  BY DEF TypeOK, Step

\* Columns keep their types through every request step and catalogue change, as
\* long as a request works on a row that exists.
LEMMA TypeStep == TypeOK /\ RowsExist /\ [Next]_vars => TypeOK'
PROOF
  <1> SUFFICES ASSUME TypeOK, RowsExist, [Next]_vars PROVE TypeOK'
    OBVIOUS
  <1> USE DEF catalog, ledger
  <1>1. ASSUME NEW h \in Hotels, SetTours(h) PROVE TypeOK'
    BY <1>1 DEF TypeOK, SetTours
  <1>2. ASSUME NEW t \in Tours, RepriceTour(t) PROVE TypeOK'
    BY <1>2 DEF TypeOK, RepriceTour
  <1>3. ASSUME NEW r \in Requests, Abort(r) PROVE TypeOK'
    <2>1. Idle \in Request
      BY DEF Request
    <2>2. requests' \in [Requests -> Request]
      BY <1>3, <2>1, StepType DEF Abort
    <2> QED BY <1>3, <2>2 DEF TypeOK, Abort
  <1>4. ASSUME NEW r \in Requests, NEW h \in Hotels, NEW t \in Tours, ReadGrant(r, h, t)
        PROVE  TypeOK'
    <2>1. PICK count \in Counts :
            Step(r, [pc |-> "granted", hotel |-> h, tour |-> t, count |-> count,
                     offer |-> grants[h][t]])
      BY <1>4 DEF ReadGrant
    <2>2. grants[h][t] \in Amounts
      BY <1>4 DEF ReadGrant, TypeOK
    <2>3. [pc |-> "granted", hotel |-> h, tour |-> t, count |-> count,
           offer |-> grants[h][t]] \in Request
      BY <2>2 DEF Request, GrantedRequest
    <2>4. requests' \in [Requests -> Request]
      BY <2>1, <2>3, StepType
    <2> QED BY <1>4, <2>4 DEF TypeOK, ReadGrant
  <1>5. ASSUME NEW r \in Requests, ReadTour(r) PROVE TypeOK'
    <2> DEFINE q == requests[r]
               price == IF q.offer # NoPrice THEN q.offer ELSE tours[q.tour].price
               read == [pc |-> "priced",
                        quote |-> [hotel |-> q.hotel, tour |-> q.tour, count |-> q.count,
                                   unitPrice |-> price, basis |-> tours[q.tour].basis]]
    <2>1. q \in GrantedRequest
      BY <1>5, RequestKinds DEF ReadTour, TypeOK
    <2>2. tours[q.tour] \in [price : Amounts, basis : Bases]
      BY <2>1 DEF TypeOK, GrantedRequest
    <2>3. read \in Request
      BY <2>1, <2>2 DEF Request, PricedRequest, Quote, GrantedRequest
    <2>4. Step(r, read)
      BY <1>5 DEF ReadTour
    <2>5. requests' \in [Requests -> Request]
      BY <2>3, <2>4, StepType
    <2> QED BY <1>5, <2>5 DEF TypeOK, ReadTour
  <1>6. ASSUME NEW r \in Requests, NextReference(r) PROVE TypeOK'
    <2>1. PICK last \in LastReferences :
            Step(r, [pc |-> "numbered", quote |-> requests[r].quote, reference |-> last + 1])
      BY <1>6 DEF NextReference
    <2>2. requests[r] \in PricedRequest
      BY <1>6, RequestKinds DEF NextReference, TypeOK
    <2>3. [pc |-> "numbered", quote |-> requests[r].quote, reference |-> last + 1] \in Request
      BY <2>1, <2>2, LastReferencesType DEF Request, NumberedRequest, PricedRequest
    <2>4. requests' \in [Requests -> Request]
      BY <2>1, <2>3, StepType
    <2> QED BY <1>6, <2>4 DEF TypeOK, NextReference
  <1>7. ASSUME NEW r \in Requests, NEW b \in Bookings, CommitCreate(r, b) PROVE TypeOK'
    <2>1. requests[r] \in NumberedRequest
      BY <1>7, RequestKinds DEF CommitCreate, TypeOK
    <2> DEFINE quote == requests[r].quote
               row == [quote |-> quote, status |-> "pending", stamps |-> {},
                       reference |-> requests[r].reference]
    <2>2. quote \in Quote /\ requests[r].reference \in Nat
      BY <2>1 DEF NumberedRequest
    <2>3. row \in Row
      BY <2>2 DEF Row, Statuses
    <2>4. bookings' \in [Bookings -> Row \cup {NoBooking}]
      BY <1>7, <2>3 DEF CommitCreate, TypeOK
    <2>5. lines' \in [Bookings -> SUBSET LineItem] /\ totals' = [c \in Bookings |-> totals'[c]]
      <3>1. PICK id \in LineIds :
              /\ lines' = [lines EXCEPT ![b] = BaseLines(id, quote)]
              /\ totals' = [totals EXCEPT ![b] = TotalOf(BaseLines(id, quote))]
        BY <1>7 DEF CommitCreate
      <3>2. BaseLines(id, quote) \in SUBSET LineItem
        BY <2>2, BaseLinesType
      <3>3. lines' \in [Bookings -> SUBSET LineItem]
        BY <3>1, <3>2 DEF TypeOK
      <3>4. totals' = [c \in Bookings |-> totals'[c]]
        BY <3>1 DEF TypeOK
      <3> QED BY <3>3, <3>4
    <2>6. <<[type |-> "created", actor |-> quote.hotel, to |-> "pending"]>> \in Seq(LogEntry)
      BY <2>2 DEF LogEntry, Quote
    <2>7. logs' \in [Bookings -> Seq(LogEntry)]
      BY <1>7, <2>6 DEF CommitCreate, TypeOK
    <2>8. Idle \in Request
      BY DEF Request
    <2>9. requests' \in [Requests -> Request]
      BY <1>7, <2>8, StepType DEF CommitCreate
    <2> QED BY <1>7, <2>4, <2>5, <2>7, <2>9 DEF TypeOK, CommitCreate
  <1>8. ASSUME NEW r \in Requests, NEW b \in Bookings, NEW actor \in Actors,
               NEW to \in Statuses, CheckStatus(r, b, actor, to)
        PROVE  TypeOK'
    <2> DEFINE read == [pc |-> "statusChecked", actor |-> actor, booking |-> b,
                        from |-> bookings[b].status, to |-> to]
    <2>1. bookings[b] \in Row
      BY <1>8 DEF CheckStatus, MayStart, TypeOK
    <2>2. read \in Request
      BY <1>8, <2>1 DEF Request, StatusRequest, Row, CheckStatus, Endpoints, Stamped, Statuses
    <2>3. requests' \in [Requests -> Request]
      BY <1>8, <2>2, StepType DEF CheckStatus
    <2> QED BY <1>8, <2>3 DEF TypeOK, CheckStatus
  <1>9. ASSUME NEW r \in Requests, CommitStatus(r) PROVE TypeOK'
    <2> DEFINE q == requests[r]
               entry == [type |-> "status_changed", actor |-> q.actor, from |-> q.from, to |-> q.to]
    <2>1. q \in StatusRequest
      BY <1>9, RequestKinds DEF CommitStatus, TypeOK
    <2>2. bookings[q.booking] # NoBooking
      BY <1>9, <2>1 DEF RowsExist, Touches, CommitStatus, StatusRequest
    <2>3. q.booking \in Bookings /\ q.to \in Stamped /\ bookings[q.booking] \in Row
      BY <2>1, <2>2 DEF StatusRequest, TypeOK
    <2>4. bookings' \in [Bookings -> Row \cup {NoBooking}]
      <3> DEFINE row == [bookings[q.booking] EXCEPT !.status = q.to, !.stamps = @ \cup {q.to}]
      <3>1. row \in Row
        BY <2>3 DEF Row, Stamped
      <3>2. bookings' = [bookings EXCEPT ![q.booking] = row]
        BY <1>9, <2>3 DEF CommitStatus, TypeOK, Row
      <3> QED BY <2>3, <3>1, <3>2 DEF TypeOK
    <2>5. entry \in LogEntry
      BY <2>1 DEF LogEntry, StatusRequest
    <2>6. logs' = [logs EXCEPT ![q.booking] = Append(@, entry)]
      BY <1>9 DEF CommitStatus
    <2>7. Append(logs[q.booking], entry) \in Seq(LogEntry)
      BY <2>3, <2>5 DEF TypeOK
    <2>8. logs' \in [Bookings -> Seq(LogEntry)]
      BY <2>3, <2>6, <2>7 DEF TypeOK
    <2>9. requests' \in [Requests -> Request]
      <3>1. Idle \in Request
        BY DEF Request
      <3> QED BY <1>9, <3>1, StepType DEF CommitStatus
    <2> QED BY <1>9, <2>4, <2>8, <2>9 DEF TypeOK, CommitStatus
  <1>10. ASSUME NEW r \in Requests, NEW b \in Bookings, CheckAdd(r, b) PROVE TypeOK'
    <2>1. [pc |-> "addChecked", booking |-> b] \in Request
      BY DEF Request, AddRequest
    <2>2. requests' \in [Requests -> Request]
      BY <1>10, <2>1, StepType DEF CheckAdd
    <2> QED BY <1>10, <2>2 DEF TypeOK, CheckAdd
  <1>11. ASSUME NEW r \in Requests, AddAndSum(r) PROVE TypeOK'
    <2> DEFINE b == requests[r].booking
    <2>1. PICK id \in LineIds, amount \in Extras :
            LET item == [id |-> id, kind |-> "extra", amount |-> amount]
            IN Step(r, [pc |-> "addSummed", booking |-> b, item |-> item,
                        seen |-> lines[b] \cup {item}])
      BY <1>11 DEF AddAndSum
    <2> DEFINE item == [id |-> id, kind |-> "extra", amount |-> amount]
               read == [pc |-> "addSummed", booking |-> b, item |-> item,
                        seen |-> lines[b] \cup {item}]
    <2>2. requests[r] \in AddRequest
      BY <1>11, RequestKinds DEF AddAndSum, TypeOK
    <2>3. item \in LineItem
      BY DEF LineItem, LineAmounts
    <2>4. b \in Bookings /\ lines[b] \in SUBSET LineItem
      BY <2>2 DEF AddRequest, TypeOK
    <2>5. read \in Request
      BY <2>3, <2>4 DEF Request, SummedRequest
    <2>6. requests' \in [Requests -> Request]
      BY <2>1, <2>5, StepType
    <2> QED BY <1>11, <2>6 DEF TypeOK, AddAndSum
  <1>12. ASSUME NEW r \in Requests, NEW b \in Bookings, NEW item \in lines[b],
                CheckRemove(r, b, item)
         PROVE  TypeOK'
    <2>1. item \in LineItem
      BY DEF TypeOK
    <2>2. [pc |-> "removeChecked", booking |-> b, item |-> item] \in Request
      BY <2>1 DEF Request, RemoveRequest
    <2>3. requests' \in [Requests -> Request]
      BY <1>12, <2>2, StepType DEF CheckRemove
    <2> QED BY <1>12, <2>3 DEF TypeOK, CheckRemove
  <1>13. ASSUME NEW r \in Requests, RemoveAndSum(r) PROVE TypeOK'
    <2> DEFINE q == requests[r]
               read == [pc |-> "removeSummed", booking |-> q.booking, item |-> q.item,
                        seen |-> lines[q.booking] \ {q.item}]
    <2>1. q \in RemoveRequest
      BY <1>13, RequestKinds DEF RemoveAndSum, TypeOK
    <2>2. q.booking \in Bookings /\ q.item \in LineItem /\ lines[q.booking] \in SUBSET LineItem
      BY <2>1 DEF RemoveRequest, TypeOK
    <2>3. read \in Request
      BY <2>2 DEF Request, SummedRequest
    <2>4. Step(r, read)
      BY <1>13 DEF RemoveAndSum
    <2>5. requests' \in [Requests -> Request]
      BY <2>3, <2>4, StepType
    <2> QED BY <1>13, <2>5 DEF TypeOK, RemoveAndSum
  <1>14. ASSUME NEW r \in Requests, CommitEdit(r) PROVE TypeOK'
    <2> DEFINE q == requests[r]
               added == q.pc = "addSummed"
               entry == [type |-> IF added THEN "line_item_added" ELSE "line_item_removed",
                         actor |-> Admin, item |-> q.item]
    <2>1. q \in SummedRequest
      BY <1>14, RequestKinds DEF CommitEdit, TypeOK
    <2>2. q.booking \in Bookings /\ q.item \in LineItem
      BY <2>1 DEF SummedRequest
    <2>3. entry \in LogEntry
      BY <2>2 DEF LogEntry
    <2>4. logs' = [logs EXCEPT ![q.booking] = Append(@, entry)]
      BY <1>14 DEF CommitEdit
    <2>5. Append(logs[q.booking], entry) \in Seq(LogEntry)
      BY <2>2, <2>3 DEF TypeOK
    <2>6. logs' \in [Bookings -> Seq(LogEntry)]
      BY <2>2, <2>4, <2>5 DEF TypeOK
    <2>7. lines' \in [Bookings -> SUBSET LineItem]
      BY <1>14, <2>2 DEF CommitEdit, TypeOK
    <2>8. totals' = [c \in Bookings |-> totals'[c]]
      BY <1>14 DEF CommitEdit, TypeOK
    <2>9. requests' \in [Requests -> Request]
      <3>1. Idle \in Request
        BY DEF Request
      <3> QED BY <1>14, <3>1, StepType DEF CommitEdit
    <2> QED BY <1>14, <2>6, <2>7, <2>8, <2>9 DEF TypeOK, CommitEdit
  <1>15. CASE UNCHANGED vars
    BY <1>15 DEF TypeOK, vars
  <1> QED
    BY <1>1, <1>2, <1>3, <1>4, <1>5, <1>6, <1>7, <1>8, <1>9, <1>10, <1>11, <1>12, <1>13,
       <1>14, <1>15 DEF Next, CreateStep, StatusStep, EditStep

\* Only three actions write a booking, its total, its lines or its history.
LEMMA LedgerWriters ==
  ASSUME [Next]_vars
  PROVE  \/ UNCHANGED ledger
         \/ \E r \in Requests : \E b \in Bookings : CommitCreate(r, b)
         \/ \E r \in Requests : CommitStatus(r) \/ CommitEdit(r)
PROOF
  <1>1. CASE UNCHANGED vars
    BY <1>1 DEF vars, ledger
  <1>2. ASSUME \/ \E h \in Hotels : SetTours(h)
               \/ \E t \in Tours : RepriceTour(t)
        PROVE  UNCHANGED ledger
    BY <1>2 DEF SetTours, RepriceTour
  <1>3. ASSUME NEW r \in Requests, Abort(r) PROVE UNCHANGED ledger
    BY <1>3 DEF Abort
  <1>4. ASSUME NEW r \in Requests, CreateStep(r)
        PROVE  UNCHANGED ledger \/ \E b \in Bookings : CommitCreate(r, b)
    BY <1>4 DEF CreateStep, ReadGrant, ReadTour, NextReference
  <1>5. ASSUME NEW r \in Requests, StatusStep(r) PROVE UNCHANGED ledger \/ CommitStatus(r)
    BY <1>5 DEF StatusStep, CheckStatus
  <1>6. ASSUME NEW r \in Requests, EditStep(r) PROVE UNCHANGED ledger \/ CommitEdit(r)
    BY <1>6 DEF EditStep, CheckAdd, AddAndSum, CheckRemove, RemoveAndSum
  <1> QED BY <1>1, <1>2, <1>3, <1>4, <1>5, <1>6 DEF Next

\* What a commit does, with the types of what it reads made plain.
LEMMA CommitCreateEffect ==
  ASSUME TypeOK, NEW r \in Requests, NEW b \in Bookings, CommitCreate(r, b)
  PROVE  \E quote \in Quote, reference \in Nat, id \in LineIds :
           /\ requests[r] = [pc |-> "numbered", quote |-> quote, reference |-> reference]
           /\ bookings[b] = NoBooking
           /\ reference \notin References
           /\ bookings' = [bookings EXCEPT ![b] = [quote |-> quote, status |-> "pending",
                                                  stamps |-> {}, reference |-> reference]]
           /\ lines' = [lines EXCEPT ![b] = BaseLines(id, quote)]
           /\ totals' = [totals EXCEPT ![b] = TotalOf(BaseLines(id, quote))]
           /\ logs' = [logs EXCEPT ![b] =
                        <<[type |-> "created", actor |-> quote.hotel, to |-> "pending"]>>]
           /\ requests' = [requests EXCEPT ![r] = Idle]
PROOF
  <1>1. requests[r] \in NumberedRequest
    BY RequestKinds DEF CommitCreate, TypeOK
  <1>2. requests[r].quote \in Quote /\ requests[r].reference \in Nat
    BY <1>1 DEF NumberedRequest
  <1>3. requests[r] = [pc |-> "numbered", quote |-> requests[r].quote,
                       reference |-> requests[r].reference]
    BY <1>1 DEF NumberedRequest
  <1> QED BY <1>2, <1>3 DEF CommitCreate, Step

\* A status commit writes the status it carries, stamps it and logs it, on a row
\* that exists, and leaves every other row alone.
LEMMA CommitStatusEffect ==
  ASSUME TypeOK, RowsExist, NEW r \in Requests, CommitStatus(r)
  PROVE  LET q == requests[r]
             b == q.booking
             entry == [type |-> "status_changed", actor |-> q.actor, from |-> q.from, to |-> q.to]
         IN /\ q \in StatusRequest /\ Touches(q, b)
            /\ b \in Bookings /\ bookings[b] \in Row
            /\ q.actor \in Actors /\ q.from \in Statuses /\ q.to \in Stamped
            /\ bookings'[b] \in Row
            /\ bookings'[b].quote = bookings[b].quote
            /\ bookings'[b].reference = bookings[b].reference
            /\ bookings'[b].status = q.to
            /\ bookings'[b].stamps = bookings[b].stamps \cup {q.to}
            /\ \A c \in Bookings : c # b => bookings'[c] = bookings[c]
            /\ logs' = [logs EXCEPT ![b] = Append(logs[b], entry)]
            /\ requests' = [requests EXCEPT ![r] = Idle]
            /\ UNCHANGED <<lines, totals>>
PROOF
  <1> DEFINE q == requests[r]
             b == q.booking
             row == [bookings[b] EXCEPT !.status = q.to, !.stamps = @ \cup {q.to}]
  <1>1. q \in StatusRequest
    BY RequestKinds DEF CommitStatus, TypeOK
  <1>2. b \in Bookings /\ q.actor \in Actors /\ q.from \in Statuses /\ q.to \in Stamped
    BY <1>1 DEF StatusRequest
  <1>3. Touches(q, b)
    BY DEF Touches, CommitStatus
  <1>4. bookings[b] \in Row
    BY <1>2, <1>3 DEF RowsExist, TypeOK
  <1>5. /\ row \in Row
        /\ row.quote = bookings[b].quote /\ row.reference = bookings[b].reference
        /\ row.status = q.to /\ row.stamps = bookings[b].stamps \cup {q.to}
    BY <1>2, <1>4 DEF Row, Stamped
  <1>6. bookings' = [bookings EXCEPT ![b] = row]
    BY <1>2, <1>4 DEF CommitStatus, TypeOK, Row
  <1>7. bookings'[b] = row /\ \A c \in Bookings : c # b => bookings'[c] = bookings[c]
    BY <1>2, <1>6 DEF TypeOK
  <1> QED BY <1>1, <1>2, <1>3, <1>4, <1>5, <1>7 DEF CommitStatus, Step

\* An edit's commit changes one line, the total it summed and the history of one
\* booking, and no row.
LEMMA CommitEditEffect ==
  ASSUME TypeOK, RowsExist, NEW r \in Requests, CommitEdit(r)
  PROVE  LET q == requests[r]
             b == q.booking
             added == q.pc = "addSummed"
             entry == [type |-> IF added THEN "line_item_added" ELSE "line_item_removed",
                       actor |-> Admin, item |-> q.item]
         IN /\ q \in SummedRequest /\ Touches(q, b)
            /\ b \in Bookings /\ bookings[b] \in Row
            /\ lines' = [lines EXCEPT ![b] = IF added THEN lines[b] \cup {q.item}
                                                      ELSE lines[b] \ {q.item}]
            /\ totals' = [totals EXCEPT ![b] = TotalOf(q.seen)]
            /\ logs' = [logs EXCEPT ![b] = Append(logs[b], entry)]
            /\ requests' = [requests EXCEPT ![r] = Idle]
            /\ UNCHANGED bookings
            /\ \A c \in Bookings : c # b =>
                 lines'[c] = lines[c] /\ totals'[c] = totals[c] /\ logs'[c] = logs[c]
PROOF
  <1> DEFINE q == requests[r]
             b == q.booking
  <1>1. q \in SummedRequest
    BY RequestKinds DEF CommitEdit, TypeOK
  <1>2. b \in Bookings
    BY <1>1 DEF SummedRequest
  <1>3. Touches(q, b)
    BY DEF Touches, CommitEdit
  <1>4. bookings[b] \in Row
    BY <1>2, <1>3 DEF RowsExist, TypeOK
  <1>5. \A c \in Bookings : c # b =>
          lines'[c] = lines[c] /\ totals'[c] = totals[c] /\ logs'[c] = logs[c]
    BY DEF CommitEdit, TypeOK
  <1> QED BY <1>1, <1>2, <1>3, <1>4, <1>5 DEF CommitEdit, Step

\* No step deletes a row, or touches its quote or its reference.
LEMMA RowsPersist ==
  ASSUME TypeOK, RowsExist, [Next]_vars, NEW b \in Bookings, bookings[b] # NoBooking
  PROVE  /\ bookings'[b] # NoBooking
         /\ bookings'[b].quote = bookings[b].quote
         /\ bookings'[b].reference = bookings[b].reference
         /\ bookings[b].stamps \subseteq bookings'[b].stamps
PROOF
  <1>1. CASE UNCHANGED ledger
    BY <1>1 DEF ledger
  <1>2. ASSUME NEW r \in Requests, NEW c \in Bookings, CommitCreate(r, c)
        PROVE  bookings'[b] = bookings[b]
    BY <1>2, CommitCreateEffect DEF TypeOK
  <1>3. ASSUME NEW r \in Requests, CommitStatus(r)
        PROVE  /\ bookings'[b] \in Row
               /\ bookings'[b].quote = bookings[b].quote
               /\ bookings'[b].reference = bookings[b].reference
               /\ bookings[b].stamps \subseteq bookings'[b].stamps
    <2>1. CASE requests[r].booking = b
      BY <1>3, <2>1, CommitStatusEffect
    <2>2. CASE requests[r].booking # b
      BY <1>3, <2>2, CommitStatusEffect DEF TypeOK
    <2> QED BY <2>1, <2>2
  <1>4. ASSUME NEW r \in Requests, CommitEdit(r) PROVE bookings'[b] = bookings[b]
    BY <1>4, CommitEditEffect
  <1> QED BY <1>1, <1>2, <1>3, <1>4, LedgerWriters, NullsAssumption

\* A request that works on a booking either was where it is, or has just read
\* the booking, or has just summed the booking's lines.
LEMMA RequestReads ==
  ASSUME TypeOK, [Next]_vars, NEW r \in Requests, NEW b \in Bookings, Touches(requests'[r], b)
  PROVE  \/ requests'[r] = requests[r]
         \/ \E actor \in Actors, to \in Statuses : CheckStatus(r, b, actor, to)
         \/ CheckAdd(r, b)
         \/ \E item \in lines[b] : CheckRemove(r, b, item)
         \/ AddAndSum(r) /\ Touches(requests[r], b)
         \/ RemoveAndSum(r) /\ Touches(requests[r], b)
PROOF
  <1>1. CASE UNCHANGED vars
    BY <1>1 DEF vars
  <1>2. ASSUME \/ \E h \in Hotels : SetTours(h)
               \/ \E t \in Tours : RepriceTour(t)
        PROVE  requests'[r] = requests[r]
    BY <1>2 DEF SetTours, RepriceTour
  <1>3. ASSUME NEW q \in Requests, NEW value, Step(q, value), q # r
        PROVE  requests'[r] = requests[r]
    BY <1>3 DEF Step, TypeOK
  <1>4. ASSUME NEW value, Step(r, value)
        PROVE  requests'[r] = value
    BY <1>4 DEF Step, TypeOK
  <1>5. ASSUME NEW q \in Requests, Abort(q) \/ CreateStep(q) \/ CommitStatus(q) \/ CommitEdit(q)
        PROVE  requests'[r] = requests[r]
    <2>1. CASE q # r
      BY <1>3, <1>5, <2>1 DEF Abort, CreateStep, ReadGrant, ReadTour, NextReference,
         CommitCreate, CommitStatus, CommitEdit
    <2>2. CASE q = r
      <3>1. requests'[r].pc \in {"idle", "granted", "priced", "numbered"}
        <4>1. CASE Abort(r) \/ CommitStatus(r) \/ CommitEdit(r)
          <5>1. requests'[r] = Idle
            BY <1>4, <4>1 DEF Abort, CommitStatus, CommitEdit
          <5> QED BY <5>1 DEF Idle
        <4>2. CASE ReadTour(r)
          BY <1>4, <4>2 DEF ReadTour
        <4>5. CASE NextReference(r)
          <5>1. PICK last \in LastReferences :
                  Step(r, [pc |-> "numbered", quote |-> requests[r].quote, reference |-> last + 1])
            BY <4>5 DEF NextReference
          <5> QED BY <1>4, <5>1
        <4>3. ASSUME NEW h \in Hotels, NEW t \in Tours, ReadGrant(r, h, t)
              PROVE  requests'[r].pc = "granted"
          BY <1>4, <4>3 DEF ReadGrant
        <4>4. ASSUME NEW c \in Bookings, CommitCreate(r, c) PROVE requests'[r].pc = "idle"
          <5>1. requests'[r] = Idle
            BY <1>4, <4>4 DEF CommitCreate
          <5> QED BY <5>1 DEF Idle
        <4> QED BY <1>5, <2>2, <4>1, <4>2, <4>3, <4>4, <4>5 DEF CreateStep
      <3> QED BY <3>1 DEF Touches
    <2> QED BY <2>1, <2>2
  <1>6. ASSUME NEW q \in Requests, NEW c \in Bookings, NEW actor \in Actors, NEW to \in Statuses,
               CheckStatus(q, c, actor, to)
        PROVE  requests'[r] = requests[r] \/ (q = r /\ c = b)
    BY <1>3, <1>4, <1>6 DEF CheckStatus, Touches
  <1>7. ASSUME NEW q \in Requests, NEW c \in Bookings, CheckAdd(q, c)
        PROVE  requests'[r] = requests[r] \/ (q = r /\ c = b)
    BY <1>3, <1>4, <1>7 DEF CheckAdd, Touches
  <1>8. ASSUME NEW q \in Requests, NEW c \in Bookings, NEW item \in lines[c],
               CheckRemove(q, c, item)
        PROVE  requests'[r] = requests[r] \/ (q = r /\ c = b)
    BY <1>3, <1>4, <1>8 DEF CheckRemove, Touches
  <1>9. ASSUME NEW q \in Requests, AddAndSum(q)
        PROVE  requests'[r] = requests[r] \/ (q = r /\ Touches(requests[r], b))
    BY <1>3, <1>4, <1>9 DEF AddAndSum, Touches
  <1>10. ASSUME NEW q \in Requests, RemoveAndSum(q)
         PROVE  requests'[r] = requests[r] \/ (q = r /\ Touches(requests[r], b))
    BY <1>3, <1>4, <1>10 DEF RemoveAndSum, Touches
  <1>11. ASSUME NEW q \in Requests, StatusStep(q)
         PROVE  \/ requests'[r] = requests[r]
                \/ \E actor \in Actors, to \in Statuses : CheckStatus(r, b, actor, to)
    BY <1>5, <1>6, <1>11 DEF StatusStep
  <1>12. ASSUME NEW q \in Requests, EditStep(q)
         PROVE  \/ requests'[r] = requests[r]
                \/ CheckAdd(r, b)
                \/ \E item \in lines[b] : CheckRemove(r, b, item)
                \/ AddAndSum(r) /\ Touches(requests[r], b)
                \/ RemoveAndSum(r) /\ Touches(requests[r], b)
    BY <1>5, <1>7, <1>8, <1>9, <1>10, <1>12 DEF EditStep
  <1> QED BY <1>1, <1>2, <1>5, <1>11, <1>12 DEF Next

\* A request only starts on a row that exists, and rows stay.
LEMMA RowsStep == TypeOK /\ RowsExist /\ [Next]_vars => RowsExist'
PROOF
  <1> SUFFICES ASSUME TypeOK, RowsExist, [Next]_vars,
                      NEW r \in Requests, NEW b \in Bookings, Touches(requests'[r], b)
               PROVE  bookings'[b] # NoBooking
    BY DEF RowsExist, Touches
  <1>1. Touches(requests[r], b) \/ MayStart(r, b)
    BY RequestReads DEF CheckStatus, CheckAdd, CheckRemove, Touches
  <1>2. bookings[b] # NoBooking
    BY <1>1 DEF RowsExist, MayStart
  <1> QED BY <1>2, RowsPersist

\* Columns keep their types, and every request works on a row that exists.
THEOREM TypeCorrect == Spec => [](TypeOK /\ RowsExist)
PROOF
  <1>1. Init => TypeOK /\ RowsExist
    BY DEF Init, TypeOK, RowsExist, Request, Idle, Touches
  <1>2. TypeOK /\ RowsExist /\ [Next]_vars => (TypeOK /\ RowsExist)'
    BY TypeStep, RowsStep
  <1> QED BY <1>1, <1>2, PTL DEF Spec

-----------------------------------------------------------------------------
(* What a request knows when it writes *)

\* A commit of a new booking starts on a row no request is at work on.
LEMMA NewRowUntouched ==
  ASSUME TypeOK, RowsExist, NEW r \in Requests, NEW c \in Bookings, CommitCreate(r, c),
         NEW q \in Requests
  PROVE  ~Touches(requests[q], c)
  BY DEF RowsExist, CommitCreate

\* Lines leave a booking only as extra lines and tour lines only come with the row.
LEMMA TourLinesPersist ==
  ASSUME TypeOK, RequestKnowledge, [Next]_vars, NEW b \in Bookings, bookings[b] # NoBooking,
         NEW item \in LineItem, item.kind = "base"
  PROVE  item \in lines'[b] <=> item \in lines[b]
PROOF
  <1>1. CASE UNCHANGED ledger
    BY <1>1 DEF ledger
  <1>2. ASSUME NEW r \in Requests, NEW c \in Bookings, CommitCreate(r, c)
        PROVE  lines'[b] = lines[b]
    BY <1>2, CommitCreateEffect DEF TypeOK
  <1>3. ASSUME NEW r \in Requests, CommitStatus(r) PROVE lines'[b] = lines[b]
    BY <1>3 DEF CommitStatus
  <1>4. ASSUME NEW r \in Requests, CommitEdit(r)
        PROVE  item \in lines'[b] <=> item \in lines[b]
    <2> DEFINE q == requests[r]
    <2>1. RowsExist
      BY DEF RequestKnowledge
    <2>2. /\ Touches(q, q.booking) /\ q.booking \in Bookings
          /\ lines' = [lines EXCEPT ![q.booking] = IF q.pc = "addSummed" THEN lines[q.booking] \cup {q.item}
                                                   ELSE lines[q.booking] \ {q.item}]
      BY <1>4, <2>1, CommitEditEffect
    <2>3. q.item.kind = "extra"
      BY <1>4, <2>2 DEF RequestKnowledge, CommitEdit
    <2>4. q.item # item
      BY <2>3
    <2> QED BY <2>2, <2>4 DEF TypeOK
  <1> QED BY <1>1, <1>2, <1>3, <1>4, LedgerWriters DEF RequestKnowledge

\* The facts a request checked stay true until it writes.
LEMMA KnowledgeStep ==
  TypeOK /\ RequestKnowledge /\ MilestonesInOrder /\ [Next]_vars => RequestKnowledge'
PROOF
  <1> SUFFICES ASSUME TypeOK, RequestKnowledge, MilestonesInOrder, [Next]_vars PROVE RequestKnowledge'
    OBVIOUS
  <1>1. RowsExist'
    BY RowsStep DEF RequestKnowledge
  <1>2. TypeOK'
    BY TypeStep DEF RequestKnowledge
  <1> DEFINE Knows(q, b) ==
        /\ q.pc = "statusChecked" =>
             /\ CanTransition(q.from, q.to, ActorType(q.actor))
             /\ q.from # "pending" => q.from \in bookings[b].stamps
             /\ q.actor # Admin => q.actor = bookings[b].quote.hotel
        /\ q.pc \in {"removeChecked", "addSummed", "removeSummed"} => q.item.kind = "extra"
        /\ q.pc \in {"addSummed", "removeSummed"} =>
             \A item \in lines[b] : item.kind = "base" => item \in q.seen
  <1>3. ASSUME NEW r \in Requests, NEW b \in Bookings, Touches(requests'[r], b)
        PROVE  Knows(requests[r], b)'
    <2> SUFFICES Knows(requests[r], b)'
      OBVIOUS
    <2>1. bookings[b] # NoBooking
      BY <1>3, RequestReads DEF RequestKnowledge, RowsExist, CheckStatus, CheckAdd, CheckRemove, MayStart
    <2>2. /\ bookings'[b].quote = bookings[b].quote
          /\ bookings[b].stamps \subseteq bookings'[b].stamps
      BY <2>1, RowsPersist DEF RequestKnowledge
    <2>3. CASE requests'[r] = requests[r]
      <3>1. Knows(requests[r], b)
        BY <1>3, <2>3 DEF RequestKnowledge
      <3>2. \A item \in lines'[b] : item.kind = "base" => item \in lines[b]
        BY <1>2, <2>1, TourLinesPersist DEF TypeOK
      <3> QED BY <2>2, <2>3, <3>1, <3>2
    <2>4. ASSUME NEW actor \in Actors, NEW to \in Statuses, CheckStatus(r, b, actor, to)
          PROVE  Knows(requests[r], b)'
      <3> DEFINE read == [pc |-> "statusChecked", actor |-> actor, booking |-> b,
                          from |-> bookings[b].status, to |-> to]
      <3>1. requests'[r] = read
        BY <2>4 DEF CheckStatus, Step, TypeOK
      <3>2. read.from # "pending" => read.from \in bookings[b].stamps
        BY <2>1 DEF MilestonesInOrder, Open
      <3>3. /\ CanTransition(read.from, read.to, ActorType(read.actor))
            /\ read.actor # Admin => read.actor = bookings[b].quote.hotel
        BY <2>4 DEF CheckStatus
      <3> HIDE DEF Knows
      <3>4. read.pc = "statusChecked"
        OBVIOUS
      <3> HIDE DEF read
      <3> QED BY <2>2, <3>1, <3>2, <3>3, <3>4 DEF Knows
    <2>5. CASE CheckAdd(r, b)
      <3>1. requests'[r].pc = "addChecked"
        BY <2>5 DEF CheckAdd, Step, TypeOK
      <3> QED BY <3>1
    <2>6. ASSUME NEW item \in lines[b], CheckRemove(r, b, item)
          PROVE  Knows(requests[r], b)'
      <3>1. requests'[r] = [pc |-> "removeChecked", booking |-> b, item |-> item]
        BY <2>6 DEF CheckRemove, Step, TypeOK
      <3>2. item.kind = "extra"
        BY <2>6 DEF CheckRemove, TypeOK, LineItem
      <3> QED BY <3>1, <3>2
    <2>7. CASE AddAndSum(r) /\ Touches(requests[r], b)
      <3>1. PICK id \in LineIds, amount \in Extras :
              requests'[r] = [pc |-> "addSummed", booking |-> b,
                              item |-> [id |-> id, kind |-> "extra", amount |-> amount],
                              seen |-> lines[b] \cup {[id |-> id, kind |-> "extra", amount |-> amount]}]
        BY <2>7 DEF AddAndSum, Step, TypeOK, Touches
      <3>2. lines' = lines
        BY <2>7 DEF AddAndSum, ledger
      <3> QED BY <3>1, <3>2
    <2>8. CASE RemoveAndSum(r) /\ Touches(requests[r], b)
      <3>1. requests'[r] = [pc |-> "removeSummed", booking |-> b, item |-> requests[r].item,
                            seen |-> lines[b] \ {requests[r].item}]
        BY <2>8 DEF RemoveAndSum, Step, TypeOK, Touches
      <3>2. lines' = lines
        BY <2>8 DEF RemoveAndSum, ledger
      <3>3. requests[r].item.kind = "extra"
        BY <2>8 DEF RequestKnowledge, RemoveAndSum
      <3> QED BY <3>1, <3>2, <3>3
    <2> QED BY <1>3, <2>3, <2>4, <2>5, <2>6, <2>7, <2>8, RequestReads
  <1> QED BY <1>1, <1>3 DEF RequestKnowledge, Touches

-----------------------------------------------------------------------------
(* Properties of the bookings *)

\* The rows a step leaves as they are, and the one it may write.
LEMMA LedgerCases ==
  ASSUME TypeOK, RequestKnowledge, [Next]_vars, NEW b \in Bookings, bookings'[b] # NoBooking
  PROVE  \/ /\ bookings[b] # NoBooking
            /\ bookings'[b] = bookings[b] /\ logs'[b] = logs[b]
            /\ lines'[b] = lines[b] /\ totals'[b] = totals[b]
         \/ \E r \in Requests : CommitCreate(r, b)
         \/ \E r \in Requests : CommitStatus(r) /\ requests[r].booking = b
         \/ \E r \in Requests : CommitEdit(r) /\ requests[r].booking = b
PROOF
  <1> RowsExist
    BY DEF RequestKnowledge
  <1>1. CASE UNCHANGED ledger
    BY <1>1 DEF ledger
  <1>2. ASSUME NEW r \in Requests, NEW c \in Bookings, CommitCreate(r, c), c # b
        PROVE  /\ bookings'[b] = bookings[b] /\ logs'[b] = logs[b]
               /\ lines'[b] = lines[b] /\ totals'[b] = totals[b]
    BY <1>2, CommitCreateEffect DEF TypeOK
  <1>3. ASSUME NEW r \in Requests, CommitStatus(r), requests[r].booking # b
        PROVE  /\ bookings'[b] = bookings[b] /\ logs'[b] = logs[b]
               /\ lines'[b] = lines[b] /\ totals'[b] = totals[b]
    BY <1>3, CommitStatusEffect DEF TypeOK
  <1>4. ASSUME NEW r \in Requests, CommitEdit(r), requests[r].booking # b
        PROVE  /\ bookings'[b] = bookings[b] /\ logs'[b] = logs[b]
               /\ lines'[b] = lines[b] /\ totals'[b] = totals[b]
    BY <1>4, CommitEditEffect
  <1> QED BY <1>1, <1>2, <1>3, <1>4, LedgerWriters

\* A status commit stamps after the stamp its transition starts from.
LEMMA MilestonesStep ==
  TypeOK /\ RequestKnowledge /\ MilestonesInOrder /\ [Next]_vars => MilestonesInOrder'
PROOF
  <1> DEFINE Ordered(row) ==
        /\ row.status # "pending" => row.status \in row.stamps
        /\ "invoiced" \in row.stamps => "completed" \in row.stamps
        /\ "completed" \in row.stamps => "confirmed" \in row.stamps
  <1> SUFFICES ASSUME TypeOK, RequestKnowledge, MilestonesInOrder, [Next]_vars,
                      NEW b \in Bookings, bookings'[b] # NoBooking
               PROVE  Ordered(bookings'[b])
    BY DEF MilestonesInOrder, Open
  <1> RowsExist
    BY DEF RequestKnowledge
  <1>1. CASE bookings[b] # NoBooking /\ bookings'[b] = bookings[b]
    BY <1>1 DEF MilestonesInOrder, Open
  <1>2. ASSUME NEW r \in Requests, CommitCreate(r, b) PROVE Ordered(bookings'[b])
    BY <1>2, CommitCreateEffect DEF TypeOK
  <1>3. ASSUME NEW r \in Requests, CommitStatus(r), requests[r].booking = b
        PROVE  Ordered(bookings'[b])
    <2> DEFINE q == requests[r]
    <2>1. /\ bookings[b] \in Row /\ Touches(q, b)
          /\ bookings'[b].status = q.to
          /\ bookings'[b].stamps = bookings[b].stamps \cup {q.to}
      BY <1>3, CommitStatusEffect
    <2>2. Ordered(bookings[b])
      BY <2>1, NullsAssumption DEF MilestonesInOrder, Open
    <2>3. /\ CanTransition(q.from, q.to, ActorType(q.actor))
          /\ q.from # "pending" => q.from \in bookings[b].stamps
      BY <1>3, <2>1 DEF RequestKnowledge, CommitStatus
    <2>4. /\ q.to = "invoiced" => q.from = "completed"
          /\ q.to = "completed" => q.from = "confirmed"
      BY <2>3 DEF CanTransition, AllowedTransitions
    <2> QED BY <2>1, <2>2, <2>3, <2>4
  <1>4. ASSUME NEW r \in Requests, CommitEdit(r), requests[r].booking = b
        PROVE  Ordered(bookings'[b])
    <2>1. bookings'[b] = bookings[b] /\ bookings[b] # NoBooking
      BY <1>4, CommitEditEffect, NullsAssumption
    <2> QED BY <2>1 DEF MilestonesInOrder, Open
  <1> QED BY <1>1, <1>2, <1>3, <1>4, LedgerCases

\* Whatever races, a booking's stamps follow the life cycle and a request writes
\* what it checked.
THEOREM MilestonesCorrect == Spec => [](RequestKnowledge /\ MilestonesInOrder)
PROOF
  <1>1. Init => RequestKnowledge /\ MilestonesInOrder
    BY DEF Init, RequestKnowledge, RowsExist, MilestonesInOrder, Open, Idle, Touches
  <1>2. TypeOK /\ (RequestKnowledge /\ MilestonesInOrder) /\ [Next]_vars
          => (RequestKnowledge /\ MilestonesInOrder)'
    BY KnowledgeStep, MilestonesStep
  <1> QED BY <1>1, <1>2, TypeCorrect, PTL DEF Spec

\* In commit order, the history of every booking ends, as far as statuses go,
\* with the status the booking has.
THEOREM StatusLogged == Spec => []StatusIsLastLogged
PROOF
  <1>1. Init => StatusIsLastLogged
    BY DEF Init, StatusIsLastLogged, Open
  <1>2. TypeOK /\ RequestKnowledge /\ StatusIsLastLogged /\ [Next]_vars => StatusIsLastLogged'
    <2> DEFINE Last(log, status) ==
          \E i \in DOMAIN log :
            /\ IsStatusEntry(log[i])
            /\ log[i].to = status
            /\ \A j \in DOMAIN log : j > i => ~IsStatusEntry(log[j])
    <2> SUFFICES ASSUME TypeOK, RequestKnowledge, StatusIsLastLogged, [Next]_vars,
                        NEW b \in Bookings, bookings'[b] # NoBooking
                 PROVE  Last(logs'[b], bookings'[b].status)
      BY DEF StatusIsLastLogged, Open
    <2> RowsExist
      BY DEF RequestKnowledge
    <2>1. bookings[b] # NoBooking => Last(logs[b], bookings[b].status)
      BY DEF StatusIsLastLogged, Open
    <2>2. ASSUME NEW r \in Requests, CommitCreate(r, b)
          PROVE  Last(logs'[b], bookings'[b].status)
      <3>1. \E h : logs'[b] = <<[type |-> "created", actor |-> h, to |-> "pending"]>>
        BY <2>2 DEF CommitCreate, TypeOK
      <3>2. bookings'[b].status = "pending"
        BY <2>2, CommitCreateEffect DEF TypeOK
      <3>3. DOMAIN logs'[b] = {1} /\ logs'[b][1].type = "created" /\ logs'[b][1].to = "pending"
        BY <3>1
      <3> QED BY <3>2, <3>3 DEF IsStatusEntry
    <2>3. ASSUME NEW r \in Requests, CommitStatus(r), requests[r].booking = b
          PROVE  Last(logs'[b], bookings'[b].status)
      <3> DEFINE q == requests[r]
                 entry == [type |-> "status_changed", actor |-> q.actor, from |-> q.from, to |-> q.to]
      <3>1. bookings'[b].status = q.to /\ logs'[b] = Append(logs[b], entry)
        BY <2>3, CommitStatusEffect DEF TypeOK
      <3>2. logs[b] \in Seq(LogEntry)
        BY DEF TypeOK
      <3>3. /\ DOMAIN logs'[b] = 1..(Len(logs[b]) + 1)
            /\ logs'[b][Len(logs[b]) + 1] = entry
            /\ Len(logs[b]) \in Nat
        BY <3>1, <3>2
      <3>4. IsStatusEntry(entry) /\ entry.to = q.to
        BY DEF IsStatusEntry
      <3> HIDE DEF entry, q
      <3> QED BY <3>1, <3>3, <3>4
    <2>4. ASSUME NEW r \in Requests, CommitEdit(r), requests[r].booking = b
          PROVE  Last(logs'[b], bookings'[b].status)
      <3> DEFINE q == requests[r]
                 entry == [type |-> IF q.pc = "addSummed" THEN "line_item_added" ELSE "line_item_removed",
                           actor |-> Admin, item |-> q.item]
      <3>1. /\ logs'[b] = Append(logs[b], entry)
            /\ entry.type \in {"line_item_added", "line_item_removed"}
        BY <2>4, CommitEditEffect DEF TypeOK
      <3> HIDE DEF entry
      <3>2. bookings'[b] = bookings[b]
        BY <2>4 DEF CommitEdit
      <3>3. logs[b] \in Seq(LogEntry)
        BY DEF TypeOK
      <3>4. /\ DOMAIN logs'[b] = 1..(Len(logs[b]) + 1)
            /\ \A i \in DOMAIN logs[b] : logs'[b][i] = logs[b][i]
            /\ logs'[b][Len(logs[b]) + 1] = entry
            /\ DOMAIN logs[b] = 1..Len(logs[b])
            /\ Len(logs[b]) \in Nat
        BY <3>1, <3>3
      <3>5. ~IsStatusEntry(entry)
        BY <3>1 DEF IsStatusEntry
      <3>6. PICK i \in DOMAIN logs[b] :
              /\ IsStatusEntry(logs[b][i])
              /\ logs[b][i].to = bookings[b].status
              /\ \A j \in DOMAIN logs[b] : j > i => ~IsStatusEntry(logs[b][j])
        BY <2>1, <3>2
      <3>7. i \in DOMAIN logs'[b] /\ IsStatusEntry(logs'[b][i]) /\ logs'[b][i].to = bookings'[b].status
        BY <3>2, <3>4, <3>6
      <3>8. \A j \in DOMAIN logs'[b] : j > i => ~IsStatusEntry(logs'[b][j])
        BY <3>4, <3>5, <3>6
      <3> QED BY <3>7, <3>8
    <2> QED BY <2>1, <2>2, <2>3, <2>4, LedgerCases
  <1> QED BY <1>1, <1>2, TypeCorrect, MilestonesCorrect, PTL DEF Spec

\* The history never tells a move its actor may not make, nor a hotel acting on
\* another hotel's booking.
THEOREM HistoryPermitted == Spec => []LogFollowsTable
PROOF
  <1>1. Init => LogFollowsTable
    BY DEF Init, LogFollowsTable, Open
  <1>2. TypeOK /\ RequestKnowledge /\ LogFollowsTable /\ [Next]_vars => LogFollowsTable'
    <2> DEFINE Permitted(entry, hotel) ==
          /\ entry.type = "status_changed" =>
               CanTransition(entry.from, entry.to, ActorType(entry.actor))
          /\ entry.actor # Admin => entry.actor = hotel
    <2> SUFFICES ASSUME TypeOK, RequestKnowledge, LogFollowsTable, [Next]_vars,
                        NEW b \in Bookings, bookings'[b] # NoBooking, NEW i \in DOMAIN logs'[b]
                 PROVE  Permitted(logs'[b][i], bookings'[b].quote.hotel)
      BY DEF LogFollowsTable, Open
    <2> RowsExist
      BY DEF RequestKnowledge
    <2>1. bookings[b] # NoBooking =>
            \A j \in DOMAIN logs[b] : Permitted(logs[b][j], bookings[b].quote.hotel)
      BY DEF LogFollowsTable, Open
    <2>2. bookings[b] # NoBooking => bookings'[b].quote = bookings[b].quote
      BY RowsPersist
    <2>3. ASSUME NEW r \in Requests, CommitCreate(r, b)
          PROVE  Permitted(logs'[b][i], bookings'[b].quote.hotel)
      <3> DEFINE quote == requests[r].quote
                 entry == [type |-> "created", actor |-> quote.hotel, to |-> "pending"]
      <3>1. logs'[b] = <<entry>> /\ bookings'[b].quote = quote
        BY <2>3 DEF CommitCreate, TypeOK
      <3>2. Permitted(entry, quote.hotel)
        OBVIOUS
      <3> HIDE DEF entry
      <3> QED BY <3>1, <3>2
    <2>4. ASSUME NEW entry, logs'[b] = Append(logs[b], entry), bookings[b] # NoBooking,
                 Permitted(entry, bookings[b].quote.hotel)
          PROVE  Permitted(logs'[b][i], bookings'[b].quote.hotel)
      <3>1. logs[b] \in Seq(LogEntry)
        BY DEF TypeOK
      <3>2. (i \in DOMAIN logs[b] /\ logs'[b][i] = logs[b][i]) \/ logs'[b][i] = entry
        BY <2>4, <3>1
      <3> HIDE DEF Permitted
      <3> QED BY <2>1, <2>2, <2>4, <3>2
    <2>5. ASSUME NEW r \in Requests, CommitStatus(r), requests[r].booking = b
          PROVE  Permitted(logs'[b][i], bookings'[b].quote.hotel)
      <3> DEFINE q == requests[r]
                 entry == [type |-> "status_changed", actor |-> q.actor, from |-> q.from, to |-> q.to]
      <3>1. logs'[b] = Append(logs[b], entry) /\ Touches(q, b) /\ bookings[b] # NoBooking
        BY <2>5, CommitStatusEffect, NullsAssumption DEF TypeOK
      <3>2. Permitted(entry, bookings[b].quote.hotel)
        BY <2>5, <3>1 DEF RequestKnowledge, CommitStatus
      <3> HIDE DEF entry, Permitted
      <3> QED BY <2>4, <3>1, <3>2
    <2>6. ASSUME NEW r \in Requests, CommitEdit(r), requests[r].booking = b
          PROVE  Permitted(logs'[b][i], bookings'[b].quote.hotel)
      <3> DEFINE q == requests[r]
                 entry == [type |-> IF q.pc = "addSummed" THEN "line_item_added" ELSE "line_item_removed",
                           actor |-> Admin, item |-> q.item]
      <3>1. logs'[b] = Append(logs[b], entry) /\ bookings[b] # NoBooking
        BY <2>6, CommitEditEffect, NullsAssumption DEF TypeOK
      <3>2. Permitted(entry, bookings[b].quote.hotel)
        OBVIOUS
      <3> HIDE DEF entry, Permitted
      <3> QED BY <2>4, <3>1, <3>2
    <2> QED BY <2>1, <2>3, <2>5, <2>6, LedgerCases
  <1> QED BY <1>1, <1>2, TypeCorrect, MilestonesCorrect, PTL DEF Spec

\* The history of a booking ends with its status and tells only permitted moves.
THEOREM HistoryTrue == Spec => []HistoryIsTrue
PROOF
  <1>1. StatusIsLastLogged /\ LogFollowsTable => HistoryIsTrue
    BY DEF HistoryIsTrue
  <1> QED BY <1>1, StatusLogged, HistoryPermitted, PTL

-----------------------------------------------------------------------------
(* Sums.  SumAmounts is a fold over a set: a function on the subsets of its  *)
(* set, chosen to satisfy an equation.  That there is such a function, and   *)
(* that its values are integers, is shown by the size of the subsets.        *)

\* What SumAmounts adds first, and what it adds to it.
First(items) == CHOOSE item \in items : TRUE
Rest(items)  == items \ {First(items)}

\* The equation its function is chosen to satisfy.
IsSum(sum, sets) ==
  sum = [ s \in sets |-> IF s = {} THEN 0 ELSE First(s).amount + sum[Rest(s)] ]

LEMMA SumUnfolds ==
  ASSUME NEW S
  PROVE  SumAmounts(S) = (CHOOSE sum : IsSum(sum, SUBSET S))[S]
  BY Zenon DEF SumAmounts, MapThenSumSet, MapThenFoldSet, IsSum, First, Rest

LEMMA RestIsSmaller ==
  ASSUME NEW S, IsFiniteSet(S), NEW s \in SUBSET S
  PROVE  /\ Cardinality(s) \in Nat
         /\ s # {} => /\ First(s) \in S /\ Rest(s) \in SUBSET S
                      /\ Cardinality(s) # 0 /\ Cardinality(Rest(s)) = Cardinality(s) - 1
PROOF
  <1>1. IsFiniteSet(s)
    BY FS_Subset
  <1>2. Cardinality(s) \in Nat
    BY <1>1, FS_CardinalityType
  <1>3. ASSUME s # {}
        PROVE  /\ First(s) \in S /\ Rest(s) \in SUBSET S
               /\ Cardinality(s) # 0 /\ Cardinality(Rest(s)) = Cardinality(s) - 1
    <2>1. First(s) \in s
      BY <1>3 DEF First
    <2>2. Cardinality(s \ {First(s)}) = Cardinality(s) - 1
      BY <1>1, <2>1, FS_RemoveElement
    <2>3. Cardinality(s) # 0
      BY <1>1, <1>3, FS_EmptySet
    <2> QED BY <2>1, <2>2, <2>3 DEF Rest
  <1> QED BY <1>2, <1>3

\* A finite set of items with integer amounts has a sum, an integer.
LEMMA SumsAreIntegers ==
  ASSUME NEW S, IsFiniteSet(S), \A item \in S : item.amount \in Int
  PROVE  SumAmounts(S) \in Int
PROOF
  <1> DEFINE Upto(n) == { s \in SUBSET S : Cardinality(s) <= n }
             Summed(n) == \E sum \in [Upto(n) -> Int] : IsSum(sum, Upto(n))
             bad == { n \in Nat : ~Summed(n) }
  <1>1. ASSUME NEW n \in Nat, ~Summed(n), \A m \in bad : n <= m PROVE FALSE
    <2>1. ASSUME n = 0 PROVE FALSE
      <3>1. \A s \in Upto(n) : s = {}
        BY <2>1, RestIsSmaller
      <3> DEFINE sum == [ s \in Upto(n) |-> 0 ]
      <3>2. IsSum(sum, Upto(n))
        BY <3>1 DEF IsSum
      <3>3. sum \in [Upto(n) -> Int]
        OBVIOUS
      <3> QED BY <1>1, <3>2, <3>3
    <2>2. ASSUME n # 0 PROVE FALSE
      <3>1. n - 1 \in Nat /\ ~(n <= n - 1)
        BY <2>2
      <3>2. Summed(n - 1)
        BY <1>1, <3>1
      <3>3. PICK shorter \in [Upto(n - 1) -> Int] : IsSum(shorter, Upto(n - 1))
        BY <3>2
      <3> DEFINE sum == [ s \in Upto(n) |-> IF s = {} THEN 0 ELSE First(s).amount + shorter[Rest(s)] ]
      <3>4. \A s \in Upto(n) : s # {} => Rest(s) \in Upto(n - 1) /\ Rest(s) \in Upto(n) /\ First(s) \in S
        BY RestIsSmaller
      <3>5. \A s \in Upto(n - 1) : s \in Upto(n) /\ sum[s] = shorter[s]
        <4>1. ASSUME NEW s \in Upto(n - 1) PROVE s \in Upto(n)
          BY RestIsSmaller
        <4> QED BY <3>3, <4>1 DEF IsSum
      <3>6. IsSum(sum, Upto(n))
        <4>1. \A s \in Upto(n) : s # {} => shorter[Rest(s)] = sum[Rest(s)]
          BY <3>4, <3>5
        <4> HIDE DEF Upto
        <4> QED BY <4>1 DEF IsSum
      <3>7. sum \in [Upto(n) -> Int]
        BY <3>4
      <3> QED BY <1>1, <3>6, <3>7
    <2> QED BY <2>1, <2>2
  <1>2. bad = {}
    <2>1. bad \subseteq Nat
      OBVIOUS
    <2> QED BY <1>1, <2>1, HasLeast
  <1>3. Cardinality(S) \in Nat
    BY FS_CardinalityType
  <1>4. Upto(Cardinality(S)) = SUBSET S
    BY FS_Subset
  <1>5. PICK known \in [SUBSET S -> Int] : IsSum(known, SUBSET S)
    BY <1>2, <1>3, <1>4
  <1>6. PICK sum : IsSum(sum, SUBSET S) /\ SumAmounts(S) = sum[S]
    BY <1>5, SumUnfolds
  <1> DEFINE odd == { n \in Nat : \E s \in SUBSET S : Cardinality(s) = n /\ sum[s] # known[s] }
  <1>7. ASSUME NEW n \in odd, \A m \in odd : n <= m PROVE FALSE
    <2>1. PICK s \in SUBSET S : Cardinality(s) = n /\ sum[s] # known[s]
      OBVIOUS
    <2>2. s # {} /\ sum[Rest(s)] # known[Rest(s)]
      BY <1>5, <1>6, <2>1 DEF IsSum
    <2>3. Cardinality(Rest(s)) = n - 1 /\ n - 1 \in Nat /\ Rest(s) \in SUBSET S
      BY <2>1, <2>2, RestIsSmaller
    <2>4. n - 1 \in odd
      BY <2>2, <2>3
    <2> QED BY <1>7, <2>3, <2>4
  <1>8. odd = {}
    <2>1. odd \subseteq Nat
      OBVIOUS
    <2> QED BY <1>7, <2>1, HasLeast
  <1>9. sum[S] = known[S]
    BY <1>3, <1>8
  <1> QED BY <1>5, <1>6, <1>9

-----------------------------------------------------------------------------
(* The tour's line *)

\* Every amount of a line is an integer.
LEMMA AmountsAreIntegers == LineAmounts \subseteq Int
PROOF
  <1>1. ASSUME NEW p \in Prices, NEW basis \in Bases, NEW n \in Counts
        PROVE  BaseAmount(p, basis, n) \in Int
    BY AmountsAssumption, CountsAssumption DEF BaseAmount
  <1>2. ASSUME NEW amount \in LineAmounts PROVE amount \in Int
    <2>1. CASE amount \in Extras
      BY <2>1, AmountsAssumption
    <2>2. CASE amount \notin Extras
      <3>1. PICK p \in Prices, basis \in Bases, n \in Counts : amount = BaseAmount(p, basis, n)
        <4>1. amount \in { BaseAmount(p, basis, n) : p \in Prices, basis \in Bases, n \in Counts }
          BY <2>2 DEF LineAmounts
        <4> QED BY <4>1
      <3> QED BY <1>1, <3>1
    <2> QED BY <2>1, <2>2
  <1> QED BY <1>2

\* The lines of a booking, and those a transaction has summed, are finitely many.
LinesAreFinite ==
  /\ \A b \in Bookings : IsFiniteSet(lines[b])
  /\ \A r \in Requests :
       requests[r].pc \in {"addSummed", "removeSummed"} => IsFiniteSet(requests[r].seen)

LEMMA FinitenessStep == TypeOK /\ RowsExist /\ LinesAreFinite /\ [Next]_vars => LinesAreFinite'
PROOF
  <1> SUFFICES ASSUME TypeOK, RowsExist, LinesAreFinite, [Next]_vars PROVE LinesAreFinite'
    OBVIOUS
  <1>1. ASSUME NEW b \in Bookings PROVE IsFiniteSet(lines'[b])
    <2>1. IsFiniteSet(lines[b])
      BY DEF LinesAreFinite
    <2>2. CASE UNCHANGED ledger
      BY <2>1, <2>2 DEF ledger
    <2>3. ASSUME NEW r \in Requests, NEW c \in Bookings, CommitCreate(r, c)
          PROVE  IsFiniteSet(lines'[b])
      <3>1. PICK id \in LineIds, quote \in Quote : lines' = [lines EXCEPT ![c] = BaseLines(id, quote)]
        <4>1. requests[r].quote \in Quote
          BY <2>3, RequestKinds DEF CommitCreate, TypeOK, NumberedRequest
        <4> QED BY <2>3, <4>1 DEF CommitCreate
      <3>2. IsFiniteSet(BaseLines(id, quote))
        BY FS_EmptySet, FS_Singleton DEF BaseLines
      <3> QED BY <2>1, <3>1, <3>2 DEF TypeOK
    <2>4. ASSUME NEW r \in Requests, CommitStatus(r) PROVE lines'[b] = lines[b]
      BY <2>4 DEF CommitStatus
    <2>5. ASSUME NEW r \in Requests, CommitEdit(r) PROVE IsFiniteSet(lines'[b])
      <3> DEFINE q == requests[r]
      <3>1. lines' = [lines EXCEPT ![q.booking] = IF q.pc = "addSummed" THEN lines[q.booking] \cup {q.item}
                                                                        ELSE lines[q.booking] \ {q.item}]
        BY <2>5, CommitEditEffect
      <3>2. IsFiniteSet(lines[b] \cup {q.item}) /\ IsFiniteSet(lines[b] \ {q.item})
        BY <2>1, FS_AddElement, FS_RemoveElement
      <3> HIDE DEF q
      <3> QED BY <2>1, <3>1, <3>2 DEF TypeOK
    <2> QED BY <2>1, <2>2, <2>3, <2>4, <2>5, LedgerWriters
  <1>2. ASSUME NEW r \in Requests, requests'[r].pc \in {"addSummed", "removeSummed"}
        PROVE  IsFiniteSet(requests'[r].seen)
    <2> DEFINE b == requests'[r].booking
    <2>1. TypeOK'
      BY TypeStep
    <2>2. b \in Bookings
      BY <1>2, <2>1, RequestKinds DEF TypeOK, SummedRequest
    <2>3. Touches(requests'[r], b)
      BY <1>2 DEF Touches
    <2>4. IsFiniteSet(lines[b])
      BY <2>2 DEF LinesAreFinite
    <2> HIDE DEF b
    <2>5. CASE requests'[r] = requests[r]
      BY <1>2, <2>5 DEF LinesAreFinite
    <2>6. ASSUME NEW actor \in Actors, NEW to \in Statuses, CheckStatus(r, b, actor, to) PROVE FALSE
      BY <1>2, <2>6 DEF CheckStatus, Step, TypeOK
    <2>7. CASE CheckAdd(r, b)
      BY <1>2, <2>7 DEF CheckAdd, Step, TypeOK
    <2>8. ASSUME NEW item \in lines[b], CheckRemove(r, b, item) PROVE FALSE
      BY <1>2, <2>8 DEF CheckRemove, Step, TypeOK
    <2>9. CASE AddAndSum(r) /\ Touches(requests[r], b)
      <3>1. PICK id \in LineIds, amount \in Extras :
              LET item == [id |-> id, kind |-> "extra", amount |-> amount]
              IN Step(r, [pc |-> "addSummed", booking |-> requests[r].booking, item |-> item,
                          seen |-> lines[requests[r].booking] \cup {item}])
        BY <2>9 DEF AddAndSum
      <3> DEFINE item == [id |-> id, kind |-> "extra", amount |-> amount]
      <3>2. requests'[r].seen = lines[b] \cup {item}
        BY <2>9, <3>1 DEF Step, Touches, TypeOK
      <3> HIDE DEF item
      <3> QED BY <2>4, <3>2, FS_AddElement
    <2>10. CASE RemoveAndSum(r) /\ Touches(requests[r], b)
      <3>1. PICK item : requests'[r].seen = lines[b] \ {item}
        BY <2>10 DEF RemoveAndSum, Step, Touches, TypeOK
      <3> QED BY <2>4, <3>1, FS_RemoveElement
    <2> QED BY <2>2, <2>3, <2>5, <2>6, <2>7, <2>8, <2>9, <2>10, RequestReads
  <1> QED BY <1>1, <1>2 DEF LinesAreFinite

\* What TourLineStands says of one booking.
TourLine(b) ==
  LET quote == bookings[b].quote
      base == { item \in lines[b] : item.kind = "base" }
  IN IF quote.unitPrice = NoPrice THEN base = {}
     ELSE /\ \E item \in base : base = {item}
          /\ \A item \in base :
               item.amount = BaseAmount(quote.unitPrice, quote.basis, quote.count)
          /\ totals[b] # NoPrice

\* A total of finitely many lines that are not none is an amount.
LEMMA TotalsAreAmounts ==
  ASSUME NEW items \in SUBSET LineItem, IsFiniteSet(items), items # {}
  PROVE  TotalOf(items) # NoPrice
PROOF
  <1>1. \A item \in items : item.amount \in Int
    BY AmountsAreIntegers DEF LineItem
  <1>2. SumAmounts(items) \in Int
    BY <1>1, SumsAreIntegers
  <1> QED BY <1>2, NullsAssumption DEF TotalOf

LEMMA TourLineStep ==
  TypeOK /\ RequestKnowledge /\ LinesAreFinite /\ TourLineStands /\ [Next]_vars => TourLineStands'
PROOF
  <1> SUFFICES ASSUME TypeOK, RequestKnowledge, LinesAreFinite, TourLineStands, [Next]_vars,
                      NEW b \in Bookings, bookings'[b] # NoBooking
               PROVE  TourLine(b)'
    BY DEF TourLineStands, TourLine, Open
  <1> RowsExist
    BY DEF RequestKnowledge
  <1>1. bookings[b] # NoBooking => TourLine(b)
    BY DEF TourLineStands, TourLine, Open
  <1>2. CASE /\ bookings[b] # NoBooking /\ bookings'[b] = bookings[b]
             /\ lines'[b] = lines[b] /\ totals'[b] = totals[b]
    BY <1>1, <1>2 DEF TourLine
  <1>3. ASSUME NEW r \in Requests, CommitCreate(r, b) PROVE TourLine(b)'
    <2>1. PICK quote \in Quote, id \in LineIds :
            /\ bookings'[b].quote = quote
            /\ lines'[b] = BaseLines(id, quote) /\ totals'[b] = TotalOf(BaseLines(id, quote))
      BY <1>3, CommitCreateEffect DEF TypeOK
    <2>2. BaseLines(id, quote) \in SUBSET LineItem /\ IsFiniteSet(BaseLines(id, quote))
      BY BaseLinesType, FS_EmptySet, FS_Singleton DEF BaseLines
    <2>3. CASE quote.unitPrice = NoPrice
      BY <2>1, <2>3 DEF BaseLines, TourLine
    <2>4. CASE quote.unitPrice # NoPrice
      <3> DEFINE item == [id |-> id, kind |-> "base",
                          amount |-> BaseAmount(quote.unitPrice, quote.basis, quote.count)]
      <3>1. /\ BaseLines(id, quote) = {item} /\ item.kind = "base"
            /\ item.amount = BaseAmount(quote.unitPrice, quote.basis, quote.count)
        BY <2>4 DEF BaseLines
      <3> HIDE DEF item
      <3>2. totals'[b] # NoPrice
        BY <2>1, <2>2, <3>1, TotalsAreAmounts
      <3> QED BY <2>1, <2>4, <3>1, <3>2 DEF TourLine
    <2> QED BY <2>3, <2>4
  <1>4. ASSUME NEW r \in Requests, CommitStatus(r), requests[r].booking = b PROVE TourLine(b)'
    <2>1. /\ bookings[b] \in Row /\ bookings'[b].quote = bookings[b].quote
          /\ UNCHANGED <<lines, totals>>
      BY <1>4, CommitStatusEffect
    <2> QED BY <1>1, <2>1, NullsAssumption DEF TourLine
  <1>5. ASSUME NEW r \in Requests, CommitEdit(r), requests[r].booking = b PROVE TourLine(b)'
    <2> DEFINE q == requests[r]
               base == { item \in lines[b] : item.kind = "base" }
    <2>1. /\ bookings[b] \in Row /\ bookings' = bookings /\ q \in SummedRequest /\ Touches(q, b)
          /\ totals' = [totals EXCEPT ![b] = TotalOf(q.seen)]
      BY <1>5, CommitEditEffect
    <2>2. bookings[b] # NoBooking /\ TourLine(b)
      BY <1>1, <2>1, NullsAssumption
    <2>3. { item \in lines'[b] : item.kind = "base" } = base
      <3>1. lines[b] \subseteq LineItem /\ lines'[b] \subseteq LineItem
        BY TypeStep DEF TypeOK
      <3>2. \A item \in LineItem : item.kind = "base" => (item \in lines'[b] <=> item \in lines[b])
        BY <2>2, TourLinesPersist
      <3> QED BY <3>1, <3>2
    <2>4. ASSUME bookings[b].quote.unitPrice # NoPrice PROVE totals'[b] # NoPrice
      <3>1. PICK item \in base : TRUE
        BY <2>2, <2>4 DEF TourLine
      <3>2. item \in q.seen
        BY <1>5, <2>1, <3>1 DEF RequestKnowledge, CommitEdit
      <3>3. q.seen \in SUBSET LineItem /\ IsFiniteSet(q.seen)
        BY <1>5, <2>1 DEF LinesAreFinite, SummedRequest, CommitEdit
      <3>4. TotalOf(q.seen) # NoPrice
        BY <3>2, <3>3, TotalsAreAmounts
      <3> QED BY <2>1, <3>4 DEF TypeOK
    <2> QED BY <2>1, <2>2, <2>3, <2>4 DEF TourLine
  <1> QED BY <1>2, <1>3, <1>4, <1>5, LedgerCases

\* However edits race, a booking quoted at a price keeps exactly one tour line, of the
\* amount the quote gives, and a total; one without a price never gets a tour line.
THEOREM TourLinesStand == Spec => []TourLineStands
PROOF
  <1>1. Init => LinesAreFinite /\ TourLineStands
    BY FS_EmptySet DEF Init, LinesAreFinite, TourLineStands, Open, Idle
  <1>2. TypeOK /\ RequestKnowledge /\ (LinesAreFinite /\ TourLineStands) /\ [Next]_vars
          => (LinesAreFinite /\ TourLineStands)'
    BY FinitenessStep, TourLineStep DEF RequestKnowledge
  <1> QED BY <1>1, <1>2, TypeCorrect, MilestonesCorrect, PTL DEF Spec

-----------------------------------------------------------------------------
(* What a total sums *)

\* An entry that is appended adds its line, if that is what it tells.
LEMMA AddedLinesGrow ==
  ASSUME NEW b \in Bookings, logs[b] \in Seq(LogEntry), NEW entry, logs'[b] = Append(logs[b], entry)
  PROVE  AddedLines(b)' = AddedLines(b)
                            \cup (IF entry.type = "line_item_added" THEN {entry.item} ELSE {})
PROOF
  <1> DEFINE log == logs[b]
             n == Len(log) + 1
  <1>1. n \in Nat /\ DOMAIN log = 1..(n - 1) /\ DOMAIN logs'[b] = 1..n
    OBVIOUS
  <1>2. logs'[b][n] = entry /\ \A i \in 1..(n - 1) : logs'[b][i] = log[i]
    OBVIOUS
  <1>3. \A i \in 1..n : i = n \/ i \in 1..(n - 1)
    BY <1>1
  <1>4. n \in 1..n /\ \A i \in 1..(n - 1) : i \in 1..n
    BY <1>1
  <1> HIDE DEF n
  <1> QED BY <1>1, <1>2, <1>3, <1>4 DEF AddedLines

\* A step leaves a booking's tour lines alone, and the lines its history tells of.
LEMMA KnownLinesPersist ==
  ASSUME TypeOK, RequestKnowledge, [Next]_vars, NEW b \in Bookings, bookings[b] # NoBooking
  PROVE  TourLines(b)' = TourLines(b) /\ AddedLines(b) \subseteq AddedLines(b)'
PROOF
  <1> RowsExist
    BY DEF RequestKnowledge
  <1>1. TourLines(b)' = TourLines(b)
    <2>1. lines[b] \subseteq LineItem /\ lines'[b] \subseteq LineItem
      BY TypeStep DEF TypeOK
    <2> QED BY <2>1, TourLinesPersist DEF TourLines
  <1>2. bookings'[b] # NoBooking
    BY RowsPersist
  <1>3. logs[b] \in Seq(LogEntry)
    BY DEF TypeOK
  <1>4. ASSUME logs'[b] = logs[b] PROVE AddedLines(b) \subseteq AddedLines(b)'
    <2>1. AddedLines(b)' = AddedLines(b)
      BY <1>4, Zenon DEF AddedLines
    <2> QED BY <2>1
  <1>5. ASSUME NEW entry, logs'[b] = Append(logs[b], entry)
        PROVE  AddedLines(b) \subseteq AddedLines(b)'
    BY <1>3, <1>5, AddedLinesGrow
  <1>6. ASSUME NEW r \in Requests, CommitCreate(r, b) PROVE FALSE
    BY <1>6 DEF CommitCreate
  <1>7. ASSUME NEW r \in Requests, CommitStatus(r), requests[r].booking = b
        PROVE  logs'[b] = Append(logs[b], StatusEntry(requests[r]))
    BY <1>7 DEF CommitStatus, TypeOK
  <1>8. ASSUME NEW r \in Requests, CommitEdit(r), requests[r].booking = b
        PROVE  logs'[b] = Append(logs[b], EditEntry(requests[r]))
    BY <1>8 DEF CommitEdit, TypeOK
  <1> QED BY <1>1, <1>2, <1>4, <1>5, <1>6, <1>7, <1>8, LedgerCases

\* The inductive invariant of the bill: what an edit has summed and not written yet is made
\* up as the total is, and of the line it adds itself.
OwnLine(q) == IF q.pc = "addSummed" THEN {q.item} ELSE {}

SummedKnownLines(q, b) ==
  \E extras \in SUBSET (AddedLines(b) \cup OwnLine(q)) : q.seen = TourLines(b) \cup extras

SumsAreKnown ==
  \A r \in Requests : \A b \in Bookings :
    Touches(requests[r], b) /\ requests[r].pc \in {"addSummed", "removeSummed"} =>
      SummedKnownLines(requests[r], b)

LEMMA SumsStep ==
  TypeOK /\ RequestKnowledge /\ SumsAreKnown /\ TotalIsOfKnownLines /\ [Next]_vars => SumsAreKnown'
PROOF
  <1> SUFFICES ASSUME TypeOK, RequestKnowledge, SumsAreKnown, TotalIsOfKnownLines, [Next]_vars,
                      NEW r \in Requests, NEW b \in Bookings, Touches(requests'[r], b),
                      requests'[r].pc \in {"addSummed", "removeSummed"}
               PROVE  SummedKnownLines(requests[r], b)'
    BY DEF SumsAreKnown
  <1> RowsExist
    BY DEF RequestKnowledge
  <1> DEFINE q == requests[r]
             q2 == requests'[r]
  <1>1. SUFFICES ASSUME bookings[b] # NoBooking,
                        \E extras \in SUBSET (AddedLines(b) \cup OwnLine(q2)) :
                          q2.seen = TourLines(b) \cup extras
                 PROVE  SummedKnownLines(requests[r], b)'
    <2>1. CASE q2 = q
      <3>1. bookings[b] # NoBooking
        BY <2>1 DEF RowsExist
      <3>2. SummedKnownLines(q, b)
        BY <2>1 DEF SumsAreKnown
      <3> QED BY <1>1, <2>1, <3>1, <3>2 DEF SummedKnownLines
    <2>2. CASE \/ \E actor \in Actors, to \in Statuses : CheckStatus(r, b, actor, to)
               \/ CheckAdd(r, b)
               \/ \E item \in lines[b] : CheckRemove(r, b, item)
      BY <2>2 DEF CheckStatus, CheckAdd, CheckRemove, Step, TypeOK
    <2>3. CASE AddAndSum(r) /\ Touches(q, b)
      <3>1. bookings[b] # NoBooking /\ lines[b] \subseteq TourLines(b) \cup AddedLines(b)
        BY <2>3 DEF RowsExist, TotalIsOfKnownLines, Open
      <3>2. PICK item : q2 = [pc |-> "addSummed", booking |-> b, item |-> item,
                              seen |-> lines[b] \cup {item}]
        BY <2>3 DEF AddAndSum, Step, Touches, TypeOK
      <3>3. OwnLine(q2) = {item} /\ q2.seen = lines[b] \cup {item}
        BY <3>2 DEF OwnLine
      <3> DEFINE extras == (lines[b] \ TourLines(b)) \cup {item}
      <3>4. extras \in SUBSET (AddedLines(b) \cup OwnLine(q2))
        BY <3>1, <3>3
      <3>5. q2.seen = TourLines(b) \cup extras
        BY <3>3 DEF TourLines
      <3> HIDE DEF extras, q2
      <3> QED BY <1>1, <3>1, <3>4, <3>5
    <2>4. CASE RemoveAndSum(r) /\ Touches(q, b)
      <3>1. bookings[b] # NoBooking /\ lines[b] \subseteq TourLines(b) \cup AddedLines(b)
        BY <2>4 DEF RowsExist, TotalIsOfKnownLines, Open
      <3>2. q2 = [pc |-> "removeSummed", booking |-> b, item |-> q.item, seen |-> lines[b] \ {q.item}]
        BY <2>4 DEF RemoveAndSum, Step, Touches, TypeOK
      <3>3. q2.seen = lines[b] \ {q.item} /\ q.item.kind = "extra"
        BY <2>4, <3>2 DEF RequestKnowledge, RemoveAndSum
      <3> DEFINE extras == (lines[b] \ TourLines(b)) \ {q.item}
      <3>4. extras \in SUBSET (AddedLines(b) \cup OwnLine(q2))
        BY <3>1
      <3>5. q2.seen = TourLines(b) \cup extras
        BY <3>3 DEF TourLines
      <3> HIDE DEF extras, q2
      <3> QED BY <1>1, <3>1, <3>4, <3>5
    <2> QED BY <2>1, <2>2, <2>3, <2>4, RequestReads
  <1>2. TourLines(b)' = TourLines(b) /\ AddedLines(b) \subseteq AddedLines(b)'
    BY <1>1, KnownLinesPersist
  <1>3. OwnLine(requests[r])' = OwnLine(q2)
    BY DEF OwnLine
  <1> HIDE DEF q, q2
  <1>4. PICK extras \in SUBSET (AddedLines(b) \cup OwnLine(q2)) : q2.seen = TourLines(b) \cup extras
    BY <1>1
  <1>5. extras \in SUBSET (AddedLines(b)' \cup OwnLine(requests[r])')
        /\ requests'[r].seen = TourLines(b)' \cup extras
    BY <1>2, <1>3, <1>4 DEF q2
  <1> QED BY <1>5 DEF SummedKnownLines

LEMMA KnownLinesStep ==
  TypeOK /\ RequestKnowledge /\ SumsAreKnown /\ TotalIsOfKnownLines /\ [Next]_vars
    => TotalIsOfKnownLines'
PROOF
  <1> DEFINE Known(b) == /\ lines[b] \subseteq TourLines(b) \cup AddedLines(b)
                         /\ \E extras \in SUBSET AddedLines(b) :
                              totals[b] = TotalOf(TourLines(b) \cup extras)
  <1> SUFFICES ASSUME TypeOK, RequestKnowledge, SumsAreKnown, TotalIsOfKnownLines, [Next]_vars,
                      NEW b \in Bookings, bookings'[b] # NoBooking
               PROVE  Known(b)'
    BY DEF TotalIsOfKnownLines, Open
  <1> RowsExist
    BY DEF RequestKnowledge
  <1>1. bookings[b] # NoBooking =>
          /\ Known(b)
          /\ TourLines(b)' = TourLines(b) /\ AddedLines(b) \subseteq AddedLines(b)'
    BY KnownLinesPersist DEF TotalIsOfKnownLines, Open
  <1>2. CASE bookings[b] # NoBooking /\ lines'[b] = lines[b] /\ totals'[b] = totals[b]
    BY <1>1, <1>2
  <1>3. ASSUME NEW r \in Requests, CommitCreate(r, b) PROVE Known(b)'
    <2>1. PICK quote \in Quote, id \in LineIds :
            lines'[b] = BaseLines(id, quote) /\ totals'[b] = TotalOf(BaseLines(id, quote))
      BY <1>3, CommitCreateEffect DEF TypeOK
    <2>2. TourLines(b)' = BaseLines(id, quote)
      BY <2>1 DEF TourLines, BaseLines
    <2>3. {} \in SUBSET AddedLines(b)' /\ TourLines(b)' \cup {} = TourLines(b)'
      OBVIOUS
    <2> QED BY <2>1, <2>2, <2>3
  <1>4. ASSUME NEW r \in Requests, CommitStatus(r), requests[r].booking = b PROVE Known(b)'
    <2>1. bookings[b] # NoBooking /\ UNCHANGED <<lines, totals>>
      BY <1>4, CommitStatusEffect, NullsAssumption
    <2> QED BY <1>2, <2>1
  <1>5. ASSUME NEW r \in Requests, CommitEdit(r), requests[r].booking = b PROVE Known(b)'
    <2> DEFINE q == requests[r]
               entry == EditEntry(q)
    <2>1. /\ q \in SummedRequest /\ Touches(q, b) /\ bookings[b] # NoBooking
          /\ q.pc \in {"addSummed", "removeSummed"}
      BY <1>5, CommitEditEffect, NullsAssumption DEF CommitEdit
    <2>2. /\ lines'[b] \subseteq lines[b] \cup OwnLine(q)
          /\ totals'[b] = TotalOf(q.seen) /\ logs'[b] = Append(logs[b], entry)
      BY <1>5 DEF CommitEdit, TypeOK, OwnLine
    <2>3. SummedKnownLines(q, b)
      BY <2>1 DEF SumsAreKnown
    <2>4. AddedLines(b)' = AddedLines(b) \cup OwnLine(q)
      <3>1. AddedLines(b)' = AddedLines(b)
                               \cup (IF entry.type = "line_item_added" THEN {entry.item} ELSE {})
        BY <2>2, AddedLinesGrow DEF TypeOK
      <3> QED BY <3>1 DEF OwnLine
    <2>5. Known(b) /\ TourLines(b)' = TourLines(b)
      BY <1>1, <2>1
    <2> HIDE DEF q, entry
    <2>6. lines'[b] \subseteq TourLines(b)' \cup AddedLines(b)'
      BY <2>2, <2>4, <2>5
    <2>7. \E extras \in SUBSET AddedLines(b)' : totals'[b] = TotalOf(TourLines(b)' \cup extras)
      BY <2>2, <2>3, <2>4, <2>5 DEF SummedKnownLines
    <2> QED BY <2>6, <2>7
  <1> QED BY <1>2, <1>3, <1>4, <1>5, LedgerCases

\* However edits race, the tour is on a booking's bill once, at the quoted price, and is
\* counted in the total with nothing but lines the history says were added.
THEOREM BillsAreSound == Spec => []BillIsSound
PROOF
  <1>1. Init => SumsAreKnown /\ TotalIsOfKnownLines
    BY DEF Init, SumsAreKnown, TotalIsOfKnownLines, Open, Idle, Touches
  <1>2. TypeOK /\ RequestKnowledge /\ (SumsAreKnown /\ TotalIsOfKnownLines) /\ [Next]_vars
          => (SumsAreKnown /\ TotalIsOfKnownLines)'
    BY SumsStep, KnownLinesStep
  <1>3. TourLineStands /\ TotalIsOfKnownLines => BillIsSound
    BY DEF BillIsSound
  <1> QED BY <1>1, <1>2, <1>3, TypeCorrect, MilestonesCorrect, TourLinesStand, PTL DEF Spec

-----------------------------------------------------------------------------
(* References *)

\* A padded reference sorts before the next one.
LEMMA SortKeyGrows ==
  ASSUME NEW n \in Nat, n + 1 <= RefLimit
  PROVE  SortKey(n) < SortKey(n + 1)
PROOF
  <1> DEFINE width == 2 * Radix
  <1>1. width \in Nat /\ width > 0 /\ RefLimit \in Nat
    BY BoundsAssumption
  <1>2. SortKey(n) = width * n - 1 /\ SortKey(n + 1) = width * (n + 1) - 1
    BY <1>1 DEF SortKey
  <1> HIDE DEF width
  <1>3. width * (n + 1) = width * n + width /\ width * n \in Nat
    BY <1>1
  <1> QED BY <1>1, <1>2, <1>3

\* A request gets its number by the one action that numbers.
LEMMA Numbering ==
  ASSUME TypeOK, [Next]_vars, NEW r \in Requests,
         requests'[r].pc = "numbered", requests'[r] # requests[r]
  PROVE  NextReference(r)
PROOF
  <1>1. ASSUME NEW q \in Requests, NEW value, Step(q, value), value.pc # "numbered" PROVE FALSE
    BY <1>1 DEF Step, TypeOK
  <1>2. Idle.pc # "numbered"
    BY DEF Idle
  <1>3. ASSUME NEW q \in Requests, Step(q, Idle) PROVE FALSE
    BY <1>1, <1>2, <1>3
  <1>4. ASSUME NEW q \in Requests, CreateStep(q) PROVE NextReference(r)
    <2>1. ASSUME NEW h \in Hotels, NEW t \in Tours, ReadGrant(q, h, t) PROVE FALSE
      BY <1>1, <2>1 DEF ReadGrant
    <2>2. CASE ReadTour(q)
      BY <1>1, <2>2 DEF ReadTour
    <2>3. CASE NextReference(q)
      BY <2>3 DEF NextReference, Step, TypeOK
    <2>4. ASSUME NEW b \in Bookings, CommitCreate(q, b) PROVE FALSE
      BY <1>3, <2>4 DEF CommitCreate
    <2> QED BY <1>4, <2>1, <2>2, <2>3, <2>4 DEF CreateStep
  <1>5. ASSUME NEW q \in Requests, StatusStep(q) PROVE FALSE
    <2>1. ASSUME NEW b \in Bookings, NEW actor \in Actors, NEW to \in Statuses,
                 CheckStatus(q, b, actor, to)
          PROVE  FALSE
      BY <1>1, <2>1 DEF CheckStatus
    <2>2. CASE CommitStatus(q)
      BY <1>3, <2>2 DEF CommitStatus
    <2> QED BY <1>5, <2>1, <2>2 DEF StatusStep
  <1>6. ASSUME NEW q \in Requests, EditStep(q) PROVE FALSE
    <2>1. ASSUME NEW b \in Bookings, CheckAdd(q, b) PROVE FALSE
      BY <1>1, <2>1 DEF CheckAdd
    <2>2. ASSUME NEW b \in Bookings, NEW item \in lines[b], CheckRemove(q, b, item) PROVE FALSE
      BY <1>1, <2>2 DEF CheckRemove
    <2>3. CASE AddAndSum(q)
      BY <1>1, <2>3 DEF AddAndSum
    <2>4. CASE RemoveAndSum(q)
      BY <1>1, <2>4 DEF RemoveAndSum
    <2>5. CASE CommitEdit(q)
      BY <1>3, <2>5 DEF CommitEdit
    <2> QED BY <1>6, <2>1, <2>2, <2>3, <2>4, <2>5 DEF EditStep
  <1>7. ASSUME NEW q \in Requests, Abort(q) PROVE FALSE
    BY <1>3, <1>7 DEF Abort
  <1>8. \/ \E q \in Requests : CreateStep(q) \/ StatusStep(q) \/ EditStep(q) \/ Abort(q)
        \/ requests' = requests
    BY DEF Next, vars, SetTours, RepriceTour
  <1> QED BY <1>4, <1>5, <1>6, <1>7, <1>8

\* While sequences fit their padding, no number is handed out that a committed
\* booking has.
THEOREM ReferencesFresh == Spec => ReferenceIsFresh
PROOF
  <1>1. TypeOK /\ [Next]_vars =>
          [\A r \in Requests :
             requests[r].pc = "priced" /\ requests'[r].pc = "numbered"
               => \/ requests'[r].reference > RefLimit
                  \/ requests'[r].reference \notin References]_vars
    <2> SUFFICES ASSUME TypeOK, [Next]_vars, NEW r \in Requests,
                        requests[r].pc = "priced", requests'[r].pc = "numbered",
                        requests'[r].reference \in References
                 PROVE  requests'[r].reference > RefLimit
      OBVIOUS
    <2>1. PICK last \in LastReferences :
            requests'[r] = [pc |-> "numbered", quote |-> requests[r].quote, reference |-> last + 1]
      <3>1. requests'[r] # requests[r]
        OBVIOUS
      <3> QED BY <3>1, Numbering DEF NextReference, Step, TypeOK
    <2>2. last \in Nat /\ last + 1 \in References
      BY <2>1, LastReferencesType
    <2>3. SortKey(last + 1) <= SortKey(last)
      BY <2>2 DEF LastReferences
    <2>4. SortKey(last) \in Int /\ SortKey(last + 1) \in Int
      BY <2>2, BoundsAssumption DEF SortKey
    <2>5. ~ (last + 1 <= RefLimit)
      BY <2>2, <2>3, <2>4, SortKeyGrows
    <2> QED BY <2>1, <2>2, <2>5, BoundsAssumption
  <1> QED BY <1>1, TypeCorrect, PTL DEF Spec, ReferenceIsFresh

\* Of references without a gap MAX yields one that is not past the padding: the first
\* one past it sorts below the last padded one.
LEMMA LastOfSequence ==
  ASSUME NEW last \in 0..(RefLimit + 1), References = 1..last, NEW n \in LastReferences
  PROVE  n \in Nat /\ n + 1 \in 1..(last + 1) /\ n <= RefLimit
PROOF
  <1>1. RefLimit \in Nat \ {0} /\ Radix \in Nat /\ Radix >= 3 /\ last \in Nat
    BY BoundsAssumption
  <1>2. n = 0 \/ (n \in 1..last /\ \A m \in 1..last : SortKey(m) <= SortKey(n))
    BY DEF LastReferences
  <1>3. n \in Nat /\ n <= last
    BY <1>1, <1>2
  <1>4. ASSUME n = RefLimit + 1 PROVE FALSE
    <2>1. SortKey(RefLimit) <= SortKey(n)
      BY <1>1, <1>2, <1>4
    <2>2. SortKey(n) = 2 * RefLimit + 2
      BY <1>1, <1>4 DEF SortKey
    <2>3. SortKey(RefLimit) = 2 * Radix * RefLimit - 1
      BY <1>1 DEF SortKey
    <2>4. Radix * RefLimit >= 3 * RefLimit
      BY <1>1
    <2>5. 2 * Radix * RefLimit = 2 * (Radix * RefLimit) /\ Radix * RefLimit \in Int
      BY <1>1
    <2> QED BY <1>1, <2>1, <2>2, <2>3, <2>4, <2>5
  <1> QED BY <1>1, <1>3, <1>4

\* The inductive invariant of the references: those of the bookings are the first ones, and
\* one that is handed out is one of them or the next.
Sequence(last) ==
  /\ References = 1..last
  /\ \A r \in Requests : requests[r].pc = "numbered" =>
       requests[r].reference \in 1..(last + 1) /\ requests[r].reference <= RefLimit + 1

SequenceInv ==
  /\ \E last \in 0..(RefLimit + 1) : Sequence(last)
  /\ \A b, c \in Open : b # c => bookings[b].reference # bookings[c].reference

\* Only a booking that is made adds a reference.
LEMMA ReferencesAfter ==
  ASSUME TypeOK, RowsExist, [Next]_vars
  PROVE  \/ /\ References' = References /\ Open' = Open
            /\ \A b \in Open : bookings'[b].reference = bookings[b].reference
         \/ \E r \in Requests, b \in Bookings :
              /\ CommitCreate(r, b)
              /\ Open' = Open \cup {b} /\ b \notin Open
              /\ bookings'[b].reference = requests[r].reference
              /\ \A c \in Open : bookings'[c].reference = bookings[c].reference
              /\ References' = References \cup {requests[r].reference}
PROOF
  <1>1. \A b \in Open : b \in Open' /\ bookings'[b].reference = bookings[b].reference
    BY RowsPersist DEF Open
  <1>2. ASSUME NEW r \in Requests, NEW b \in Bookings, CommitCreate(r, b)
        PROVE  /\ Open' = Open \cup {b} /\ b \notin Open
               /\ bookings'[b].reference = requests[r].reference
    <2>1. PICK quote \in Quote, reference \in Nat, id \in LineIds :
            /\ requests[r] = [pc |-> "numbered", quote |-> quote, reference |-> reference]
            /\ bookings[b] = NoBooking
            /\ bookings' = [bookings EXCEPT ![b] = [quote |-> quote, status |-> "pending",
                                                   stamps |-> {}, reference |-> reference]]
      BY <1>2, CommitCreateEffect
    <2>2. [quote |-> quote, status |-> "pending", stamps |-> {}, reference |-> reference] \in Row
      BY DEF Row, Statuses
    <2>3. bookings'[b] # NoBooking /\ bookings'[b].reference = reference
      BY <2>1, <2>2, NullsAssumption DEF TypeOK
    <2>4. \A c \in Bookings \ {b} : bookings'[c] = bookings[c]
      BY <2>1 DEF TypeOK
    <2> QED BY <2>1, <2>3, <2>4 DEF Open
  <1>3. ASSUME \/ UNCHANGED ledger
               \/ \E r \in Requests : CommitStatus(r) \/ CommitEdit(r)
        PROVE  Open' = Open
    <2>1. ASSUME NEW b \in Bookings, bookings[b] = NoBooking PROVE bookings'[b] = NoBooking
      <3>1. CASE UNCHANGED ledger
        BY <2>1, <3>1 DEF ledger
      <3>2. ASSUME NEW r \in Requests, CommitStatus(r) PROVE bookings'[b] = NoBooking
        BY <2>1, <3>2, CommitStatusEffect, NullsAssumption
      <3>3. ASSUME NEW r \in Requests, CommitEdit(r) PROVE bookings'[b] = NoBooking
        BY <2>1, <3>3, CommitEditEffect
      <3> QED BY <1>3, <3>1, <3>2, <3>3
    <2> QED BY <1>1, <2>1 DEF Open
  <1>4. References = { bookings[b].reference : b \in Open }
        /\ References' = { bookings'[b].reference : b \in Open' }
    BY DEF References, Open
  <1>5. CASE \/ UNCHANGED ledger
             \/ \E r \in Requests : CommitStatus(r) \/ CommitEdit(r)
    BY <1>1, <1>3, <1>4, <1>5
  <1>6. ASSUME NEW r \in Requests, NEW b \in Bookings, CommitCreate(r, b)
        PROVE  References' = References \cup {requests[r].reference}
    BY <1>1, <1>2, <1>4, <1>6
  <1> QED BY <1>1, <1>2, <1>5, <1>6, LedgerWriters

LEMMA SequenceStep == TypeOK /\ RowsExist /\ SequenceInv /\ [Next]_vars => SequenceInv'
PROOF
  <1> SUFFICES ASSUME TypeOK, RowsExist, SequenceInv, [Next]_vars PROVE SequenceInv'
    OBVIOUS
  <1>1. PICK last \in 0..(RefLimit + 1) : Sequence(last)
    BY DEF SequenceInv
  <1>2. last \in Nat /\ RefLimit \in Nat
    BY BoundsAssumption
  <1>3. ASSUME NEW r \in Requests, requests'[r].pc = "numbered"
        PROVE  /\ requests'[r].reference \in 1..(last + 1)
               /\ requests'[r].reference <= RefLimit + 1
    <2>1. CASE requests'[r] = requests[r]
      BY <1>1, <1>3, <2>1 DEF Sequence
    <2>2. CASE requests'[r] # requests[r]
      <3>1. PICK n \in LastReferences :
              requests'[r] = [pc |-> "numbered", quote |-> requests[r].quote, reference |-> n + 1]
        BY <1>3, <2>2, Numbering DEF NextReference, Step, TypeOK
      <3>2. n \in Nat /\ n + 1 \in 1..(last + 1) /\ n <= RefLimit
        BY <1>1, LastOfSequence DEF Sequence
      <3> QED BY <1>2, <3>1, <3>2
    <2> QED BY <2>1, <2>2
  <1>4. CASE /\ References' = References /\ Open' = Open
             /\ \A b \in Open : bookings'[b].reference = bookings[b].reference
    BY <1>1, <1>3, <1>4 DEF SequenceInv, Sequence
  <1>5. ASSUME NEW r \in Requests, NEW b \in Bookings, CommitCreate(r, b),
               Open' = Open \cup {b}, b \notin Open,
               bookings'[b].reference = requests[r].reference,
               \A c \in Open : bookings'[c].reference = bookings[c].reference,
               References' = References \cup {requests[r].reference}
        PROVE  SequenceInv'
    <2>1. /\ requests[r].pc = "numbered" /\ requests[r].reference \notin References
          /\ References = 1..last
      BY <1>1, <1>5 DEF CommitCreate, Sequence
    <2>2. requests[r].reference \in 1..(last + 1) /\ requests[r].reference <= RefLimit + 1
      BY <1>1, <2>1 DEF Sequence
    <2>3. requests[r].reference = last + 1 /\ last + 1 \in 0..(RefLimit + 1)
      BY <1>2, <2>1, <2>2
    <2>4. References' = 1..(last + 1)
      BY <1>2, <1>5, <2>1, <2>3
    <2>5. Sequence(last + 1)'
      <3>1. \A n \in 1..(last + 1) : n \in 1..(last + 1 + 1)
        BY <1>2
      <3> QED BY <1>3, <2>4, <3>1 DEF Sequence
    <2>6. \A c \in Open : bookings[c].reference \in References
      BY DEF Open, References
    <2>7. \A c \in Open : bookings'[c].reference # bookings'[b].reference
      BY <1>5, <2>1, <2>6
    <2>8. \A c, d \in Open' : c # d => bookings'[c].reference # bookings'[d].reference
      BY <1>5, <2>7 DEF SequenceInv
    <2> QED BY <2>3, <2>5, <2>8 DEF SequenceInv
  <1> QED BY <1>4, <1>5, ReferencesAfter

\* However creates race, the references are 1, 2, 3 ... without a gap or a repetition, and end
\* with the first one that is longer than the padding.
THEOREM ReferencesAreInSequence == Spec => []ReferencesInSequence
PROOF
  <1>1. Init => SequenceInv
    <2> SUFFICES ASSUME Init PROVE SequenceInv
      OBVIOUS
    <2>1. Open = {} /\ References = {}
      BY DEF Init, Open, References
    <2>2. Sequence(0) /\ 0 \in 0..(RefLimit + 1)
      BY <2>1, BoundsAssumption DEF Init, Idle, Sequence
    <2> QED BY <2>1, <2>2 DEF SequenceInv
  <1>2. SequenceInv => ReferencesInSequence
    BY DEF SequenceInv, Sequence, ReferencesInSequence
  <1> QED BY <1>1, <1>2, SequenceStep, TypeCorrect, PTL DEF Spec

-----------------------------------------------------------------------------
(* When requests on one booking do not overlap *)

\* A step leaves alone the booking of a request that is still at work on it, if
\* no other request is.
LEMMA AloneOnBooking ==
  ASSUME TypeOK, RowsExist, [Next]_vars, NEW r \in Requests, NEW b \in Bookings,
         Touches(requests[r], b), Touches(requests'[r], b),
         \A other \in Requests \ {r} : ~Touches(requests[other], b)
  PROVE  bookings'[b] = bookings[b] /\ lines'[b] = lines[b]
PROOF
  <1>1. CASE UNCHANGED ledger
    BY <1>1 DEF ledger
  <1>2. ASSUME NEW q \in Requests, NEW c \in Bookings, CommitCreate(q, c)
        PROVE  bookings'[b] = bookings[b] /\ lines'[b] = lines[b]
    <2>1. c # b
      BY <1>2, NewRowUntouched
    <2> QED BY <1>2, <2>1, CommitCreateEffect DEF TypeOK
  <1>3. ASSUME NEW q \in Requests, requests'[q] = Idle
        PROVE  q # r
    BY <1>3 DEF Touches, Idle
  <1>4. ASSUME NEW q \in Requests, CommitStatus(q)
        PROVE  bookings'[b] = bookings[b] /\ lines'[b] = lines[b]
    <2>1. /\ Touches(requests[q], requests[q].booking)
          /\ requests' = [requests EXCEPT ![q] = Idle]
          /\ \A c \in Bookings : c # requests[q].booking => bookings'[c] = bookings[c]
          /\ lines' = lines
      BY <1>4, CommitStatusEffect
    <2>2. q # r
      BY <1>3, <2>1 DEF TypeOK
    <2> QED BY <2>1, <2>2
  <1>5. ASSUME NEW q \in Requests, CommitEdit(q)
        PROVE  bookings'[b] = bookings[b] /\ lines'[b] = lines[b]
    <2>1. /\ Touches(requests[q], requests[q].booking)
          /\ requests' = [requests EXCEPT ![q] = Idle]
          /\ \A c \in Bookings : c # requests[q].booking => lines'[c] = lines[c]
          /\ bookings' = bookings
      BY <1>5, CommitEditEffect
    <2>2. q # r
      BY <1>3, <2>1 DEF TypeOK
    <2> QED BY <2>1, <2>2
  <1> QED BY <1>1, <1>2, <1>4, <1>5, LedgerWriters

\* A request alone on its booking stays alone, and what it read stays true: the
\* others may not start on the booking and so may not commit to it.
LEMMA CurrentStep ==
  TypeOK /\ RequestKnowledge /\ ReadingIsCurrent /\ [Next]_vars => ReadingIsCurrent'
PROOF
  <1> DEFINE Current(q, b) ==
        /\ q.pc = "statusChecked" => q.from = bookings[b].status
        /\ q.pc # "statusChecked" => bookings[b].status \in Editable
        /\ q.pc \in {"removeChecked", "removeSummed"} => q.item \in lines[b]
        /\ q.pc = "addSummed" => q.item \notin lines[b] /\ q.seen = lines[b] \cup {q.item}
        /\ q.pc = "removeSummed" => q.seen = lines[b] \ {q.item}
  <1> SUFFICES ASSUME TypeOK, RequestKnowledge, ReadingIsCurrent, [Next]_vars, Exclusive,
                      NEW r \in Requests, NEW b \in Bookings, Touches(requests'[r], b)
               PROVE  /\ \A other \in Requests \ {r} : ~Touches(requests'[other], b)
                      /\ Current(requests[r], b)'
    BY DEF ReadingIsCurrent, Touches
  <1> RowsExist
    BY DEF RequestKnowledge
  <1>1. Touches(requests[r], b) =>
          /\ \A other \in Requests \ {r} : ~Touches(requests[other], b)
          /\ Current(requests[r], b)
    BY DEF ReadingIsCurrent
  <1>2. ASSUME NEW q \in Requests, MayStart(q, b)
        PROVE  \A other \in Requests : ~Touches(requests[other], b)
    BY <1>2 DEF MayStart
  <1>3. ASSUME NEW value, Step(r, value)
        PROVE  /\ requests'[r] = value
               /\ \A other \in Requests \ {r} : requests'[other] = requests[other]
    BY <1>3 DEF Step, TypeOK
  <1> HIDE DEF Current
  <1>4. CASE requests'[r] = requests[r]
    <2>1. Touches(requests[r], b)
      BY <1>4
    <2>2. bookings'[b] = bookings[b] /\ lines'[b] = lines[b]
      BY <1>1, <2>1, AloneOnBooking
    <2>3. ASSUME NEW other \in Requests \ {r}, Touches(requests'[other], b) PROVE FALSE
      <3>1. ~Touches(requests[other], b)
        BY <1>1, <2>1
      <3>2. MayStart(other, b)
        BY <2>3, <3>1, RequestReads DEF CheckStatus, CheckAdd, CheckRemove
      <3> QED BY <1>2, <2>1, <3>2
    <2>4. Current(requests[r], b)'
      BY <1>1, <1>4, <2>1, <2>2 DEF Current
    <2> QED BY <2>3, <2>4
  <1>5. ASSUME NEW actor \in Actors, NEW to \in Statuses, CheckStatus(r, b, actor, to)
        PROVE  /\ \A other \in Requests \ {r} : ~Touches(requests'[other], b)
               /\ Current(requests[r], b)'
    <2> DEFINE read == [pc |-> "statusChecked", actor |-> actor, booking |-> b,
                        from |-> bookings[b].status, to |-> to]
    <2>1. MayStart(r, b) /\ Step(r, read) /\ UNCHANGED ledger
      BY <1>5 DEF CheckStatus
    <2>2. read.pc = "statusChecked" /\ read.from = bookings[b].status
      OBVIOUS
    <2> HIDE DEF read
    <2> QED BY <1>2, <1>3, <2>1, <2>2 DEF Current, ledger
  <1>6. CASE CheckAdd(r, b)
    <2> DEFINE read == [pc |-> "addChecked", booking |-> b]
    <2>1. MayStart(r, b) /\ Step(r, read) /\ UNCHANGED ledger /\ MoneyIsEditable(b)
      BY <1>6 DEF CheckAdd
    <2>2. read.pc = "addChecked"
      OBVIOUS
    <2> HIDE DEF read
    <2> QED BY <1>2, <1>3, <2>1, <2>2 DEF Current, ledger, MoneyIsEditable
  <1>7. ASSUME NEW item \in lines[b], CheckRemove(r, b, item)
        PROVE  /\ \A other \in Requests \ {r} : ~Touches(requests'[other], b)
               /\ Current(requests[r], b)'
    <2> DEFINE read == [pc |-> "removeChecked", booking |-> b, item |-> item]
    <2>1. MayStart(r, b) /\ Step(r, read) /\ UNCHANGED ledger /\ MoneyIsEditable(b)
      BY <1>7 DEF CheckRemove
    <2>2. read.pc = "removeChecked" /\ read.item = item
      OBVIOUS
    <2> HIDE DEF read
    <2> QED BY <1>2, <1>3, <2>1, <2>2 DEF Current, ledger, MoneyIsEditable
  <1>8. CASE AddAndSum(r) /\ Touches(requests[r], b)
    <2>1. PICK id \in LineIds, amount \in Extras :
            /\ FreshLine(id)
            /\ Step(r, [pc |-> "addSummed", booking |-> requests[r].booking,
                        item |-> [id |-> id, kind |-> "extra", amount |-> amount],
                        seen |-> lines[requests[r].booking]
                                   \cup {[id |-> id, kind |-> "extra", amount |-> amount]}])
      BY <1>8 DEF AddAndSum
    <2> DEFINE item == [id |-> id, kind |-> "extra", amount |-> amount]
               read == [pc |-> "addSummed", booking |-> requests[r].booking, item |-> item,
                        seen |-> lines[requests[r].booking] \cup {item}]
    <2>2. requests[r].booking = b /\ requests[r].pc = "addChecked" /\ UNCHANGED ledger
      BY <1>8 DEF Touches, AddAndSum
    <2>3. item \notin lines[b]
      BY <2>1 DEF FreshLine
    <2>4. read.pc = "addSummed" /\ read.item = item /\ read.seen = lines[b] \cup {item}
      BY <2>2
    <2>5. bookings[b].status \in Editable
      BY <1>1, <1>8, <2>2 DEF Current
    <2>6. Step(r, read)
      BY <2>1
    <2> HIDE DEF read, item
    <2> QED BY <1>1, <1>3, <1>8, <2>2, <2>3, <2>4, <2>5, <2>6 DEF Current, ledger
  <1>9. CASE RemoveAndSum(r) /\ Touches(requests[r], b)
    <2> DEFINE q == requests[r]
               read == [pc |-> "removeSummed", booking |-> q.booking, item |-> q.item,
                        seen |-> lines[q.booking] \ {q.item}]
    <2>1. Step(r, read) /\ q.booking = b /\ q.pc = "removeChecked" /\ UNCHANGED ledger
      BY <1>9 DEF RemoveAndSum, Touches
    <2>2. read.pc = "removeSummed" /\ read.item = q.item /\ read.seen = lines[b] \ {q.item}
      BY <2>1
    <2>3. bookings[b].status \in Editable /\ q.item \in lines[b]
      BY <1>1, <1>9, <2>1 DEF Current
    <2> HIDE DEF read
    <2> QED BY <1>1, <1>3, <1>9, <2>1, <2>2, <2>3 DEF Current, ledger
  <1> QED BY <1>4, <1>5, <1>6, <1>7, <1>8, <1>9, RequestReads

\* As long as requests on one booking do not overlap, what a request has read is
\* what the booking is when it writes.
THEOREM ReadingsCurrent == Spec => []ReadingIsCurrent
PROOF
  <1>1. Init => ReadingIsCurrent
    BY DEF Init, ReadingIsCurrent, Touches, Idle
  <1>2. TypeOK /\ RequestKnowledge /\ ReadingIsCurrent /\ [Next]_vars => ReadingIsCurrent'
    BY CurrentStep
  <1> QED BY <1>1, <1>2, TypeCorrect, MilestonesCorrect, PTL DEF Spec

\* Alone on its booking, a request that commits a status moves the booking along
\* the transition table, and one that commits an edit finds the money editable
\* and has summed the lines it leaves.
LEMMA CommitsAreCurrent ==
  ASSUME TypeOK, RequestKnowledge, ReadingIsCurrent, Exclusive, NEW r \in Requests
  PROVE  LET q == requests[r]
             b == q.booking
         IN /\ CommitStatus(r) =>
                 CanTransition(bookings[b].status, q.to, ActorType(q.actor))
            /\ CommitEdit(r) =>
                 /\ bookings[b].status \in Editable
                 /\ lines'[b] = q.seen
                 /\ q.pc = "addSummed" => q.item \notin lines[b] /\ q.seen = lines[b] \cup {q.item}
                 /\ q.pc # "addSummed" => q.item \in lines[b] /\ q.seen = lines[b] \ {q.item}
PROOF
  <1> RowsExist
    BY DEF RequestKnowledge
  <1> DEFINE q == requests[r]
             b == q.booking
  <1>1. ASSUME CommitStatus(r)
        PROVE  CanTransition(bookings[b].status, q.to, ActorType(q.actor))
    <2>1. Touches(q, b) /\ b \in Bookings
      BY <1>1, CommitStatusEffect
    <2>2. q.from = bookings[b].status
      BY <1>1, <2>1 DEF ReadingIsCurrent, CommitStatus
    <2>3. CanTransition(q.from, q.to, ActorType(q.actor))
      BY <1>1, <2>1 DEF RequestKnowledge, CommitStatus
    <2> QED BY <2>2, <2>3
  <1>2. ASSUME CommitEdit(r)
        PROVE  /\ bookings[b].status \in Editable
               /\ lines'[b] = q.seen
               /\ q.pc = "addSummed" => q.item \notin lines[b] /\ q.seen = lines[b] \cup {q.item}
               /\ q.pc # "addSummed" => q.item \in lines[b] /\ q.seen = lines[b] \ {q.item}
    <2>1. /\ Touches(q, b) /\ b \in Bookings
          /\ lines' = [lines EXCEPT ![b] = IF q.pc = "addSummed" THEN lines[b] \cup {q.item}
                                                                 ELSE lines[b] \ {q.item}]
      BY <1>2, CommitEditEffect
    <2>2. q.pc \in {"addSummed", "removeSummed"}
      BY <1>2 DEF CommitEdit
    <2>3. /\ bookings[b].status \in Editable
          /\ q.pc = "removeSummed" => q.item \in lines[b]
          /\ q.pc = "addSummed" => q.item \notin lines[b] /\ q.seen = lines[b] \cup {q.item}
          /\ q.pc = "removeSummed" => q.seen = lines[b] \ {q.item}
      BY <2>1, <2>2 DEF ReadingIsCurrent
    <2>4. lines'[b] = q.seen
      BY <2>1, <2>2, <2>3 DEF TypeOK
    <2> QED BY <2>2, <2>3, <2>4
  <1> QED BY <1>1, <1>2

\* Without overlap, the stored total of every booking is the sum of its lines.
THEOREM TotalsAddUp ==
  ASSUME Exclusive
  PROVE  Spec => []TotalIsSum
PROOF
  <1>1. Init => TotalIsSum
    BY DEF Init, TotalIsSum, Open
  <1>2. TypeOK /\ RequestKnowledge /\ ReadingIsCurrent /\ TotalIsSum /\ [Next]_vars => TotalIsSum'
    <2> SUFFICES ASSUME TypeOK, RequestKnowledge, ReadingIsCurrent, TotalIsSum, [Next]_vars,
                        NEW b \in Bookings, bookings'[b] # NoBooking
                 PROVE  totals'[b] = TotalOf(lines'[b])
      BY DEF TotalIsSum, Open
    <2> RowsExist
      BY DEF RequestKnowledge
    <2>1. bookings[b] # NoBooking => totals[b] = TotalOf(lines[b])
      BY DEF TotalIsSum, Open
    <2>2. ASSUME NEW r \in Requests, CommitCreate(r, b)
          PROVE  totals'[b] = TotalOf(lines'[b])
      <3>1. PICK id \in LineIds :
              /\ lines' = [lines EXCEPT ![b] = BaseLines(id, requests[r].quote)]
              /\ totals' = [totals EXCEPT ![b] = TotalOf(BaseLines(id, requests[r].quote))]
        BY <2>2 DEF CommitCreate
      <3> QED BY <3>1 DEF TypeOK
    <2>3. ASSUME NEW r \in Requests, CommitStatus(r), requests[r].booking = b
          PROVE  totals'[b] = TotalOf(lines'[b])
      <3>1. lines' = lines /\ totals' = totals /\ bookings[b] \in Row
        BY <2>3, CommitStatusEffect
      <3> QED BY <2>1, <3>1, NullsAssumption
    <2>4. ASSUME NEW r \in Requests, CommitEdit(r), requests[r].booking = b
          PROVE  totals'[b] = TotalOf(lines'[b])
      <3>1. totals' = [totals EXCEPT ![b] = TotalOf(requests[r].seen)]
        BY <2>4, CommitEditEffect
      <3>2. lines'[b] = requests[r].seen
        BY <2>4, CommitsAreCurrent
      <3> QED BY <3>1, <3>2 DEF TypeOK
    <2> QED BY <2>1, <2>2, <2>3, <2>4, LedgerCases
  <1> QED BY <1>1, <1>2, TypeCorrect, MilestonesCorrect, ReadingsCurrent, PTL DEF Spec

\* Without overlap, no booking leaves a terminal status.
THEOREM TerminalStatusesStay ==
  ASSUME Exclusive
  PROVE  Spec => TerminalIsFinal
PROOF
  <1>1. TypeOK /\ RequestKnowledge /\ ReadingIsCurrent /\ [Next]_vars =>
          [\A b \in Open : bookings[b].status \in Terminal
              => bookings'[b].status = bookings[b].status]_vars
    <2> SUFFICES ASSUME TypeOK, RequestKnowledge, ReadingIsCurrent, [Next]_vars,
                        NEW b \in Bookings, bookings[b] # NoBooking,
                        bookings[b].status \in Terminal
                 PROVE  bookings'[b].status = bookings[b].status
      BY DEF Open
    <2> RowsExist
      BY DEF RequestKnowledge
    <2>1. bookings'[b] # NoBooking
      BY RowsPersist
    <2>2. ASSUME NEW r \in Requests, CommitCreate(r, b) PROVE FALSE
      BY <2>2 DEF CommitCreate
    <2>3. ASSUME NEW r \in Requests, CommitStatus(r), requests[r].booking = b PROVE FALSE
      <3>1. CanTransition(bookings[b].status, requests[r].to, ActorType(requests[r].actor))
        BY <2>3, CommitsAreCurrent
      <3> QED BY <3>1 DEF CanTransition, AllowedTransitions, Terminal
    <2>4. ASSUME NEW r \in Requests, CommitEdit(r) PROVE bookings' = bookings
      BY <2>4 DEF CommitEdit
    <2> QED BY <2>1, <2>2, <2>3, <2>4, LedgerCases
  <1> QED BY <1>1, TypeCorrect, MilestonesCorrect, ReadingsCurrent, PTL DEF Spec, TerminalIsFinal

\* Without overlap, nothing moves the money of an invoiced booking.
THEOREM InvoicesStand ==
  ASSUME Exclusive
  PROVE  Spec => InvoicedMoneyIsFrozen
PROOF
  <1>1. TypeOK /\ RequestKnowledge /\ ReadingIsCurrent /\ [Next]_vars =>
          [\A b \in Open : bookings[b].status = "invoiced"
              => totals'[b] = totals[b] /\ lines'[b] = lines[b]]_vars
    <2> SUFFICES ASSUME TypeOK, RequestKnowledge, ReadingIsCurrent, [Next]_vars,
                        NEW b \in Bookings, bookings[b] # NoBooking,
                        bookings[b].status = "invoiced"
                 PROVE  totals'[b] = totals[b] /\ lines'[b] = lines[b]
      BY DEF Open
    <2> RowsExist
      BY DEF RequestKnowledge
    <2>1. bookings'[b] # NoBooking
      BY RowsPersist
    <2>2. ASSUME NEW r \in Requests, CommitCreate(r, b) PROVE FALSE
      BY <2>2 DEF CommitCreate
    <2>3. ASSUME NEW r \in Requests, CommitStatus(r) PROVE totals' = totals /\ lines' = lines
      BY <2>3 DEF CommitStatus
    <2>4. ASSUME NEW r \in Requests, CommitEdit(r), requests[r].booking = b PROVE FALSE
      BY <2>4, CommitsAreCurrent DEF Editable
    <2> QED BY <2>1, <2>2, <2>3, <2>4, LedgerCases
  <1> QED BY <1>1, TypeCorrect, MilestonesCorrect, ReadingsCurrent, PTL
          DEF Spec, InvoicedMoneyIsFrozen

\* The stage the ledger sees a booking in.
Stage == [b \in Bookings |-> IF bookings[b] = NoBooking THEN NoBooking ELSE bookings[b].status]

\* The stage of one booking, before and after a step.
LEMMA StageOf ==
  ASSUME NEW b \in Bookings
  PROVE  /\ Stage[b] = IF bookings[b] = NoBooking THEN NoBooking ELSE bookings[b].status
         /\ Stage'[b] = IF bookings'[b] = NoBooking THEN NoBooking ELSE bookings'[b].status
  BY DEF Stage

\* Without overlap, bookings implement the ledger: each commit is one of its
\* steps, everything else is invisible to it.
THEOREM LedgerImplemented ==
  ASSUME Exclusive
  PROVE  Spec => ImplementsLedger
PROOF
  <1>1. Init => Ledger!LedgerInit
    BY DEF Init, Ledger!LedgerInit, TotalOf
  <1>2. TypeOK /\ RequestKnowledge /\ ReadingIsCurrent /\ [Next]_vars
          => [Ledger!LedgerNext]_(Ledger!bookVars)
    <2> SUFFICES ASSUME TypeOK, RequestKnowledge, ReadingIsCurrent, [Next]_vars
                 PROVE  Ledger!LedgerNext \/ UNCHANGED <<Stage, lines, totals>>
      BY DEF Ledger!bookVars, Stage
    <2> RowsExist
      BY DEF RequestKnowledge
    <2>1. CASE UNCHANGED ledger
      BY <2>1 DEF ledger, Stage
    <2>2. ASSUME NEW r \in Requests, NEW b \in Bookings, CommitCreate(r, b)
          PROVE  Ledger!OpenBooking(b)
      <3> DEFINE quote == requests[r].quote
                 row == [quote |-> quote, status |-> "pending", stamps |-> {},
                         reference |-> requests[r].reference]
      <3>1. requests[r] \in NumberedRequest
        BY <2>2, RequestKinds DEF CommitCreate, TypeOK
      <3>2. quote \in Quote /\ requests[r].reference \in Nat
        BY <3>1 DEF NumberedRequest
      <3>3. row \in Row /\ row.status = "pending"
        BY <3>2 DEF Row, Statuses
      <3>4. bookings[b] = NoBooking /\ bookings' = [bookings EXCEPT ![b] = row]
        BY <2>2 DEF CommitCreate
      <3>5. PICK id \in LineIds :
              /\ lines' = [lines EXCEPT ![b] = BaseLines(id, quote)]
              /\ totals' = [totals EXCEPT ![b] = TotalOf(BaseLines(id, quote))]
        BY <2>2 DEF CommitCreate
      <3>6. BaseLines(id, quote) = {} \/ \E item \in LineItem : BaseLines(id, quote) = {item}
        BY <3>2, BaseLinesType DEF BaseLines
      <3> HIDE DEF row, quote
      <3>7. bookings'[b] = row /\ \A c \in Bookings : c # b => bookings'[c] = bookings[c]
        BY <3>4 DEF TypeOK
      <3>8. Stage[b] = NoBooking
        BY <3>4, StageOf
      <3>9. Stage' = [Stage EXCEPT ![b] = "pending"]
        BY <3>3, <3>7, NullsAssumption DEF Stage
      <3> QED BY <3>5, <3>6, <3>8, <3>9 DEF Ledger!OpenBooking, Ledger!Charge, Stage
    <2>3. ASSUME NEW r \in Requests, CommitStatus(r)
          PROVE  \E b \in Bookings, to \in DOMAIN Ledger!LifeCycle : Ledger!Move(b, to)
      <3> DEFINE q == requests[r]
                 b == q.booking
      <3>1. /\ b \in Bookings /\ bookings[b] \in Row /\ q.to \in Stamped
            /\ bookings'[b] \in Row /\ bookings'[b].status = q.to
            /\ \A c \in Bookings : c # b => bookings'[c] = bookings[c]
            /\ UNCHANGED <<lines, totals>>
        BY <2>3, CommitStatusEffect
      <3>2. CanTransition(bookings[b].status, q.to, ActorType(q.actor))
        BY <2>3, CommitsAreCurrent
      <3> HIDE DEF q, b
      <3>3. Stage[b] = bookings[b].status /\ Stage[b] # NoBooking
        BY <3>1, StageOf, NullsAssumption DEF Row
      <3>4. Stage' = [Stage EXCEPT ![b] = q.to]
        BY <3>1, NullsAssumption DEF Stage
      <3>5. q.to \in DOMAIN Ledger!LifeCycle /\ q.to \in Ledger!LifeCycle[Stage[b]]
        BY <3>2, <3>3 DEF Ledger!LifeCycle, CanTransition, AllowedTransitions
      <3> QED BY <3>1, <3>3, <3>4, <3>5 DEF Ledger!Move, Stage
    <2>4. ASSUME NEW r \in Requests, CommitEdit(r)
          PROVE  \E b \in Bookings : Ledger!ChangeCharges(b)
      <3> DEFINE q == requests[r]
                 b == q.booking
      <3>1. /\ q \in SummedRequest /\ b \in Bookings /\ bookings[b] \in Row
            /\ lines' = [lines EXCEPT ![b] = IF q.pc = "addSummed" THEN lines[b] \cup {q.item}
                                                                   ELSE lines[b] \ {q.item}]
            /\ totals' = [totals EXCEPT ![b] = TotalOf(q.seen)]
            /\ UNCHANGED bookings
        BY <2>4, CommitEditEffect
      <3>2. /\ bookings[b].status \in Editable
            /\ q.pc = "addSummed" => q.item \notin lines[b] /\ q.seen = lines[b] \cup {q.item}
            /\ q.pc # "addSummed" => q.item \in lines[b] /\ q.seen = lines[b] \ {q.item}
        BY <2>4, CommitsAreCurrent
      <3>3. q.item \in LineItem
        BY <3>1 DEF SummedRequest
      <3> HIDE DEF q, b
      <3>4. Stage[b] \in Ledger!OpenForCharges /\ UNCHANGED Stage
        BY <3>1, <3>2, StageOf, NullsAssumption DEF Ledger!OpenForCharges, Editable, Stage
      <3>5. CASE q.pc = "addSummed"
        <4>1. Ledger!AddCharge(b, q.item)
          BY <3>1, <3>2, <3>5 DEF Ledger!AddCharge, Ledger!Charge
        <4> QED BY <3>1, <3>3, <3>4, <4>1 DEF Ledger!ChangeCharges, Stage
      <3>6. CASE q.pc # "addSummed"
        <4>1. Ledger!DropCharge(b, q.item)
          BY <3>1, <3>2, <3>6 DEF Ledger!DropCharge, Ledger!Charge
        <4> QED BY <3>1, <3>3, <3>4, <4>1 DEF Ledger!ChangeCharges, Stage
      <3> QED BY <3>5, <3>6
    <2> QED BY <2>1, <2>2, <2>3, <2>4, LedgerWriters DEF Ledger!LedgerNext
  <1> QED BY <1>1, <1>2, TypeCorrect, MilestonesCorrect, ReadingsCurrent, PTL
          DEF Spec, ImplementsLedger, Ledger!LedgerSpec

-----------------------------------------------------------------------------
(* The history is whole *)

\* The entries of a history about an edit of one line.
Edits(log, type, item) == { i \in DOMAIN log : log[i].type = type /\ log[i].item = item }

\* One more entry is one more of its kind, and no more of any other.
LEMMA EditsCount ==
  ASSUME NEW log \in Seq(LogEntry), NEW entry, NEW type, NEW item
  PROVE  /\ Cardinality(Edits(log, type, item)) \in Nat
         /\ Cardinality(Edits(Append(log, entry), type, item))
              = Cardinality(Edits(log, type, item))
                + (IF entry.type = type /\ entry.item = item THEN 1 ELSE 0)
PROOF
  <1> DEFINE n == Len(log)
             old == Edits(log, type, item)
             new == Edits(Append(log, entry), type, item)
  <1>1. n \in Nat /\ DOMAIN log = 1..n
    OBVIOUS
  <1>2. /\ DOMAIN Append(log, entry) = 1..(n + 1)
        /\ Append(log, entry)[n + 1] = entry
        /\ \A i \in 1..n : Append(log, entry)[i] = log[i]
    BY <1>1
  <1>3. old \in SUBSET (1..n) /\ n + 1 \notin old
    BY <1>1 DEF Edits
  <1>4. IsFiniteSet(old)
    <2>1. IsFiniteSet(1..n)
      BY <1>1, FS_Interval
    <2> QED BY <1>3, <2>1, FS_Subset
  <1>5. Cardinality(old) \in Nat
    BY <1>4, FS_CardinalityType
  <1>6. \A i \in 1..(n + 1) : i \in 1..n \/ i = n + 1
    BY <1>1
  <1>7. n + 1 \in 1..(n + 1) /\ 1..n \subseteq 1..(n + 1) /\ n + 1 \notin 1..n
    BY <1>1
  <1>8. CASE entry.type = type /\ entry.item = item
    <2>1. new = old \cup {n + 1}
      <3> HIDE DEF n
      <3> QED BY <1>1, <1>2, <1>6, <1>7, <1>8 DEF Edits
    <2>2. Cardinality(old \cup {n + 1}) = Cardinality(old) + 1
      BY <1>3, <1>4, FS_AddElement
    <2> QED BY <1>5, <1>8, <2>1, <2>2
  <1>9. CASE ~(entry.type = type /\ entry.item = item)
    <2>1. new = old
      <3> HIDE DEF n
      <3> QED BY <1>1, <1>2, <1>6, <1>7, <1>9 DEF Edits
    <2> QED BY <1>5, <1>9, <2>1
  <1> QED BY <1>8, <1>9

\* What the history of one booking is: its edits are of extra lines, each added once
\* more than removed exactly while it is on the booking, and its moves are linked.
OfExtras(log) ==
  \A i \in DOMAIN log : ~IsStatusEntry(log[i]) => log[i].item \in LineItem /\ log[i].item.kind = "extra"

Balanced(log, held) ==
  \A item \in LineItem : item.kind = "extra" =>
    Cardinality(Edits(log, "line_item_added", item))
      = Cardinality(Edits(log, "line_item_removed", item)) + (IF item \in held THEN 1 ELSE 0)

Linked(log) ==
  \A i, j \in DOMAIN log :
    /\ i < j
    /\ IsStatusEntry(log[i])
    /\ log[j].type = "status_changed"
    /\ \A k \in (i + 1)..(j - 1) : ~IsStatusEntry(log[k])
    => log[j].from = log[i].to

WholeInv ==
  \A b \in Open : OfExtras(logs[b]) /\ Balanced(logs[b], lines[b]) /\ Linked(logs[b])

\* A history of which this is true is whole.
LEMMA WholeIsWhole == TypeOK /\ WholeInv => HistoryIsWhole
PROOF
  <1> SUFFICES ASSUME TypeOK, WholeInv PROVE HistoryIsWhole
    OBVIOUS
  <1>1. HistoryIsLinked
    BY DEF HistoryIsLinked, WholeInv, Linked
  <1>2. HistoryAccountsForLines
    <2> SUFFICES ASSUME NEW b \in Open
                 PROVE  LET log == logs[b]
                            edited == { log[i].item : i \in { j \in DOMAIN log : ~IsStatusEntry(log[j]) } }
                        IN /\ \A item \in lines[b] : item.kind = "extra" => item \in edited
                           /\ \A item \in edited :
                                Cardinality(Edits(log, "line_item_added", item))
                                  = Cardinality(Edits(log, "line_item_removed", item))
                                    + (IF item \in lines[b] THEN 1 ELSE 0)
      BY DEF HistoryAccountsForLines, Edits
    <2> PICK log : log = logs[b]
      OBVIOUS
    <2>1. log \in Seq(LogEntry) /\ lines[b] \subseteq LineItem
      BY DEF TypeOK, Open
    <2>2. OfExtras(log) /\ Balanced(log, lines[b])
      BY DEF WholeInv
    <2>3. ASSUME NEW item \in lines[b], item.kind = "extra"
          PROVE  \E i \in DOMAIN log : ~IsStatusEntry(log[i]) /\ log[i].item = item
      <3>1. /\ Cardinality(Edits(log, "line_item_removed", item)) \in Nat
            /\ Cardinality(Edits(log, "line_item_added", item)) \in Nat
        BY <2>1, EditsCount
      <3>2. Cardinality(Edits(log, "line_item_added", item)) # 0
        BY <2>1, <2>2, <2>3, <3>1 DEF Balanced
      <3>3. Edits(log, "line_item_added", item) # {}
        BY <3>2, FS_EmptySet
      <3> QED BY <3>3 DEF Edits, IsStatusEntry
    <2>4. ASSUME NEW i \in DOMAIN log, ~IsStatusEntry(log[i])
          PROVE  LET item == log[i].item
                 IN  Cardinality(Edits(log, "line_item_added", item))
                       = Cardinality(Edits(log, "line_item_removed", item))
                         + (IF item \in lines[b] THEN 1 ELSE 0)
      BY <2>2, <2>4 DEF OfExtras, Balanced
    <2> QED BY <2>3, <2>4
  <1> QED BY <1>1, <1>2 DEF HistoryIsWhole

\* A move and an edit of which the booking knows keep its history whole.
LEMMA WholeMove ==
  ASSUME NEW log \in Seq(LogEntry), NEW held, NEW entry, NEW status,
         OfExtras(log), Balanced(log, held), Linked(log),
         \E i \in DOMAIN log :
           /\ IsStatusEntry(log[i])
           /\ log[i].to = status
           /\ \A j \in DOMAIN log : j > i => ~IsStatusEntry(log[j]),
         entry.type = "status_changed", entry.from = status
  PROVE  LET longer == Append(log, entry)
         IN  OfExtras(longer) /\ Balanced(longer, held) /\ Linked(longer)
PROOF
  <1> DEFINE n == Len(log)
  <1>o. PICK longer : longer = Append(log, entry)
    OBVIOUS
  <1>1. n \in Nat /\ DOMAIN log = 1..n
    OBVIOUS
  <1>2. /\ DOMAIN longer = 1..(n + 1)
        /\ longer[n + 1] = entry
        /\ \A i \in 1..n : longer[i] = log[i]
    BY <1>o, <1>1
  <1> HIDE DEF n
  <1>3. IsStatusEntry(entry)
    BY DEF IsStatusEntry
  <1>4. OfExtras(longer)
    <2> SUFFICES ASSUME NEW i \in 1..(n + 1), ~IsStatusEntry(longer[i])
                 PROVE  longer[i].item \in LineItem /\ longer[i].item.kind = "extra"
      BY <1>2 DEF OfExtras
    <2>1. i \in 1..n
      BY <1>1, <1>2, <1>3
    <2> QED BY <1>1, <1>2, <2>1 DEF OfExtras
  <1>5. Balanced(longer, held)
    <2> SUFFICES ASSUME NEW item \in LineItem, item.kind = "extra"
                 PROVE  Cardinality(Edits(longer, "line_item_added", item))
                          = Cardinality(Edits(longer, "line_item_removed", item))
                            + (IF item \in held THEN 1 ELSE 0)
      BY DEF Balanced
    <2>1. /\ Cardinality(Edits(longer, "line_item_added", item))
               = Cardinality(Edits(log, "line_item_added", item)) + 0
          /\ Cardinality(Edits(longer, "line_item_removed", item))
               = Cardinality(Edits(log, "line_item_removed", item)) + 0
          /\ Cardinality(Edits(log, "line_item_added", item)) \in Nat
          /\ Cardinality(Edits(log, "line_item_removed", item)) \in Nat
      BY <1>o, EditsCount
    <2> QED BY <2>1 DEF Balanced
  <1>6. Linked(longer)
    <2> SUFFICES ASSUME NEW i \in 1..(n + 1), NEW j \in 1..(n + 1), i < j,
                        IsStatusEntry(longer[i]), longer[j].type = "status_changed",
                        \A k \in (i + 1)..(j - 1) : ~IsStatusEntry(longer[k])
                 PROVE  longer[j].from = longer[i].to
      BY <1>2 DEF Linked
    <2>1. i \in 1..n
      BY <1>1
    <2>2. CASE j \in 1..n
      <3>1. \A k \in (i + 1)..(j - 1) : k \in 1..n
        BY <1>1, <2>1, <2>2
      <3>2. \A k \in (i + 1)..(j - 1) : ~IsStatusEntry(log[k])
        BY <1>2, <3>1
      <3>3. IsStatusEntry(log[i]) /\ log[j].type = "status_changed"
        BY <1>2, <2>1, <2>2
      <3>4. log[j].from = log[i].to
        BY <1>1, <2>1, <2>2, <3>2, <3>3 DEF Linked
      <3> QED BY <1>2, <2>1, <2>2, <3>4
    <2>3. CASE j \notin 1..n
      <3>1. j = n + 1
        BY <1>1, <2>3
      <3>2. PICK l \in 1..n : /\ IsStatusEntry(log[l]) /\ log[l].to = status
                              /\ \A m \in 1..n : m > l => ~IsStatusEntry(log[m])
        BY <1>1
      <3>3. IsStatusEntry(log[i]) /\ IsStatusEntry(longer[l])
        BY <1>2, <2>1, <3>2
      <3>4. ~(i > l)
        BY <2>1, <3>2, <3>3
      <3>5. ~(i < l)
        <4>1. l \notin (i + 1)..(j - 1)
          BY <3>3
        <4> QED BY <1>1, <2>1, <3>1, <4>1
      <3>6. i = l
        BY <2>1, <3>4, <3>5
      <3> QED BY <1>2, <2>1, <3>1, <3>2, <3>6
    <2> QED BY <2>2, <2>3
  <1> QED BY <1>o, <1>4, <1>5, <1>6

LEMMA WholeEdit ==
  ASSUME NEW log \in Seq(LogEntry), NEW held, NEW after, NEW entry, NEW edit \in LineItem,
         OfExtras(log), Balanced(log, held), Linked(log),
         edit.kind = "extra", entry.item = edit,
         \/ /\ entry.type = "line_item_added"
            /\ edit \notin held /\ after = held \cup {edit}
         \/ /\ entry.type = "line_item_removed"
            /\ edit \in held /\ after = held \ {edit}
  PROVE  LET longer == Append(log, entry)
         IN  OfExtras(longer) /\ Balanced(longer, after) /\ Linked(longer)
PROOF
  <1> DEFINE n == Len(log)
  <1>o. PICK longer : longer = Append(log, entry)
    OBVIOUS
  <1>1. n \in Nat /\ DOMAIN log = 1..n
    OBVIOUS
  <1>2. /\ DOMAIN longer = 1..(n + 1)
        /\ longer[n + 1] = entry
        /\ \A i \in 1..n : longer[i] = log[i]
    BY <1>o, <1>1
  <1> HIDE DEF n
  <1>3. ~IsStatusEntry(entry) /\ entry.type # "status_changed"
    BY DEF IsStatusEntry
  <1>4. OfExtras(longer)
    <2> SUFFICES ASSUME NEW i \in 1..(n + 1), ~IsStatusEntry(longer[i])
                 PROVE  longer[i].item \in LineItem /\ longer[i].item.kind = "extra"
      BY <1>2 DEF OfExtras
    <2>1. CASE i \in 1..n
      BY <1>1, <1>2, <2>1 DEF OfExtras
    <2>2. CASE i = n + 1
      BY <1>2, <2>2
    <2> QED BY <1>1, <2>1, <2>2
  <1>5. Balanced(longer, after)
    <2> SUFFICES ASSUME NEW item \in LineItem, item.kind = "extra"
                 PROVE  Cardinality(Edits(longer, "line_item_added", item))
                          = Cardinality(Edits(longer, "line_item_removed", item))
                            + (IF item \in after THEN 1 ELSE 0)
      BY DEF Balanced
    <2>1. /\ Cardinality(Edits(longer, "line_item_added", item))
               = Cardinality(Edits(log, "line_item_added", item))
                 + (IF entry.type = "line_item_added" /\ edit = item THEN 1 ELSE 0)
          /\ Cardinality(Edits(longer, "line_item_removed", item))
               = Cardinality(Edits(log, "line_item_removed", item))
                 + (IF entry.type = "line_item_removed" /\ edit = item THEN 1 ELSE 0)
          /\ Cardinality(Edits(log, "line_item_added", item)) \in Nat
          /\ Cardinality(Edits(log, "line_item_removed", item)) \in Nat
      BY <1>o, EditsCount
    <2>2. Cardinality(Edits(log, "line_item_added", item))
            = Cardinality(Edits(log, "line_item_removed", item)) + (IF item \in held THEN 1 ELSE 0)
      BY DEF Balanced
    <2> QED BY <2>1, <2>2
  <1>6. Linked(longer)
    <2> SUFFICES ASSUME NEW i \in 1..(n + 1), NEW j \in 1..(n + 1), i < j,
                        IsStatusEntry(longer[i]), longer[j].type = "status_changed",
                        \A k \in (i + 1)..(j - 1) : ~IsStatusEntry(longer[k])
                 PROVE  longer[j].from = longer[i].to
      BY <1>2 DEF Linked
    <2>1. i \in 1..n /\ j \in 1..n
      BY <1>1, <1>2, <1>3
    <2>2. \A k \in (i + 1)..(j - 1) : k \in 1..n
      BY <1>1, <2>1
    <2>3. \A k \in (i + 1)..(j - 1) : ~IsStatusEntry(log[k])
      BY <1>2, <2>2
    <2>4. IsStatusEntry(log[i]) /\ log[j].type = "status_changed"
      BY <1>2, <2>1
    <2>5. log[j].from = log[i].to
      BY <1>1, <2>1, <2>3, <2>4 DEF Linked
    <2> QED BY <1>2, <2>1, <2>5
  <1> QED BY <1>o, <1>4, <1>5, <1>6

LEMMA WholeStep ==
  ASSUME Exclusive
  PROVE  TypeOK /\ RequestKnowledge /\ ReadingIsCurrent /\ StatusIsLastLogged /\ WholeInv /\ [Next]_vars
           => WholeInv'
PROOF
  <1> SUFFICES ASSUME TypeOK, RequestKnowledge, ReadingIsCurrent, StatusIsLastLogged, WholeInv,
                      [Next]_vars, NEW b \in Bookings, bookings'[b] # NoBooking
               PROVE  OfExtras(logs'[b]) /\ Balanced(logs'[b], lines'[b]) /\ Linked(logs'[b])
    BY DEF WholeInv, Open
  <1> RowsExist
    BY DEF RequestKnowledge
  <1>1. bookings[b] # NoBooking =>
          OfExtras(logs[b]) /\ Balanced(logs[b], lines[b]) /\ Linked(logs[b])
    BY DEF WholeInv, Open
  <1>2. logs[b] \in Seq(LogEntry)
    BY DEF TypeOK
  <1>3. ASSUME NEW r \in Requests, CommitCreate(r, b)
        PROVE  OfExtras(logs'[b]) /\ Balanced(logs'[b], lines'[b]) /\ Linked(logs'[b])
    <2> DEFINE quote == requests[r].quote
    <2>1. PICK id \in LineIds : lines' = [lines EXCEPT ![b] = BaseLines(id, quote)]
      BY <1>3 DEF CommitCreate
    <2>l. logs'[b] = <<[type |-> "created", actor |-> quote.hotel, to |-> "pending"]>>
      BY <1>3 DEF CommitCreate, TypeOK
    <2> PICK log : log = logs'[b]
      OBVIOUS
    <2>2. DOMAIN log = {1} /\ log[1].type = "created"
      BY <2>l
    <2>3. OfExtras(log) /\ Linked(log)
      BY <2>2 DEF OfExtras, Linked, IsStatusEntry
    <2>4. \A type \in {"line_item_added", "line_item_removed"}, item \in LineItem : Edits(log, type, item) = {}
      BY <2>2 DEF Edits
    <2>5. \A item \in lines'[b] : item.kind = "base"
      BY <2>1 DEF BaseLines, TypeOK
    <2>6. Balanced(log, lines'[b])
      <3> SUFFICES ASSUME NEW item \in LineItem, item.kind = "extra"
                   PROVE  Cardinality(Edits(log, "line_item_added", item))
                            = Cardinality(Edits(log, "line_item_removed", item))
                              + (IF item \in lines'[b] THEN 1 ELSE 0)
        BY DEF Balanced
      <3>1. item \notin lines'[b]
        BY <2>5
      <3> QED BY <2>4, <3>1, FS_EmptySet
    <2> QED BY <2>3, <2>6
  <1>4. ASSUME NEW r \in Requests, CommitStatus(r), requests[r].booking = b
        PROVE  OfExtras(logs'[b]) /\ Balanced(logs'[b], lines'[b]) /\ Linked(logs'[b])
    <2> DEFINE q == requests[r]
               entry == [type |-> "status_changed", actor |-> q.actor, from |-> q.from, to |-> q.to]
    <2>1. /\ bookings[b] \in Row /\ Touches(q, b) /\ lines' = lines
          /\ logs' = [logs EXCEPT ![b] = Append(logs[b], entry)]
      BY <1>4, CommitStatusEffect
    <2>2. q.from = bookings[b].status
      BY <1>4, <2>1 DEF ReadingIsCurrent, CommitStatus
    <2>3. bookings[b] # NoBooking
      BY <2>1, NullsAssumption
    <2>4. \E i \in DOMAIN logs[b] :
            /\ IsStatusEntry(logs[b][i])
            /\ logs[b][i].to = bookings[b].status
            /\ \A j \in DOMAIN logs[b] : j > i => ~IsStatusEntry(logs[b][j])
      BY <2>3 DEF StatusIsLastLogged, Open
    <2>5. entry.type = "status_changed" /\ entry.from = bookings[b].status
      BY <2>2
    <2>6. logs'[b] = Append(logs[b], entry) /\ lines'[b] = lines[b]
      BY <2>1 DEF TypeOK
    <2> HIDE DEF entry
    <2> QED BY <1>1, <1>2, <2>3, <2>4, <2>5, <2>6, WholeMove
  <1>5. ASSUME NEW r \in Requests, CommitEdit(r), requests[r].booking = b
        PROVE  OfExtras(logs'[b]) /\ Balanced(logs'[b], lines'[b]) /\ Linked(logs'[b])
    <2> DEFINE q == requests[r]
               entry == [type |-> IF q.pc = "addSummed" THEN "line_item_added" ELSE "line_item_removed",
                         actor |-> Admin, item |-> q.item]
    <2>1. /\ q \in SummedRequest /\ Touches(q, b) /\ bookings[b] \in Row
          /\ logs' = [logs EXCEPT ![b] = Append(logs[b], entry)]
      BY <1>5, CommitEditEffect
    <2>2. /\ lines'[b] = q.seen
          /\ q.pc = "addSummed" => q.item \notin lines[b] /\ q.seen = lines[b] \cup {q.item}
          /\ q.pc # "addSummed" => q.item \in lines[b] /\ q.seen = lines[b] \ {q.item}
      BY <1>5, CommitsAreCurrent
    <2>3. q.item \in LineItem /\ q.item.kind = "extra"
      BY <1>5, <2>1 DEF SummedRequest, RequestKnowledge, CommitEdit
    <2>4. logs'[b] = Append(logs[b], entry)
      BY <2>1 DEF TypeOK
    <2>5. bookings[b] # NoBooking
      BY <2>1, NullsAssumption
    <2>6. /\ entry.item = q.item
          /\ \/ /\ entry.type = "line_item_added"
                /\ q.item \notin lines[b] /\ lines'[b] = lines[b] \cup {q.item}
             \/ /\ entry.type = "line_item_removed"
                /\ q.item \in lines[b] /\ lines'[b] = lines[b] \ {q.item}
      BY <2>2
    <2> HIDE DEF entry, q
    <2> QED BY <1>1, <1>2, <2>3, <2>4, <2>5, <2>6, WholeEdit
  <1> QED BY <1>1, <1>3, <1>4, <1>5, LedgerCases

\* Without overlap, each move in a history starts where the last one ended, and the
\* history accounts for every extra line: added once more than removed exactly while it
\* is on the booking.
THEOREM HistoriesAreWhole ==
  ASSUME Exclusive
  PROVE  Spec => []HistoryIsWhole
PROOF
  <1>1. Init => WholeInv
    BY DEF Init, WholeInv, Open
  <1>2. TypeOK /\ RequestKnowledge /\ ReadingIsCurrent /\ StatusIsLastLogged /\ WholeInv /\ [Next]_vars
          => WholeInv'
    BY WholeStep
  <1>3. TypeOK /\ WholeInv => HistoryIsWhole
    BY WholeIsWhole
  <1> QED BY <1>1, <1>2, <1>3, TypeCorrect, MilestonesCorrect, ReadingsCurrent, StatusLogged, PTL
          DEF Spec

(***************************************************************************)
(* Partners: every step of the two side by side is a step or a stutter of  *)
(* each, so what is proved of each alone holds of the two.                 *)
(***************************************************************************)

AccessFacts == INSTANCE HotelAccessProofs WITH Hotels <- HotelIds, requests <- accessRequests

\* The bookings of the two side by side behave as HotelBookings says, whatever the
\* focus and the bounds on what is worked on.
THEOREM PartnersImplementBookings == PartnersSpec => Spec
PROOF
  <1>1. PartnersInit => Init
    BY DEF PartnersInit
  <1>2. [PartnersNext]_<<focus, vars, accessVars>> => [Next]_vars
    <2> SUFFICES ASSUME [PartnersNext]_<<focus, vars, accessVars>> PROVE [Next]_vars
      OBVIOUS
    <2>1. CASE focus = "bookings" /\ Next
      BY <2>1
    <2>2. CASE \E r \in Requests : CreateStep(r) \/ Abort(r)
      BY <2>2 DEF Next
    <2>3. CASE UNCHANGED vars
      BY <2>3
    <2> QED BY <2>1, <2>2, <2>3 DEF PartnersNext
  <1> QED BY <1>1, <1>2, PTL DEF PartnersSpec, Spec

\* The hotels and their access users behave as HotelAccess says.
THEOREM PartnersImplementAccess == PartnersSpec => Access!Spec
PROOF
  <1>1. PartnersInit => Access!Init
    BY DEF PartnersInit
  <1>2. [PartnersNext]_<<focus, vars, accessVars>> => [Access!Next]_accessVars
    BY DEF PartnersNext
  <1>3. accessVars = Access!vars
    BY DEF accessVars, Access!vars
  <1>4. [Access!Next]_accessVars => [Access!Next]_(Access!vars)
    BY DEF accessVars, Access!vars
  <1> QED BY <1>1, <1>2, <1>4, PTL DEF PartnersSpec, Access!Spec

\* Access and AccessFacts are two instances of one module: they say the same.
LEMMA SameAccess ==
  /\ Access!Spec => AccessFacts!Spec
  /\ AccessFacts!RowsTellTheTruth => RowsTellTheTruth
PROOF
  <1> USE DEF Access!Step, AccessFacts!Step, Access!Fault, AccessFacts!Fault,
              Access!Touches, AccessFacts!Touches, Access!Alone, AccessFacts!Alone,
              Access!MayStart, AccessFacts!MayStart, Access!UserStep, AccessFacts!UserStep,
              Access!tenant, AccessFacts!tenant, Access!partner, AccessFacts!partner,
              Access!flight, AccessFacts!flight, Access!Idle, AccessFacts!Idle, Access!Rows,
              AccessFacts!Rows, Access!Accounts, AccessFacts!Accounts, Access!CanSave,
              AccessFacts!CanSave, Access!FreeNames, AccessFacts!FreeNames, Access!Min,
              AccessFacts!Min, Access!HotelStatuses, AccessFacts!HotelStatuses,
              Access!UserStatuses, AccessFacts!UserStatuses, Access!Hotel,
              AccessFacts!Hotel, Access!User, AccessFacts!User, Access!Account,
              AccessFacts!Account, Access!UserRequest, AccessFacts!UserRequest
  <1>1. Access!Init => AccessFacts!Init
    BY DEF Access!Init, AccessFacts!Init
  <1>2. Access!HotelStep => AccessFacts!HotelStep
    BY DEF Access!CvrIsFree, AccessFacts!CvrIsFree, Access!CreateHotel,
           AccessFacts!CreateHotel, Access!SetTours, AccessFacts!SetTours, Access!Book,
           AccessFacts!Book, Access!HotelStep, AccessFacts!HotelStep
  <1>3. ASSUME NEW r \in Requests, Access!PartnerStep(r) PROVE AccessFacts!PartnerStep(r)
    BY <1>3 DEF Access!CvrIsFree, AccessFacts!CvrIsFree, Access!StartPatch,
                AccessFacts!StartPatch, Access!SavePatch, AccessFacts!SavePatch,
                Access!StartClosing, AccessFacts!StartClosing, Access!GrantsRevoked,
                AccessFacts!GrantsRevoked, Access!HasBookings, AccessFacts!HasBookings,
                Access!CloseHotel, AccessFacts!CloseHotel, Access!PartnerStep,
                AccessFacts!PartnerStep
  <1>4. ASSUME NEW r \in Requests, Access!CreateStep(r) PROVE AccessFacts!CreateStep(r)
    BY <1>4 DEF Access!CvrIsFree, AccessFacts!CvrIsFree, Access!AccountFor,
                AccessFacts!AccountFor, Access!Accepts, AccessFacts!Accepts,
                Access!StartCreate, AccessFacts!StartCreate, Access!Reserve,
                AccessFacts!Reserve, Access!Recorded, AccessFacts!Recorded, Access!Offer,
                AccessFacts!Offer, Access!Rename, AccessFacts!Rename, Access!Deleted,
                AccessFacts!Deleted, Access!Undo, AccessFacts!Undo, Access!CreateStep,
                AccessFacts!CreateStep
  <1>5. ASSUME NEW r \in Requests, Access!AccessStep(r) PROVE AccessFacts!AccessStep(r)
    BY <1>5 DEF Access!CvrIsFree, AccessFacts!CvrIsFree, Access!StartResend,
                AccessFacts!StartResend, Access!StartSwitch, AccessFacts!StartSwitch,
                Access!SwitchedStatus, AccessFacts!SwitchedStatus, Access!Blocking,
                AccessFacts!Blocking, Access!SwitchIdentity, AccessFacts!SwitchIdentity,
                Access!StartRelease, AccessFacts!StartRelease, Access!AccountsOf,
                AccessFacts!AccountsOf, Access!DeleteIdentity, AccessFacts!DeleteIdentity,
                Access!DropUser, AccessFacts!DropUser, Access!MaySignIn,
                AccessFacts!MaySignIn, Access!StartSignIn, AccessFacts!StartSignIn,
                Access!CompleteSignIn, AccessFacts!CompleteSignIn, Access!SaveUser,
                AccessFacts!SaveUser, Access!AccessStep, AccessFacts!AccessStep
  <1>6. ASSUME NEW r \in Requests, Access!Crash(r) PROVE AccessFacts!Crash(r)
    BY <1>6 DEF Access!Crash, AccessFacts!Crash
  <1>7. Access!Next => AccessFacts!Next
    BY <1>2, <1>3, <1>4, <1>5, <1>6 DEF Access!Next, AccessFacts!Next
  <1>8. [Access!Next]_(Access!vars) => [AccessFacts!Next]_(AccessFacts!vars)
    BY <1>7 DEF Access!vars, AccessFacts!vars
  <1>9. AccessFacts!RowsTellTheTruth => RowsTellTheTruth
    BY DEF RowsTellTheTruth, Access!RowsTellTheTruth, AccessFacts!RowsTellTheTruth, Access!TypeOK,
           AccessFacts!TypeOK, Access!HotelRequest, AccessFacts!HotelRequest
  <1> QED BY <1>1, <1>8, <1>9, PTL DEF Access!Spec, AccessFacts!Spec

\* However requests overlap, die or lose answers, and whatever becomes of the bookings
\* meanwhile, the account a row points at answers to the row's username and address,
\* and only a sign-in makes a user active.
THEOREM PartnersRowsAreTruthful == PartnersSpec => []RowsTellTheTruth
PROOF
  <1>1. AccessFacts!NamesAssumption
    BY PartnersAssumption DEF AccessFacts!NamesAssumption, Access!NamesAssumption,
       AccessFacts!IsFiniteSet, Access!IsFiniteSet
  <1>2. AccessFacts!AccessBoundsAssumption
    BY PartnersAssumption DEF AccessFacts!AccessBoundsAssumption, Access!AccessBoundsAssumption
  <1>3. AccessFacts!NothingAssumption
    BY PartnersAssumption DEF Access!NothingAssumption, AccessFacts!NothingAssumption, Access!Hotel,
           AccessFacts!Hotel, Access!HotelStatuses, AccessFacts!HotelStatuses, Access!User,
           AccessFacts!User, Access!UserStatuses, AccessFacts!UserStatuses, Access!Account,
           AccessFacts!Account
  <1>4. AccessFacts!Spec => []AccessFacts!RowsTellTheTruth
    BY <1>1, <1>2, <1>3, AccessFacts!RowsAreTruthful
  <1> QED BY <1>4, PartnersImplementAccess, SameAccess, PTL
=============================================================================
