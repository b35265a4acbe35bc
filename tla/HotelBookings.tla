---------------------------- MODULE HotelBookings ----------------------------
(***************************************************************************)
(* Hotel bookings: src/src/hotels/hotel-bookings.service.ts and the rules  *)
(* of src/src/shared/domain/hotel-booking.enums.ts.                        *)
(*                                                                         *)
(* A request handler reads the booking outside any transaction, checks it, *)
(* and then writes in a READ COMMITTED transaction.  Each await is a point *)
(* where another request may run, so a request is a record with a program  *)
(* counter and the values it has read.  What a transaction writes is       *)
(* invisible to everyone else until it commits, and the update of the      *)
(* booking row is the last contended statement before the commit, so that  *)
(* update, the log entry and the commit are one action.                    *)
(***************************************************************************)
EXTENDS Integers, Sequences, FiniteSets, FiniteSetsExt

CONSTANTS
  Hotels,       \* hotels that may sign in
  Admin,        \* the administrators, as one actor
  Tours,        \* tours that may be granted
  Bookings,     \* ids of hotel_bookings rows
  LineIds,      \* ids of hotel_booking_line_items rows
  Requests,     \* slots for requests in flight
  Prices,       \* amounts a tour or a grant may be priced at
  Extras,       \* amounts an administrator may add
  Counts,       \* participant counts
  NoPrice,      \* a null amount
  NoGrant,      \* no live grant
  NoBooking,    \* no row
  Radix,        \* the base references are written in (10)
  RefLimit,     \* the last sequence that fits the padding of a reference (9999)
  Repricing,    \* TRUE: grants and tours change while requests run
  Exclusive,    \* TRUE: requests on one booking do not overlap
  MaxLog        \* bound: no request starts on a booking with this many log entries

ASSUME ActorsAssumption  == Admin \notin Hotels
ASSUME AmountsAssumption == Prices \subseteq Int /\ Extras \subseteq Int
ASSUME CountsAssumption  == Counts \subseteq Nat \ {0}
ASSUME BoundsAssumption  == /\ Radix \in Nat \ 0..2 /\ RefLimit \in Nat \ {0}
                            /\ Repricing \in BOOLEAN /\ Exclusive \in BOOLEAN
                            /\ MaxLog \in Nat

VARIABLES
  tours,      \* tours: price and price basis of each tour row
  grants,     \* hotel_tours: the live grant of each hotel and tour, if any
  bookings,   \* hotel_bookings rows, without their total
  totals,     \* hotel_bookings.total_amount
  lines,      \* hotel_booking_line_items of each booking
  logs,       \* hotel_booking_logs of each booking, in commit order
  requests    \* requests in flight

vars == <<tours, grants, bookings, totals, lines, logs, requests>>
catalog == <<tours, grants>>
ledger == <<bookings, totals, lines, logs>>

-----------------------------------------------------------------------------
(* Domain rules *)

Statuses == {"pending", "confirmed", "completed", "cancelled", "invoiced"}
Terminal == {"cancelled", "invoiced"}
Editable == {"pending", "confirmed", "completed"}
Bases    == {"per_person", "per_group"}

AllowedTransitions ==
  { <<"pending",   "confirmed", "admin">>,
    <<"pending",   "cancelled", "hotel">>,
    <<"pending",   "cancelled", "admin">>,
    <<"confirmed", "completed", "admin">>,
    <<"confirmed", "cancelled", "hotel">>,
    <<"confirmed", "cancelled", "admin">>,
    <<"completed", "invoiced",  "admin">>,
    <<"completed", "cancelled", "admin">> }

Actors == Hotels \cup {Admin}
ActorType(actor) == IF actor = Admin THEN "admin" ELSE "hotel"

\* A mistake, and the rule.
SkipSteps(from, to, actorType) ==
  \E other \in Editable : <<other, to, actorType>> \in AllowedTransitions
CanTransition(from, to, actorType) == <<from, to, actorType>> \in AllowedTransitions

\* The statuses an actor's controller has an endpoint for.
Endpoints(actor) ==
  IF actor = Admin THEN {"confirmed", "completed", "cancelled", "invoiced"}
                   ELSE {"cancelled"}

\* The statuses whose commit stamps a timestamp column (confirmed_at, ...).
Stamped == Statuses \ {"pending"}

-----------------------------------------------------------------------------
(* Money and references *)

Amounts == Prices \cup {NoPrice}

SumAmounts(items) == MapThenSumSet(LAMBDA item : item.amount, items)

TotalOf(items) == IF items = {} THEN NoPrice ELSE SumAmounts(items)

BaseAmount(unitPrice, basis, count) ==
  IF basis = "per_group" THEN unitPrice ELSE unitPrice * count

\* MAX(reference) compares strings: a sequence up to RefLimit is padded to one
\* width; one past it has a digit more and sorts by its leading digits, just
\* after the padded sequence it starts with.
SortKey(sequence) ==
  IF sequence <= RefLimit THEN 2 * Radix * sequence - 1 ELSE 2 * sequence

References == { bookings[b].reference : b \in { c \in Bookings : bookings[c] # NoBooking } }

\* What MAX(reference) yields: nothing, counted as 0, or the one that sorts last.
LastReferences ==
  IF References = {} THEN {0}
  ELSE { n \in References : \A m \in References : SortKey(m) <= SortKey(n) }

-----------------------------------------------------------------------------
(* Types *)

LineAmounts == Extras \cup { BaseAmount(p, basis, n) : p \in Prices, basis \in Bases, n \in Counts }

LineItem == [id : LineIds, kind : {"base", "extra"}, amount : LineAmounts]

Quote == [hotel : Hotels, tour : Tours, count : Counts, unitPrice : Amounts, basis : Bases]

Row == [quote : Quote, reference : Nat, status : Statuses, stamps : SUBSET Stamped]

LogEntry ==
       [type : {"created"}, actor : Hotels, to : {"pending"}]
  \cup [type : {"status_changed"}, actor : Actors, from : Statuses, to : Stamped]
  \cup [type : {"line_item_added", "line_item_removed"}, actor : {Admin}, item : LineItem]

ASSUME NullsAssumption == /\ NoPrice \notin Int
                          /\ NoGrant \notin Amounts
                          /\ NoBooking \notin Row \cup Statuses

Idle == [pc |-> "idle"]
StatusRequest  == [pc : {"statusChecked"}, actor : Actors, booking : Bookings,
                   from : Statuses, to : Stamped]
AddRequest     == [pc : {"addChecked"}, booking : Bookings]
RemoveRequest  == [pc : {"removeChecked"}, booking : Bookings, item : LineItem]
SummedRequest  == [pc : {"addSummed", "removeSummed"}, booking : Bookings,
                   item : LineItem, seen : SUBSET LineItem]
GrantedRequest == [pc : {"granted"}, hotel : Hotels, tour : Tours, count : Counts,
                   offer : Amounts]
PricedRequest  == [pc : {"priced"}, quote : Quote]
NumberedRequest == [pc : {"numbered"}, quote : Quote, reference : Nat]

Request == {Idle} \cup StatusRequest \cup AddRequest \cup RemoveRequest
           \cup SummedRequest \cup GrantedRequest \cup PricedRequest \cup NumberedRequest

\* Every column holds a value of its type.  What a stored total may be is left
\* to the properties about money.
TypeOK ==
  /\ tours \in [Tours -> [price : Amounts, basis : Bases]]
  /\ grants \in [Hotels -> [Tours -> Amounts \cup {NoGrant}]]
  /\ bookings \in [Bookings -> Row \cup {NoBooking}]
  /\ totals = [b \in Bookings |-> totals[b]]
  /\ lines \in [Bookings -> SUBSET LineItem]
  /\ logs \in [Bookings -> Seq(LogEntry)]
  /\ requests \in [Requests -> Request]

Init ==
  /\ tours \in [Tours -> [price : Amounts, basis : Bases]]
  /\ grants \in [Hotels -> [Tours -> Amounts \cup {NoGrant}]]
  /\ bookings = [b \in Bookings |-> NoBooking]
  /\ totals = [b \in Bookings |-> NoPrice]
  /\ lines = [b \in Bookings |-> {}]
  /\ logs = [b \in Bookings |-> <<>>]
  /\ requests = [r \in Requests |-> Idle]

-----------------------------------------------------------------------------
(* The catalogue *)

\* HotelsService.setTours: the requested grants replace the live ones in one
\* transaction.
SetTours(h) ==
  /\ Repricing
  /\ \E requested \in [Tours -> Amounts \cup {NoGrant}] :
       grants' = [grants EXCEPT ![h] = requested]
  /\ UNCHANGED <<tours, ledger, requests>>

\* ToursService.update writes a tour's price and basis.
RepriceTour(t) ==
  /\ Repricing
  /\ \E row \in [price : Amounts, basis : Bases] : tours' = [tours EXCEPT ![t] = row]
  /\ UNCHANGED <<grants, ledger, requests>>

-----------------------------------------------------------------------------
(* Requests *)

Touches(request, b) ==
  /\ request.pc \in {"statusChecked", "addChecked", "removeChecked", "addSummed", "removeSummed"}
  /\ request.booking = b

\* A request may start on a booking: it exists, and either requests are left to
\* overlap or no other one is at work on it.
MayStart(r, b) ==
  /\ requests[r] = Idle
  /\ bookings[b] # NoBooking
  /\ Exclusive => \A q \in Requests : ~Touches(requests[q], b)
  /\ Len(logs[b]) < MaxLog

Step(r, request) == requests' = [requests EXCEPT ![r] = request]

\* A request ends without committing: its process dies, its connection drops or
\* a constraint refuses the insert.  The transaction is rolled back.
Abort(r) ==
  /\ requests[r] # Idle
  /\ Step(r, Idle)
  /\ UNCHANGED <<catalog, ledger>>

\* HotelToursService.findGranted: the hotel may only book what it is granted.
IsGranted(h, t) == grants[h][t] # NoGrant

\* create, the read of the live grant.  Bound: none starts when the ids have run
\* out.
ReadGrant(r, h, t) ==
  /\ requests[r] = Idle
  /\ \E b \in Bookings : bookings[b] = NoBooking
  /\ IsGranted(h, t)
  /\ \E count \in Counts :
       Step(r, [pc |-> "granted", hotel |-> h, tour |-> t, count |-> count,
                offer |-> grants[h][t]])
  /\ UNCHANGED <<catalog, ledger>>

\* create, the read of the tour: the grant's price wins when it has one.
ReadTour(r) ==
  /\ requests[r].pc = "granted"
  /\ LET q == requests[r]
         price == IF q.offer # NoPrice THEN q.offer ELSE tours[q.tour].price
     IN Step(r, [pc |-> "priced",
                 quote |-> [hotel |-> q.hotel, tour |-> q.tour, count |-> q.count,
                            unitPrice |-> price, basis |-> tours[q.tour].basis]])
  /\ UNCHANGED <<catalog, ledger>>

\* create, nextReference inside the transaction.
NextReference(r) ==
  /\ requests[r].pc = "priced"
  /\ \E last \in LastReferences :
       Step(r, [pc |-> "numbered", quote |-> requests[r].quote, reference |-> last + 1])
  /\ UNCHANGED <<catalog, ledger>>

\* The lines a new booking starts with: the tour itself when it has a price.
BaseLines(id, quote) ==
  IF quote.unitPrice = NoPrice THEN {}
  ELSE {[id |-> id, kind |-> "base",
         amount |-> BaseAmount(quote.unitPrice, quote.basis, quote.count)]}

\* No line has this id, nor does a request that is about to insert or delete one.
FreshLine(id) ==
  /\ \A b \in Bookings : \A item \in lines[b] : item.id # id
  /\ \A q \in Requests :
       requests[q].pc \in {"removeChecked", "addSummed", "removeSummed"} => requests[q].item.id # id

\* The unique index on the reference.
NoUniqueIndex(reference) == TRUE   \* mistake
IsUnused(reference) == reference \notin References

\* create, the inserts and the commit: only one of two equal references gets in.
CommitCreate(r, b) ==
  /\ requests[r].pc = "numbered"
  /\ bookings[b] = NoBooking
  /\ IsUnused(requests[r].reference)
  /\ LET quote == requests[r].quote IN
     /\ bookings' = [bookings EXCEPT ![b] = [quote |-> quote, status |-> "pending", stamps |-> {},
                                            reference |-> requests[r].reference]]
     /\ \E id \in LineIds :
          /\ FreshLine(id)
          /\ lines' = [lines EXCEPT ![b] = BaseLines(id, quote)]
          /\ totals' = [totals EXCEPT ![b] = TotalOf(BaseLines(id, quote))]
     /\ logs' = [logs EXCEPT ![b] = <<[type |-> "created", actor |-> quote.hotel, to |-> "pending"]>>]
  /\ Step(r, Idle)
  /\ UNCHANGED catalog

\* findOneOrThrow: a hotel finds only its own bookings.
IsFound(b, actor) == actor # Admin => bookings[b].quote.hotel = actor

\* changeStatus, the read and the check of the transition table.
CheckStatus(r, b, actor, to) ==
  /\ MayStart(r, b)
  /\ IsFound(b, actor)
  /\ to \in Endpoints(actor)
  /\ CanTransition(bookings[b].status, to, ActorType(actor))
  /\ Step(r, [pc |-> "statusChecked", actor |-> actor, booking |-> b,
              from |-> bookings[b].status, to |-> to])
  /\ UNCHANGED <<catalog, ledger>>

\* The timestamp column a move to this status fills.
ForgetCompletion(to) == {to} \ {"completed"}   \* mistake: a column is forgotten
StampsFor(to) == {to}

\* The log entry of a status change: the status that was checked and the new one.
MoveEntry(actor, from, to) ==
  [type |-> "status_changed", actor |-> actor, from |-> from, to |-> to]
LogReread(q)   == MoveEntry(q.actor, bookings[q.booking].status, q.to)   \* mistake
StatusEntry(q) == MoveEntry(q.actor, q.from, q.to)

\* changeStatus, the transaction: the update does not look at the status again.
CommitStatus(r) ==
  /\ requests[r].pc = "statusChecked"
  /\ LET q == requests[r] IN
     /\ bookings' = [bookings EXCEPT ![q.booking].status = q.to,
                                     ![q.booking].stamps = @ \cup StampsFor(q.to)]
     /\ logs' = [logs EXCEPT ![q.booking] = Append(@, StatusEntry(q))]
  /\ Step(r, Idle)
  /\ UNCHANGED <<catalog, totals, lines>>

EditUntilCancelled(b) == bookings[b].status # "cancelled"   \* mistake: invoiced ones too
MoneyIsEditable(b) == bookings[b].status \in Editable

\* addLineItem, the read and assertMoneyIsEditable.
CheckAdd(r, b) ==
  /\ MayStart(r, b)
  /\ MoneyIsEditable(b)
  /\ Step(r, [pc |-> "addChecked", booking |-> b])
  /\ UNCHANGED <<catalog, ledger>>

\* addLineItem, the insert and the read of the lines it can see.
AddAndSum(r) ==
  /\ requests[r].pc = "addChecked"
  /\ \E id \in LineIds, amount \in Extras :
       /\ FreshLine(id)
       /\ LET b == requests[r].booking
              item == [id |-> id, kind |-> "extra", amount |-> amount]
          IN Step(r, [pc |-> "addSummed", booking |-> b, item |-> item,
                      seen |-> lines[b] \cup {item}])
  /\ UNCHANGED <<catalog, ledger>>

\* Only extra lines can be removed.
RemoveAnyLine(item) == TRUE   \* mistake: tour lines too
IsRemovable(item) == item.kind # "base"

\* removeLineItem, the read, assertMoneyIsEditable and the check of the line.
CheckRemove(r, b, item) ==
  /\ MayStart(r, b)
  /\ MoneyIsEditable(b)
  /\ item \in lines[b]
  /\ IsRemovable(item)
  /\ Step(r, [pc |-> "removeChecked", booking |-> b, item |-> item])
  /\ UNCHANGED <<catalog, ledger>>

\* The lines a removal's own transaction sees after its delete.
SumBeforeDelete(q) == lines[q.booking]   \* mistake: swapped order
LinesLeft(q) == lines[q.booking] \ {q.item}

\* removeLineItem, the delete and the read of the lines left.  A delete of the
\* same row by another open transaction makes this one wait.
RemoveAndSum(r) ==
  /\ requests[r].pc = "removeChecked"
  /\ LET q == requests[r] IN
     /\ \A other \in Requests :
          requests[other].pc = "removeSummed" => requests[other].item # q.item
     /\ Step(r, [pc |-> "removeSummed", booking |-> q.booking, item |-> q.item,
                 seen |-> LinesLeft(q)])
  /\ UNCHANGED <<catalog, ledger>>

\* The log entry of a line added or removed.
LogAsAdded(q) == [type |-> "line_item_added", actor |-> Admin, item |-> q.item]   \* mistake
EditEntry(q) ==
  [type |-> IF q.pc = "addSummed" THEN "line_item_added" ELSE "line_item_removed",
   actor |-> Admin, item |-> q.item]

\* recomputeTotal's update, the log entry and the commit of either edit.
CommitEdit(r) ==
  /\ requests[r].pc \in {"addSummed", "removeSummed"}
  /\ LET q == requests[r]
         added == q.pc = "addSummed"
     IN
     /\ lines' = [lines EXCEPT ![q.booking] = IF added THEN @ \cup {q.item} ELSE @ \ {q.item}]
     /\ totals' = [totals EXCEPT ![q.booking] = TotalOf(q.seen)]
     /\ logs' = [logs EXCEPT ![q.booking] = Append(@, EditEntry(q))]
  /\ Step(r, Idle)
  /\ UNCHANGED <<catalog, bookings>>

CreateStep(r) ==
  \/ \E h \in Hotels, t \in Tours : ReadGrant(r, h, t)
  \/ ReadTour(r)
  \/ NextReference(r)
  \/ \E b \in Bookings : CommitCreate(r, b)

StatusStep(r) ==
  \/ \E b \in Bookings, actor \in Actors, to \in Statuses : CheckStatus(r, b, actor, to)
  \/ CommitStatus(r)

EditStep(r) ==
  \/ \E b \in Bookings : CheckAdd(r, b)
  \/ AddAndSum(r)
  \/ \E b \in Bookings : \E item \in lines[b] : CheckRemove(r, b, item)
  \/ RemoveAndSum(r)
  \/ CommitEdit(r)

Next ==
  \/ \E h \in Hotels : SetTours(h)
  \/ \E t \in Tours : RepriceTour(t)
  \/ \E r \in Requests : CreateStep(r) \/ StatusStep(r) \/ EditStep(r) \/ Abort(r)

Spec == Init /\ [][Next]_vars

-----------------------------------------------------------------------------
(* Properties that hold however requests interleave *)

Open == { b \in Bookings : bookings[b] # NoBooking }

IsStatusEntry(entry) == entry.type \in {"created", "status_changed"}

\* The status and its log entry are written in one transaction, so the last
\* status the history tells, in commit order, is the one the booking has.
StatusIsLastLogged ==
  \A b \in Open : \E i \in DOMAIN logs[b] :
    /\ IsStatusEntry(logs[b][i])
    /\ logs[b][i].to = bookings[b].status
    /\ \A j \in DOMAIN logs[b] : j > i => ~IsStatusEntry(logs[b][j])

\* Whatever raced, the history never tells a move the transition table does not
\* allow its actor, nor a hotel acting on another hotel's booking: the pair that
\* is logged is the pair that was checked.
LogFollowsTable ==
  \A b \in Open : \A i \in DOMAIN logs[b] :
    LET entry == logs[b][i] IN
    /\ entry.type = "status_changed" =>
         CanTransition(entry.from, entry.to, ActorType(entry.actor))
    /\ entry.actor # Admin => entry.actor = bookings[b].quote.hotel

\* The history is true to the booking: it ends with the status the booking has, and tells only
\* moves that were permitted to whoever made them.
HistoryIsTrue == StatusIsLastLogged /\ LogFollowsTable

\* A booking is stamped with the status it has, and the stamps come in order: no
\* invoice without a completion and no completion without a confirmation, even
\* for a booking whose status two requests raced to change.
MilestonesInOrder ==
  \A b \in Open :
    LET stamps == bookings[b].stamps IN
    /\ bookings[b].status # "pending" => bookings[b].status \in stamps
    /\ "invoiced" \in stamps => "completed" \in stamps
    /\ "completed" \in stamps => "confirmed" \in stamps

\* A booking quoted at a price always has exactly one tour line, of the amount
\* the quote gives, and a total; a booking without a price never has one.  No
\* interleaving of edits removes the tour line or blanks the total.
TourLineStands ==
  \A b \in Open :
    LET quote == bookings[b].quote
        base == { item \in lines[b] : item.kind = "base" }
    IN IF quote.unitPrice = NoPrice THEN base = {}
       ELSE /\ \E item \in base : base = {item}
            /\ \A item \in base :
                 item.amount = BaseAmount(quote.unitPrice, quote.basis, quote.count)
            /\ totals[b] # NoPrice

TourLines(b) == { item \in lines[b] : item.kind = "base" }

AddedLines(b) ==
  { logs[b][i].item : i \in { j \in DOMAIN logs[b] : logs[b][j].type = "line_item_added" } }

\* However far a raced total is off, what it sums is known: the tour's line, and of
\* the extra ones only such as the history says were added, none of them twice.  Nor
\* is there a line on the bill that the history does not know.
TotalIsOfKnownLines ==
  \A b \in Open :
    /\ lines[b] \subseteq TourLines(b) \cup AddedLines(b)
    /\ \E extras \in SUBSET AddedLines(b) : totals[b] = TotalOf(TourLines(b) \cup extras)

\* The bill is sound: the tour is on it once, at its price, and counted in the total with
\* nothing but lines that were added.
BillIsSound == TourLineStands /\ TotalIsOfKnownLines

\* However creates race, the references of a year are numbered from 1 without a gap
\* or a repetition.  They end with the first one that has a digit more than the
\* padding: it sorts below the last padded one, so the number after that one is all
\* that nextReference yields from then on, and the unique index refuses it.
ReferencesInSequence ==
  /\ \E last \in 0..(RefLimit + 1) : References = 1..last
  /\ \A b, c \in Open : b # c => bookings[b].reference # bookings[c].reference

\* As long as the sequence fits its padding, nextReference never hands out a
\* reference a committed booking already has: only a concurrent create can make
\* the unique index refuse the insert.
ReferenceIsFresh ==
  [][\A r \in Requests :
       requests[r].pc = "priced" /\ requests'[r].pc = "numbered"
         => \/ requests'[r].reference > RefLimit
            \/ requests'[r].reference \notin References]_vars

RowsExist ==
  \A r \in Requests : \A b \in Bookings : Touches(requests[r], b) => bookings[b] # NoBooking

\* What a request has read still holds when it writes, as far as it can: the
\* booking exists, the transition was one its actor may take from a status the
\* booking has been in, the line is an extra one, and every tour line of the
\* booking is among the lines it sums.
RequestKnowledge ==
  /\ RowsExist
  /\ \A r \in Requests : \A b \in Bookings :
    LET q == requests[r] IN
    Touches(q, b) =>
      /\ q.pc = "statusChecked" =>
           /\ CanTransition(q.from, q.to, ActorType(q.actor))
           /\ q.from # "pending" => q.from \in bookings[b].stamps
           /\ q.actor # Admin => q.actor = bookings[b].quote.hotel
      /\ q.pc \in {"removeChecked", "addSummed", "removeSummed"} => q.item.kind = "extra"
      /\ q.pc \in {"addSummed", "removeSummed"} =>
           \A item \in lines[b] : item.kind = "base" => item \in q.seen

-----------------------------------------------------------------------------
(* Properties that hold when requests on one booking do not overlap *)

\* Alone on its booking, a request's reading is still current when it writes: the
\* status is the one it checked, and the lines it sums are the lines it leaves.
ReadingIsCurrent ==
  Exclusive =>
    \A r \in Requests : \A b \in Bookings :
      LET q == requests[r] IN
      Touches(q, b) =>
        /\ \A other \in Requests \ {r} : ~Touches(requests[other], b)
        /\ q.pc = "statusChecked" => q.from = bookings[b].status
        /\ q.pc # "statusChecked" => bookings[b].status \in Editable
        /\ q.pc \in {"removeChecked", "removeSummed"} => q.item \in lines[b]
        /\ q.pc = "addSummed" => q.item \notin lines[b] /\ q.seen = lines[b] \cup {q.item}
        /\ q.pc = "removeSummed" => q.seen = lines[b] \ {q.item}

\* The stored total is the sum of the lines: recomputeTotal is the one place
\* that writes it, in the transaction of every line edit.
TotalIsSum == \A b \in Open : totals[b] = TotalOf(lines[b])

\* A cancelled or invoiced booking never changes status again.
TerminalIsFinal ==
  [][\A b \in Open : bookings[b].status \in Terminal
        => bookings'[b].status = bookings[b].status]_vars

\* Once invoiced, no line is added or removed and the total stays as billed.
InvoicedMoneyIsFrozen ==
  [][\A b \in Open : bookings[b].status = "invoiced"
        => totals'[b] = totals[b] /\ lines'[b] = lines[b]]_vars

\* Each status change in the history starts from the status the one before it
\* led to.
HistoryIsLinked ==
  \A b \in Open : \A i, j \in DOMAIN logs[b] :
    /\ i < j
    /\ IsStatusEntry(logs[b][i])
    /\ logs[b][j].type = "status_changed"
    /\ \A k \in (i + 1)..(j - 1) : ~IsStatusEntry(logs[b][k])
    => logs[b][j].from = logs[b][i].to

\* The history accounts for the extra lines: each is added once and removed at
\* most once, and it is on the booking exactly while it has not been removed.
HistoryAccountsForLines ==
  \A b \in Open :
    LET Entries(type, item) ==
          { i \in DOMAIN logs[b] : logs[b][i].type = type /\ logs[b][i].item = item }
        edited == { logs[b][i].item : i \in { j \in DOMAIN logs[b] : ~IsStatusEntry(logs[b][j]) } }
        extras == { item \in lines[b] : item.kind = "extra" }
    IN /\ extras \subseteq edited
       /\ \A item \in edited :
            Cardinality(Entries("line_item_added", item))
              = Cardinality(Entries("line_item_removed", item))
                + (IF item \in lines[b] THEN 1 ELSE 0)

\* The history is whole: its moves are linked and it accounts for every extra line.
HistoryIsWhole == HistoryIsLinked /\ HistoryAccountsForLines

\* The life of a booking as its hotel sees it.
Ledger == INSTANCE BookingLedger WITH
  Absent  <- NoBooking,
  Charges <- LineItem,
  Owed    <- TotalOf,
  stage   <- [b \in Bookings |-> IF bookings[b] = NoBooking THEN NoBooking ELSE bookings[b].status],
  charges <- lines,
  owes    <- totals

\* Every request that commits is one step of the ledger: open, move, charge or
\* drop; nothing else is visible.
ImplementsLedger == Ledger!LedgerSpec
=============================================================================
