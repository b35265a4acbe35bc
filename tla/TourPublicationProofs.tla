------------------------ MODULE TourPublicationProofs ------------------------
(***************************************************************************)
(* Proofs about TourPublication, for any languages, stops, schemas and     *)
(* payloads.  The stops in the table are at every moment none or the rows  *)
(* of one list: a list is inserted beside rows of another only if it does  *)
(* not meet them, and the two would meet in their first place.  The flags  *)
(* follow from what a request that has met no other knows of the tour.     *)
(***************************************************************************)
EXTENDS TourPublication, FiniteSetTheorems, TLAPS

(***************************************************************************)
(* Lists of stops and their rows.                                          *)
(***************************************************************************)

\* A list without a repetition.
IsRoute(route) ==
  /\ route \in Seq(Stops)
  /\ \A i, j \in 1..Len(route) : route[i] = route[j] => i = j

\* The places of a list of n stops.
LEMMA Places ==
  ASSUME NEW n \in Nat
  PROVE  IsFiniteSet(1..n) /\ Cardinality(1..n) = n
PROOF
  <1>1. 1 \in Int /\ n \in Int /\ (1 > n <=> n = 0) /\ (n - 1) + 1 = n
    OBVIOUS
  <1>2. /\ IsFiniteSet(1..n)
        /\ Cardinality(1..n) = IF 1 > n THEN 0 ELSE n - 1 + 1
    BY <1>1, FS_Interval, Zenon
  <1> QED BY <1>1, <1>2

\* A function onto as many values as there are places takes none twice.
LEMMA NoneTwice ==
  ASSUME NEW n \in Nat, NEW f, f = [i \in 1..n |-> f[i]],
         Cardinality({ f[i] : i \in 1..n }) = n
  PROVE  \A i, j \in 1..n : f[i] = f[j] => i = j
PROOF
  <1>1. f \in Surjection(1..n, { f[i] : i \in 1..n })
    <2>1. f \in [1..n -> { f[i] : i \in 1..n }]
      <3>1. \A i \in 1..n : f[i] \in { f[j] : j \in 1..n }
        OBVIOUS
      <3> QED BY <3>1
    <2>2. \A t \in { f[i] : i \in 1..n } : \E i \in 1..n : f[i] = t
      OBVIOUS
    <2> QED BY <2>1, <2>2, Zenon DEF Surjection
  <1>2. IsFiniteSet(1..n) /\ Cardinality(1..n) = n
    BY Places
  <1>3. IsFiniteSet({ f[i] : i \in 1..n })
    BY <1>1, <1>2, FS_Surjection, Zenon
  <1>4. f \in Injection(1..n, { f[i] : i \in 1..n })
    BY <1>1, <1>2, <1>3, FS_SurjSameCardinalityImpliesInj, Zenon
  <1> QED BY <1>4, Zenon DEF Injection, IsInjective

\* A list is as long as the set of its stops is large only if it repeats none.
LEMMA RoutesAreDistinct ==
  ASSUME NEW route \in Seq(Stops), Cardinality(ToSet(route)) = Len(route)
  PROVE  IsRoute(route)
PROOF
  <1>1. Len(route) \in Nat /\ route = [i \in 1..Len(route) |-> route[i]] /\ DOMAIN route = 1..Len(route)
    OBVIOUS
  <1>2. ToSet(route) = { route[i] : i \in 1..Len(route) }
    BY <1>1, Zenon DEF ToSet
  <1>3. Cardinality({ route[i] : i \in 1..Len(route) }) = Len(route)
    BY <1>2
  <1> QED BY <1>1, <1>3, NoneTwice, Zenon DEF IsRoute

\* As many values as places, when none is taken twice.
LEMMA OneEach ==
  ASSUME NEW n \in Nat, NEW T, NEW f \in [1..n -> T],
         \A i, j \in 1..n : f[i] = f[j] => i = j, \A t \in T : \E i \in 1..n : f[i] = t
  PROVE  IsFiniteSet(T) /\ Cardinality(T) = n
PROOF
  <1>1. f \in [1..n -> T] /\ \A t \in T : \E i \in 1..n : f[i] = t
    OBVIOUS
  <1>2. f \in Bijection(1..n, T)
    BY <1>1, Zenon DEF Bijection, Injection, IsInjective, Surjection
  <1>3. IsFiniteSet(1..n) /\ Cardinality(1..n) = n
    BY Places
  <1>4. IsFiniteSet(T) /\ Cardinality(T) = n
    BY <1>2, <1>3, FS_Bijection, Zenon DEF ExistsBijection
  <1> QED BY <1>4

\* The rows of a list: as many as its stops, at the places from 0 on, each stop once.
LEMMA RowsOfRoute ==
  ASSUME NEW route, IsRoute(route)
  PROVE  /\ IsFiniteSet(StopRows(route)) /\ Cardinality(StopRows(route)) = Len(route)
         /\ { s.order : s \in StopRows(route) } = 0..(Len(route) - 1)
         /\ StopIds(StopRows(route)) = ToSet(route)
         /\ Cardinality(StopIds(StopRows(route))) = Len(route)
         /\ RouteOf(StopRows(route)) = route
PROOF
  <1>1. PICK n \in Nat : n = Len(route)
    BY DEF IsRoute
  <1>2. DOMAIN route = 1..n /\ route = [i \in 1..n |-> route[i]]
        /\ \A i, j \in 1..n : route[i] = route[j] => i = j
    BY <1>1 DEF IsRoute
  <1>3. PICK f : f = [i \in 1..n |-> [stop |-> route[i], order |-> i - 1]]
    OBVIOUS
  <1>4. f = [i \in 1..n |-> f[i]] /\ \A i \in 1..n : f[i].stop = route[i] /\ f[i].order = i - 1
    BY <1>3
  <1>5. \A i, j \in 1..n : f[i] = f[j] => i = j
    BY <1>2, <1>4
  <1>6. StopRows(route) = { f[i] : i \in 1..n }
    BY <1>1, <1>3 DEF StopRows
  <1>7. IsFiniteSet(StopRows(route)) /\ Cardinality(StopRows(route)) = n
    <2>1. f \in [1..n -> StopRows(route)] /\ \A s \in StopRows(route) : \E i \in 1..n : f[i] = s
      BY <1>4, <1>6
    <2> QED BY <1>1, <1>5, <2>1, OneEach, Zenon
  <1>8. { s.order : s \in StopRows(route) } = 0..(n - 1)
    <2>1. ASSUME NEW k \in 0..(n - 1) PROVE \E s \in StopRows(route) : s.order = k
      <3>1. k + 1 \in 1..n /\ f[k + 1].order = k
        BY <1>4
      <3> QED BY <1>6, <3>1
    <2>2. ASSUME NEW s \in StopRows(route) PROVE s.order \in 0..(n - 1)
      BY <1>4, <1>6
    <2> QED BY <2>1, <2>2
  <1>9. StopIds(StopRows(route)) = { route[i] : i \in 1..n }
    BY <1>4, <1>6 DEF StopIds
  <1>10. ToSet(route) = { route[i] : i \in 1..n }
    BY <1>2, Zenon DEF ToSet
  <1>11. Cardinality({ route[i] : i \in 1..n }) = n
    <2> PICK T : T = { route[i] : i \in 1..n }
      OBVIOUS
    <2>1. route \in [1..n -> T] /\ \A t \in T : \E i \in 1..n : route[i] = t
      BY <1>2
    <2>2. Cardinality(T) = n
      BY <1>1, <1>2, <2>1, OneEach, Zenon
    <2> QED BY <2>2
  <1>12. RouteOf(StopRows(route)) = route
    <2>1. ASSUME NEW i \in 1..n
          PROVE  (CHOOSE s \in StopRows(route) : s.order = i - 1).stop = route[i]
      <3>1. \E s \in StopRows(route) : s.order = i - 1
        BY <1>4, <1>6
      <3>2. ASSUME NEW s \in StopRows(route), s.order = i - 1 PROVE s.stop = route[i]
        BY <1>4, <1>6, <3>2
      <3> QED BY <3>1, <3>2
    <2>2. RouteOf(StopRows(route)) = [i \in 1..n |-> (CHOOSE s \in StopRows(route) : s.order = i - 1).stop]
      BY <1>7, Zenon DEF RouteOf
    <2> QED BY <1>2, <2>1, <2>2
  <1> QED BY <1>1, <1>7, <1>8, <1>9, <1>10, <1>11, <1>12

(***************************************************************************)
(* Types, and the one list.                                                *)
(***************************************************************************)

Tour ==
  [schema : Schema \cup {NoSchema}, variant : {"none", "description", "stops"},
   sound : BOOLEAN, company : BOOLEAN]

Copies == [Languages -> Translation \cup {NoRow}]

\* The stops are none, or the rows of one list.
IsOneList(table) == table = {} \/ \E route : IsRoute(route) /\ route # <<>> /\ table = StopRows(route)

\* What a request carries: a list with a tour that has one, and copies of rows.
Typed(q) ==
  /\ q.pc \in {"updating", "clearing", "inserting"} => IsRoute(q.route)
  /\ q.pc = "updating" => q.row \in Tour /\ (q.row.variant = "stops" => q.route # <<>>)
  /\ q.pc = "inserting" => q.route # <<>>
  /\ q.pc \in {"loading", "writing"} => q.copies \in Copies /\ q.updating \in BOOLEAN
  /\ q.pc = "writing" =>
       /\ q.seen \in Copies
       /\ \A l \in Languages : q.copies[l] # NoRow /\ q.seen[l] # NoRow => q.seen[l].id = q.copies[l].id

ListInv ==
  /\ tour \in Tour /\ translations \in Copies /\ made \in 0..MaxRows
  /\ alone \in BOOLEAN /\ settled \in BOOLEAN
  /\ IsOneList(stops)
  /\ requests = [r \in Requests |-> requests[r]]
  /\ \A r \in Requests : Typed(requests[r])

\* A request takes another step, and the others stay as they are.
LEMMA ListStep ==
  ASSUME ListInv, NEW r \in Requests, NEW q, Typed(q), requests' = [requests EXCEPT ![r] = q],
         tour' \in Tour, translations' \in Copies, made' \in 0..MaxRows,
         alone' \in BOOLEAN, settled' \in BOOLEAN, IsOneList(stops')
  PROVE  ListInv'
PROOF
  <1>1. requests' = [s \in Requests |-> requests'[s]]
    BY DEF ListInv
  <1>2. \A s \in Requests : requests'[s] = IF s = r THEN q ELSE requests[s]
    BY DEF ListInv
  <1>3. \A s \in Requests : Typed(requests'[s])
    BY <1>2 DEF ListInv
  <1> QED BY <1>1, <1>3, Zenon DEF ListInv

\* A request at rest carries nothing.
LEMMA IdleTyped == Typed(Idle)
  BY DEF Typed, Idle

\* Start, Go, Finish and Fail keep the types when they leave the rows alone or write typed ones.
LEMMA ListMove ==
  ASSUME ListInv, NEW r \in Requests, NEW q,
         \/ Typed(q) /\ (Start(r, q) \/ Go(r, q))
         \/ \E updated \in BOOLEAN : Finish(r, updated)
         \/ Fail(r),
         tour' \in Tour, translations' \in Copies, made' \in 0..MaxRows, IsOneList(stops')
  PROVE  ListInv'
PROOF
  <1>1. \E n : Typed(n) /\ requests' = [requests EXCEPT ![r] = n]
    BY IdleTyped, Zenon DEF Start, Go, Finish, Fail
  <1>2. alone' \in BOOLEAN /\ settled' \in BOOLEAN
    BY DEF Start, Go, Finish, Fail, ListInv, NoneBut, HasUpdated
  <1> QED BY <1>1, <1>2, ListStep, Zenon

\* The list a request may send is a list, and not empty when the tour is to have one.
LEMMA ExistingIsRoute ==
  ASSUME ListInv
  PROVE  IsRoute(RouteOf(stops)) /\ IsRoute(<<>>)
PROOF
  <1>1. IsRoute(<<>>)
    BY DEF IsRoute
  <1>2. CASE stops = {}
    <2>1. Cardinality(stops) = 0
      BY <1>2, FS_EmptySet
    <2>2. RouteOf(stops) = [i \in 1..0 |-> (CHOOSE s \in stops : s.order = i - 1).stop]
      BY <2>1, Zenon DEF RouteOf
    <2>3. RouteOf(stops) = <<>>
      BY <2>2
    <2> QED BY <1>1, <2>3
  <1>3. CASE stops # {}
    BY <1>1, <1>3, RowsOfRoute, Zenon DEF ListInv, IsOneList
  <1> QED BY <1>2, <1>3

\* An update begins with a tour and a list that fit each other.
LEMMA SentTyped ==
  ASSUME ListInv, NEW sent \in Sent, IsAcceptable(sent.itinerary)
  PROVE  Typed([pc |-> "updating", route |-> sent.itinerary.route, row |-> Aggregate(sent)])
PROOF
  <1> PICK plan : plan = sent.itinerary
    OBVIOUS
  <1>1. sent.schema \in Schema \cup {NoSchema} /\ sent.given \in [sound : BOOLEAN, company : BOOLEAN]
    BY PublicationAssumption DEF Sent, ListInv, Tour
  <1>2. \/ plan = [variant |-> "description", route |-> <<>>]
        \/ plan = ExistingItinerary
        \/ plan \in [variant : {"stops"}, route : Routes]
    BY DEF Sent
  <1>3. /\ plan.variant \in {"none", "description", "stops"}
        /\ plan.route \in Seq(Stops)
        /\ plan.variant # "stops" => plan.route = <<>>
    <2>1. tour.variant \in {"none", "description", "stops"}
      BY DEF ListInv, Tour
    <2>2. RouteOf(stops) \in Seq(Stops) /\ <<>> \in Seq(Stops)
      BY ExistingIsRoute DEF IsRoute
    <2>3. CASE plan = [variant |-> "description", route |-> <<>>]
      BY <2>2, <2>3
    <2>4. CASE plan = ExistingItinerary
      <3>1. plan.variant = tour.variant
            /\ plan.route = IF tour.variant = "stops" THEN RouteOf(stops) ELSE <<>>
        BY <2>4 DEF ExistingItinerary
      <3> QED BY <2>1, <2>2, <3>1, Zenon
    <2>5. CASE plan \in [variant : {"stops"}, route : Routes]
      <3>1. plan.variant = "stops" /\ plan.route \in Routes
        BY <2>5
      <3> QED BY <3>1, PublicationAssumption, Zenon
    <2> QED BY <1>2, <2>3, <2>4, <2>5
  <1>4. IsRoute(plan.route) /\ (plan.variant = "stops" => plan.route # <<>>)
    <2>1. CASE plan.variant = "stops"
      BY <1>3, <2>1, RoutesAreDistinct DEF IsAcceptable
    <2>2. CASE plan.variant # "stops"
      BY <1>3, <2>2, ExistingIsRoute
    <2> QED BY <2>1, <2>2
  <1>5. Aggregate(sent) \in Tour /\ Aggregate(sent).variant = plan.variant
    BY <1>1, <1>3 DEF Aggregate, Tour
  <1> QED BY <1>4, <1>5 DEF Typed

\* A list goes in only where there is none: two would meet at their first place.
LEMMA ListsMeet ==
  ASSUME IsOneList(stops), NEW route, IsRoute(route), route # <<>>,
         IsUnique(stops \cup StopRows(route)), stops \cap StopRows(route) = {}
  PROVE  stops = {} /\ IsOneList(stops \cup StopRows(route))
PROOF
  <1>1. ASSUME NEW other, IsRoute(other), other # <<>>
        PROVE  [stop |-> other[1], order |-> 0] \in StopRows(other)
    <2>1. 1 \in 1..Len(other) /\ 1 - 1 = 0
      BY <1>1 DEF IsRoute
    <2> QED BY <2>1 DEF StopRows
  <1>2. stops = {}
    <2> SUFFICES ASSUME stops # {} PROVE FALSE
      OBVIOUS
    <2>1. PICK other : IsRoute(other) /\ other # <<>> /\ stops = StopRows(other)
      BY DEF IsOneList
    <2>2. PICK s \in stops : s.order = 0
      BY <1>1, <2>1
    <2>3. PICK u \in StopRows(route) : u.order = 0
      BY <1>1
    <2>4. s # u
      BY <2>2, <2>3
    <2> QED BY <2>2, <2>3, <2>4 DEF IsUnique
  <1> QED BY <1>2 DEF IsOneList

\* The row of a translation whose flags are set.
LEMMA FlagsSet ==
  ASSUME NEW t \in Translation, NEW ready, NEW shown
  PROVE  [t EXCEPT !.isReady = ready, !.isPublished = shown] =
           [id |-> t.id, payload |-> t.payload, isReady |-> ready, isPublished |-> shown]
PROOF
  <1>1. t = [id |-> t.id, payload |-> t.payload, isReady |-> t.isReady, isPublished |-> t.isPublished]
    BY DEF Translation
  <1> PICK one : one = [id |-> t.id, payload |-> t.payload, isReady |-> ready, isPublished |-> t.isPublished]
    OBVIOUS
  <1>2. one = [t EXCEPT !.isReady = ready]
    BY <1>1
  <1>3. [t EXCEPT !.isReady = ready, !.isPublished = shown] = [one EXCEPT !.isPublished = shown]
    BY <1>2
  <1>4. [one EXCEPT !.isPublished = shown] =
          [id |-> t.id, payload |-> t.payload, isReady |-> ready, isPublished |-> shown]
    OBVIOUS
  <1> QED BY <1>3, <1>4

\* Such a row is a translation's.
LEMMA RowsTyped ==
  ASSUME NEW t \in Translation, NEW payload \in SUBSET (Fields \cup Stops), NEW ready \in BOOLEAN,
         NEW shown \in BOOLEAN
  PROVE  [id |-> t.id, payload |-> payload, isReady |-> ready, isPublished |-> shown] \in Translation
  BY DEF Translation

\* A translation is ready or not.
LEMMA ReadyIsBoolean == \A payload : Ready(tour, stops, payload) \in BOOLEAN
  BY DEF Ready

\* A correction is a row.
LEMMA CorrectedTyped ==
  ASSUME NEW t \in Translation
  PROVE  /\ Corrected(t) \in Translation
         /\ Corrected(t) = [id |-> t.id, payload |-> t.payload, isReady |-> Ready(tour, stops, t.payload),
                            isPublished |-> t.isPublished /\ Ready(tour, stops, t.payload)]
PROOF
  <1> PICK ready \in BOOLEAN : ready = Ready(tour, stops, t.payload)
    BY ReadyIsBoolean
  <1> PICK shown \in BOOLEAN : shown = (t.isPublished /\ ready)
    OBVIOUS
  <1>1. Corrected(t) = [t EXCEPT !.isReady = ready, !.isPublished = shown]
    BY Zenon DEF Corrected
  <1>2. t.payload \in SUBSET (Fields \cup Stops)
    BY DEF Translation
  <1>3. Corrected(t) = [id |-> t.id, payload |-> t.payload, isReady |-> ready, isPublished |-> shown]
        /\ Corrected(t) \in Translation
    <2>1. Corrected(t) = [id |-> t.id, payload |-> t.payload, isReady |-> ready, isPublished |-> shown]
      BY <1>1, FlagsSet
    <2> QED BY <1>2, <2>1, RowsTyped
  <1> QED BY <1>3, Zenon

\* What the handlers of a translation make of its row.
LEMMA HandledTyped ==
  ASSUME NEW t \in Translation, NEW payload \in SUBSET (Fields \cup Stops), NEW ready \in BOOLEAN,
         ready = Ready(tour, stops, payload)
  PROVE  /\ Edited(t, payload) \in Translation
         /\ Edited(t, payload) = [id |-> t.id, payload |-> payload, isReady |-> ready,
                                  isPublished |-> t.isPublished /\ ready]
         /\ \A shown \in BOOLEAN :
              [t EXCEPT !.isReady = ready, !.isPublished = shown] \in Translation
PROOF
  <1>b. PICK both \in BOOLEAN : both = (t.isPublished /\ ready)
    OBVIOUS
  <1>1. Edited(t, payload) = [t EXCEPT !.payload = payload, !.isReady = ready, !.isPublished = both]
    BY <1>b, Zenon DEF Edited
  <1>2. Edited(t, payload) = [id |-> t.id, payload |-> payload, isReady |-> ready, isPublished |-> both]
    <2>1. t = [id |-> t.id, payload |-> t.payload, isReady |-> t.isReady, isPublished |-> t.isPublished]
      BY DEF Translation
    <2> PICK one : one = [id |-> t.id, payload |-> payload, isReady |-> t.isReady,
                          isPublished |-> t.isPublished]
      OBVIOUS
    <2>2. one = [t EXCEPT !.payload = payload]
      BY <2>1
    <2> PICK two : two = [id |-> t.id, payload |-> payload, isReady |-> ready,
                          isPublished |-> t.isPublished]
      OBVIOUS
    <2>3. two = [one EXCEPT !.isReady = ready]
      OBVIOUS
    <2>4. Edited(t, payload) = [two EXCEPT !.isPublished = both]
      BY <1>1, <2>2, <2>3
    <2>5. [two EXCEPT !.isPublished = both] =
            [id |-> t.id, payload |-> payload, isReady |-> ready, isPublished |-> both]
      OBVIOUS
    <2> QED BY <2>4, <2>5
  <1>3. t.payload \in SUBSET (Fields \cup Stops)
    BY DEF Translation
  <1>4. ASSUME NEW shown \in BOOLEAN
        PROVE  [t EXCEPT !.isReady = ready, !.isPublished = shown] \in Translation
    <2> PICK row : row = [t EXCEPT !.isReady = ready, !.isPublished = shown]
      OBVIOUS
    <2>1. row = [id |-> t.id, payload |-> t.payload, isReady |-> ready, isPublished |-> shown]
      BY FlagsSet
    <2>2. [id |-> t.id, payload |-> t.payload, isReady |-> ready, isPublished |-> shown] \in Translation
      BY <1>3, RowsTyped, Zenon
    <2> QED BY <2>1, <2>2, Zenon
  <1>5. Edited(t, payload) \in Translation
    BY <1>b, <1>2, RowsTyped
  <1> QED BY <1>b, <1>2, <1>4, <1>5, Zenon

\* One row among the languages.
LEMMA OneTyped ==
  ASSUME NEW l \in Languages, NEW row \in Translation \cup {NoRow}
  PROVE  /\ One(l, row) \in Copies /\ One(l, row)[l] = row
         /\ \A m \in Languages : m # l => One(l, row)[m] = NoRow
         /\ One(l, NoRow) \in Copies /\ \A m \in Languages : One(l, NoRow)[m] = NoRow
  BY DEF One, Copies

LEMMA SavingTyped ==
  ASSUME NEW l \in Languages, NEW row \in Translation
  PROVE  Typed(Saving(l, row))
  BY OneTyped DEF Typed, Saving

\* What a save writes is a row.
LEMMA ResultTyped ==
  ASSUME ListInv, NEW r \in Requests, requests[r].pc = "writing"
  PROVE  Result(requests[r]) \in Copies
PROOF
  <1> PICK q : q = requests[r]
    OBVIOUS
  <1>1. q.copies \in Copies /\ q.seen \in Copies /\ translations \in Copies
    BY DEF ListInv, Typed
  <1>2. ASSUME NEW now \in Translation, NEW seen \in Translation, NEW copy \in Translation
        PROVE  Written(now, seen, copy) \in Translation
    BY DEF Written, Column, Translation
  <1>3. ASSUME NEW l \in Languages, q.copies[l] # NoRow, q.seen[l] # NoRow, translations[l] # NoRow
        PROVE  Written(translations[l], q.seen[l], q.copies[l]) \in Translation
    BY <1>1, <1>2, <1>3 DEF Copies
  <1>4. ASSUME NEW l \in Languages, Stored(l, q.copies[l]) # NoRow PROVE translations[l] # NoRow
    BY <1>4 DEF Stored
  <1>5. \A l \in Languages : q.copies[l] \in Translation \cup {NoRow}
                             /\ translations[l] \in Translation \cup {NoRow}
    BY <1>1 DEF Copies
  <1>6. \A l \in Languages : Result(q)[l] \in Translation \cup {NoRow}
    BY <1>3, <1>4, <1>5 DEF Result
  <1>7. Result(q) = [l \in Languages |-> Result(q)[l]]
    BY DEF Result
  <1> QED BY <1>6, <1>7 DEF Copies

\* What a save reads is the rows of its copies.
LEMMA LoadTyped ==
  ASSUME ListInv, NEW r \in Requests, requests[r].pc = "loading"
  PROVE  LET q == requests[r] IN
         Typed([pc |-> "writing", copies |-> q.copies, updating |-> q.updating,
                seen |-> [l \in Languages |-> Stored(l, q.copies[l])]])
PROOF
  <1> PICK q : q = requests[r]
    OBVIOUS
  <1>1. q.copies \in Copies /\ q.updating \in BOOLEAN /\ translations \in Copies
    BY DEF ListInv, Typed
  <1> PICK seen : seen = [l \in Languages |-> Stored(l, q.copies[l])]
    OBVIOUS
  <1>2. \A l \in Languages : /\ seen[l] \in Translation \cup {NoRow}
                             /\ seen[l] # NoRow => seen[l].id = q.copies[l].id
    BY <1>1 DEF Stored, Copies
  <1>3. seen \in Copies
    BY <1>2 DEF Copies
  <1> QED BY <1>1, <1>2, <1>3 DEF Typed

\* What an update corrects.
LEMMA CorrectionsTyped ==
  ASSUME ListInv
  PROVE  Corrections \in Copies
PROOF
  <1>1. \A l \in Languages : translations[l] \in Translation \cup {NoRow}
    BY DEF ListInv, Copies
  <1>2. \A l \in Languages : Corrections[l] \in Translation \cup {NoRow}
    BY <1>1, CorrectedTyped DEF Corrections
  <1>3. Corrections = [l \in Languages |-> Corrections[l]]
    BY DEF Corrections
  <1> QED BY <1>2, <1>3 DEF Copies

\* An update keeps the types and the list.
LEMMA UpdateKeepsList ==
  ASSUME ListInv, NEW r \in Requests, UpdateStep(r)
  PROVE  ListInv'
PROOF
  <1> PICK q : q = requests[r]
    OBVIOUS
  <1>1. Typed(q) /\ tour \in Tour /\ translations \in Copies /\ made \in 0..MaxRows /\ IsOneList(stops)
    BY DEF ListInv
  <1>2. CASE ReadTour(r)
    <2>1. PICK sent \in Sent :
            /\ IsAcceptable(sent.itinerary)
            /\ Start(r, [pc |-> "updating", route |-> sent.itinerary.route, row |-> Aggregate(sent)])
      BY <1>2 DEF ReadTour
    <2>2. UNCHANGED rows
      BY <1>2 DEF ReadTour
    <2>3. Typed([pc |-> "updating", route |-> sent.itinerary.route, row |-> Aggregate(sent)])
      BY <2>1, SentTyped
    <2> QED BY <1>1, <2>1, <2>2, <2>3, ListMove DEF rows
  <1>3. CASE SaveTour(r)
    <2>1. q.pc = "updating" /\ tour' = q.row /\ Go(r, [pc |-> "clearing", route |-> q.route])
          /\ UNCHANGED <<stops, translations, made>>
      BY <1>3 DEF SaveTour
    <2>2. Typed([pc |-> "clearing", route |-> q.route]) /\ tour' \in Tour
      BY <1>1, <2>1 DEF Typed
    <2> QED BY <1>1, <2>1, <2>2, ListMove
  <1>4. CASE ClearStops(r)
    <2>1. PICK n : n = IF q.route = <<>> THEN [pc |-> "refreshing"]
                       ELSE [pc |-> "inserting", route |-> q.route]
      OBVIOUS
    <2>2. q.pc = "clearing" /\ stops' = {} /\ Go(r, n) /\ UNCHANGED <<tour, translations, made>>
      BY <1>4, <2>1 DEF ClearStops
    <2>3. Typed(n)
      BY <1>1, <2>1, <2>2 DEF Typed
    <2>4. IsOneList(stops')
      BY <2>2 DEF IsOneList
    <2> QED BY <1>1, <2>2, <2>3, <2>4, ListMove
  <1>5. CASE InsertStops(r)
    <2>1. q.pc = "inserting" /\ UNCHANGED <<tour, translations, made>>
      BY <1>5 DEF InsertStops
    <2>2. CASE /\ IsUnique(stops \cup StopRows(q.route)) /\ stops \cap StopRows(q.route) = {}
               /\ stops' = stops \cup StopRows(q.route) /\ Go(r, [pc |-> "refreshing"])
      <3>1. IsRoute(q.route) /\ q.route # <<>>
        BY <1>1, <2>1 DEF Typed
      <3>2. IsOneList(stops')
        BY <1>1, <2>2, <3>1, ListsMeet
      <3>3. Typed([pc |-> "refreshing"])
        BY DEF Typed
      <3> QED BY <1>1, <2>1, <2>2, <3>2, <3>3, ListMove
    <2>3. CASE Fail(r) /\ UNCHANGED stops
      BY <1>1, <2>1, <2>3, ListMove
    <2> QED BY <1>5, <2>2, <2>3 DEF InsertStops
  <1>6. CASE Refresh(r)
    <2>1. UNCHANGED rows
      BY <1>6 DEF Refresh
    <2>2. CASE Go(r, [pc |-> "loading", copies |-> Corrections, updating |-> TRUE])
      <3>1. Typed([pc |-> "loading", copies |-> Corrections, updating |-> TRUE])
        BY CorrectionsTyped DEF Typed
      <3> QED BY <1>1, <2>1, <2>2, <3>1, ListMove DEF rows
    <2>3. CASE Finish(r, TRUE)
      BY <1>1, <2>1, <2>3, ListMove DEF rows
    <2> QED BY <1>6, <2>2, <2>3 DEF Refresh
  <1> QED BY <1>2, <1>3, <1>4, <1>5, <1>6 DEF UpdateStep

\* So does a handler of a translation.
LEMMA TranslationKeepsList ==
  ASSUME ListInv, NEW r \in Requests, TranslationStep(r)
  PROVE  ListInv'
PROOF
  <1> PICK q : q = requests[r]
    OBVIOUS
  <1>1. Typed(q) /\ tour \in Tour /\ translations \in Copies /\ made \in 0..MaxRows /\ IsOneList(stops)
    BY DEF ListInv
  <1>2. ASSUME NEW l \in Languages, translations[l] # NoRow PROVE translations[l] \in Translation
    BY <1>1, <1>2 DEF Copies
  <1>3. ASSUME NEW l \in Languages, NEW row \in Translation, UNCHANGED rows, Start(r, Saving(l, row))
        PROVE  ListInv'
    BY <1>1, <1>3, SavingTyped, ListMove DEF rows
  <1>4. ASSUME NEW l \in Languages, Create(r, l) PROVE ListInv'
    <2>1. made < MaxRows /\ made' = made + 1 /\ UNCHANGED <<tour, stops, translations>>
      BY <1>4 DEF Create
    <2>2. PICK payload \in Payloads : Start(r, [pc |-> "writing", seen |-> One(l, NoRow), updating |-> FALSE,
             copies |-> One(l, [id |-> made + 1, payload |-> payload,
                                isReady |-> Ready(tour, stops, payload), isPublished |-> FALSE])])
      BY <1>4, Zenon DEF Create
    <2>3. PICK row : row = [id |-> made + 1, payload |-> payload,
                            isReady |-> Ready(tour, stops, payload), isPublished |-> FALSE]
      OBVIOUS
    <2>4. made + 1 \in 1..MaxRows /\ made' \in 0..MaxRows /\ payload \in SUBSET (Fields \cup Stops)
      BY <1>1, <2>1, PublicationAssumption
    <2>5. row \in Translation
      <3>1. PICK ready \in BOOLEAN : ready = Ready(tour, stops, payload)
        BY ReadyIsBoolean
      <3>2. row = [id |-> made + 1, payload |-> payload, isReady |-> ready, isPublished |-> FALSE]
        BY <2>3, <3>1, Zenon
      <3> QED BY <2>4, <3>2 DEF Translation
    <2>6. Typed([pc |-> "writing", copies |-> One(l, row), seen |-> One(l, NoRow), updating |-> FALSE])
      BY <2>5, OneTyped DEF Typed
    <2>7. Start(r, [pc |-> "writing", copies |-> One(l, row), seen |-> One(l, NoRow), updating |-> FALSE])
      BY <2>2, <2>3
    <2> QED BY <1>1, <2>1, <2>4, <2>6, <2>7, ListMove
  <1>5. ASSUME NEW l \in Languages, Edit(r, l) PROVE ListInv'
    <2>1. PICK payload \in Payloads \cup {translations[l].payload} :
            Start(r, Saving(l, Edited(translations[l], payload)))
      BY <1>5 DEF Edit
    <2>2. translations[l] \in Translation /\ UNCHANGED rows
      BY <1>2, <1>5 DEF Edit
    <2>3. payload \in SUBSET (Fields \cup Stops)
      BY <2>2, PublicationAssumption DEF Translation
    <2>4. Edited(translations[l], payload) \in Translation
      BY <2>2, <2>3, ReadyIsBoolean, HandledTyped
    <2> QED BY <1>3, <2>1, <2>2, <2>4
  <1>6. ASSUME NEW t \in Translation, NEW shown \in BOOLEAN
        PROVE  [t EXCEPT !.isReady = Ready(tour, stops, t.payload), !.isPublished = shown] \in Translation
    <2>1. t.payload \in SUBSET (Fields \cup Stops)
      BY DEF Translation
    <2>2. PICK ready \in BOOLEAN : ready = Ready(tour, stops, t.payload)
      BY ReadyIsBoolean
    <2>3. [t EXCEPT !.isReady = ready, !.isPublished = shown] \in Translation
      BY <2>1, <2>2, HandledTyped
    <2> QED BY <2>2, <2>3
  <1>7. ASSUME NEW l \in Languages, Publish(r, l) PROVE ListInv'
    <2>1. PICK ready \in BOOLEAN : ready = Ready(tour, stops, translations[l].payload)
      BY ReadyIsBoolean
    <2>2. /\ Start(r, Saving(l, [translations[l] EXCEPT !.isReady = ready, !.isPublished = ready]))
          /\ UNCHANGED rows /\ translations[l] \in Translation
      BY <1>2, <1>7, <2>1, Zenon DEF Publish
    <2>3. [translations[l] EXCEPT !.isReady = ready, !.isPublished = ready] \in Translation
      BY <1>6, <2>1, <2>2
    <2> QED BY <1>3, <2>2, <2>3
  <1>8. ASSUME NEW l \in Languages, Unpublish(r, l) PROVE ListInv'
    <2>1. /\ Start(r, Saving(l, [translations[l] EXCEPT
                                   !.isReady = Ready(tour, stops, translations[l].payload),
                                   !.isPublished = FALSE]))
          /\ UNCHANGED rows /\ translations[l] \in Translation
      BY <1>2, <1>8 DEF Unpublish
    <2>2. [translations[l] EXCEPT !.isReady = Ready(tour, stops, translations[l].payload),
                                  !.isPublished = FALSE] \in Translation
      BY <1>6, <2>1
    <2> QED BY <1>3, <2>1, <2>2
  <1>9. ASSUME NEW l \in Languages, ReadToDelete(r, l) PROVE ListInv'
    <2>1. Typed([pc |-> "deleting", language |-> l, id |-> translations[l].id])
      BY DEF Typed
    <2> QED BY <1>1, <1>9, <2>1, ListMove DEF ReadToDelete, rows
  <1>10. CASE Load(r)
    BY <1>1, <1>10, LoadTyped, ListMove DEF Load, rows
  <1>11. CASE Write(r)
    <2>1. q.pc = "writing" /\ UNCHANGED <<tour, stops, made>>
      BY <1>11 DEF Write
    <2>2. CASE Fail(r) /\ UNCHANGED translations
      BY <1>1, <2>1, <2>2, ListMove
    <2>3. CASE translations' = Result(q) /\ Finish(r, q.updating)
      <3>1. q.updating \in BOOLEAN /\ translations' \in Copies
        BY <1>1, <2>1, <2>3, ResultTyped DEF Typed
      <3> QED BY <1>1, <2>1, <2>3, <3>1, ListMove
    <2> QED BY <1>11, <2>2, <2>3 DEF Write
  <1>12. CASE Delete(r)
    <2>1. UNCHANGED <<tour, stops, made>> /\ Finish(r, FALSE)
      BY <1>12 DEF Delete
    <2>2. translations' \in Copies
      <3>1. PICK v \in {NoRow, translations[q.language]} :
              translations' = [translations EXCEPT ![q.language] = v]
        BY <1>12 DEF Delete
      <3> QED BY <1>1, <3>1 DEF Copies
    <2> QED BY <1>1, <2>1, <2>2, ListMove
  <1> QED BY <1>4, <1>5, <1>7, <1>8, <1>9, <1>10, <1>11, <1>12 DEF TranslationStep

\* Types, the one list and what requests carry are kept by every step: the inductive invariant.
THEOREM ListsInOrder == Spec => []ListInv
PROOF
  <1>1. Init => ListInv
    <2> SUFFICES ASSUME Init PROVE ListInv
      OBVIOUS
    <2>1. tour \in Tour /\ translations \in Copies
      BY DEF Init, Tour, Copies
    <2>2. IsOneList(stops) /\ made \in 0..MaxRows
      BY PublicationAssumption DEF Init, IsOneList
    <2>3. requests = [r \in Requests |-> requests[r]] /\ \A r \in Requests : Typed(requests[r])
      BY IdleTyped DEF Init
    <2> QED BY <2>1, <2>2, <2>3 DEF Init, ListInv
  <1>2. ListInv /\ [Next]_vars => ListInv'
    <2> SUFFICES ASSUME ListInv, [Next]_vars PROVE ListInv'
      OBVIOUS
    <2>1. ASSUME NEW r \in Requests, Abort(r) PROVE ListInv'
      BY <2>1, ListMove DEF Abort, rows, ListInv
    <2>2. CASE UNCHANGED vars
      BY <2>2 DEF vars, rows, ListInv
    <2> QED BY <2>1, <2>2, UpdateKeepsList, TranslationKeepsList DEF Next
  <1> QED BY <1>1, <1>2, PTL DEF Spec

\* However updates overlap or break off, the stops in the table are none or the list of one of
\* them, whole and in order.
THEOREM StopsStayOneList == Spec => []StopsAreOneList
PROOF
  <1>1. ListInv => StopsAreOneList
    <2> SUFFICES ASSUME IsOneList(stops) PROVE StopsAreOneList
      BY DEF ListInv
    <2>1. CASE stops = {}
      <3>1. Cardinality(stops) = 0 /\ StopIds(stops) = {} /\ { s.order : s \in stops } = {}
        BY <2>1, FS_EmptySet DEF StopIds
      <3> QED BY <2>1, <3>1 DEF StopsAreOneList
    <2>2. CASE stops # {}
      BY <2>2, RowsOfRoute, Zenon DEF IsOneList, StopsAreOneList
    <2> QED BY <2>1, <2>2
  <1> QED BY <1>1, ListsInOrder, PTL

(***************************************************************************)
(* Flags.                                                                  *)
(***************************************************************************)

\* A row whose flags say what it is.
IsRight(row, table, t) == t.isReady = Ready(row, table, t.payload) /\ (t.isPublished => t.isReady)

\* A tour that has stops has some in its table.
HasItsStops(row, table) == row.variant = "stops" => table # {}

\* Nothing is left to correct.
IsCurrent(row, table, held) ==
  /\ HasItsStops(row, table)
  /\ \A l \in Languages : held[l] # NoRow => IsRight(row, table, held[l])

\* What a request that has met no other knows: an update, that its list goes where there is none
\* and that the copies it writes are all there is to correct; a save, that its copies are right
\* and that the rows are those it has read.
Knows(q, row, table, held) ==
  /\ q.pc = "clearing" /\ row.variant = "stops" => q.route # <<>>
  /\ q.pc = "inserting" => table = {}
  /\ q.pc = "refreshing" => HasItsStops(row, table)
  /\ q.pc \in {"loading", "writing"} =>
       /\ \A l \in Languages : q.copies[l] # NoRow => IsRight(row, table, q.copies[l])
       /\ q.updating =>
            /\ HasItsStops(row, table)
            /\ \A l \in Languages : q.copies[l] = NoRow /\ held[l] # NoRow => IsRight(row, table, held[l])
  /\ q.pc = "loading" =>
       \A l \in Languages : q.copies[l] # NoRow => held[l] # NoRow /\ held[l].id = q.copies[l].id
  /\ q.pc = "writing" => \A l \in Languages : q.copies[l] # NoRow => held[l] = q.seen[l]

FlagInv ==
  /\ settled => alone
  /\ alone => \A r, s \in Requests : requests[r] # Idle /\ requests[s] # Idle => r = s
  /\ alone => \A r \in Requests : Knows(requests[r], tour, stops, translations)
  /\ settled /\ (\A r \in Requests : ~HasUpdated(requests[r])) => IsCurrent(tour, stops, translations)

\* A request at rest knows nothing.
LEMMA IdleKnows == \A row, table, held : Knows(Idle, row, table, held) /\ ~HasUpdated(Idle)
  BY DEF Knows, Idle, HasUpdated

\* The requests after a step of one of them.
LEMMA OthersStay ==
  ASSUME ListInv, NEW r \in Requests, NEW q, requests' = [requests EXCEPT ![r] = q]
  PROVE  \A s \in Requests : requests'[s] = IF s = r THEN q ELSE requests[s]
  BY DEF ListInv

\* A request that starts.
LEMMA FlagStart ==
  ASSUME ListInv, FlagInv, NEW r \in Requests, NEW q, Start(r, q), Knows(q, tour, stops, translations),
         UNCHANGED <<tour, stops, translations>>
  PROVE  FlagInv'
PROOF
  <1>1. \A s \in Requests : requests'[s] = IF s = r THEN q ELSE requests[s]
    BY OthersStay DEF Start
  <1>2. alone' = NoneBut(r) /\ settled' = (settled /\ NoneBut(r)) /\ requests[r] = Idle
    BY DEF Start
  <1>3. NoneBut(r) => \A s \in Requests : s # r => requests[s] = Idle /\ requests'[s] = Idle
    BY <1>1 DEF NoneBut
  <1>4. settled' => alone'
    BY <1>2
  <1>5. alone' => \A s, u \in Requests : requests'[s] # Idle /\ requests'[u] # Idle => s = u
    BY <1>2, <1>3
  <1>6. ASSUME alone', NEW s \in Requests PROVE Knows(requests'[s], tour', stops', translations')
    <2>1. Knows(requests'[s], tour, stops, translations)
      BY <1>1, <1>2, <1>3, <1>6, IdleKnows
    <2> QED BY <2>1
  <1>7. settled' => IsCurrent(tour', stops', translations')
    <2> SUFFICES ASSUME settled' PROVE IsCurrent(tour', stops', translations')
      OBVIOUS
    <2>1. settled /\ \A s \in Requests : ~HasUpdated(requests[s])
      BY <1>2, <1>3, IdleKnows
    <2>2. IsCurrent(tour, stops, translations)
      BY <2>1 DEF FlagInv
    <2> QED BY <2>2
  <1> QED BY <1>4, <1>5, <1>6, <1>7, Zenon DEF FlagInv

\* A request that goes on.
LEMMA FlagGo ==
  ASSUME ListInv, FlagInv, NEW r \in Requests, requests[r] # Idle, NEW q, Go(r, q),
         alone => Knows(q, tour', stops', translations'),
         settled /\ ~HasUpdated(q) => IsCurrent(tour', stops', translations')
  PROVE  FlagInv'
PROOF
  <1>1. \A s \in Requests : requests'[s] = IF s = r THEN q ELSE requests[s]
    BY OthersStay DEF Go
  <1>2. alone' = alone /\ settled' = settled
    BY DEF Go
  <1>3. alone => \A s \in Requests : s # r => requests[s] = Idle /\ requests'[s] = Idle
    BY <1>1 DEF FlagInv
  <1>4. settled' => alone'
    BY <1>2 DEF FlagInv
  <1>5. alone' => \A s, u \in Requests : requests'[s] # Idle /\ requests'[u] # Idle => s = u
    BY <1>2, <1>3
  <1>6. ASSUME alone', NEW s \in Requests PROVE Knows(requests'[s], tour', stops', translations')
    BY <1>1, <1>2, <1>3, <1>6, IdleKnows
  <1>7. settled' /\ (\A s \in Requests : ~HasUpdated(requests'[s])) => IsCurrent(tour', stops', translations')
    BY <1>1, <1>2
  <1> QED BY <1>4, <1>5, <1>6, <1>7, Zenon DEF FlagInv

\* A request that ends.
LEMMA FlagEnd ==
  ASSUME ListInv, FlagInv, NEW r \in Requests, requests[r] # Idle,
         Fail(r) \/ \E updated \in BOOLEAN : Finish(r, updated),
         settled' => IsCurrent(tour', stops', translations')
  PROVE  FlagInv'
PROOF
  <1>1. requests' = [requests EXCEPT ![r] = Idle] /\ alone' = (alone \/ NoneBut(r))
    BY DEF Fail, Finish
  <1>2. \A s \in Requests : requests'[s] = IF s = r THEN Idle ELSE requests[s]
    BY <1>1, OthersStay, Zenon
  <1>3. alone' => \A s \in Requests : requests'[s] = Idle
    BY <1>1, <1>2 DEF FlagInv, NoneBut
  <1>4. settled' => alone'
    BY <1>1 DEF FlagInv, Fail, Finish
  <1>5. ASSUME alone', NEW s \in Requests PROVE Knows(requests'[s], tour', stops', translations')
    BY <1>3, <1>5, IdleKnows
  <1> QED BY <1>3, <1>4, <1>5, Zenon DEF FlagInv

\* What a request knows when it has met no other and is not an update under way.
LEMMA NothingToCorrect ==
  ASSUME FlagInv, settled, NEW r \in Requests, requests[r] # Idle, ~HasUpdated(requests[r])
  PROVE  IsCurrent(tour, stops, translations)
PROOF
  <1>1. \A s \in Requests : s # r => requests[s] = Idle
    BY DEF FlagInv
  <1>2. \A s \in Requests : ~HasUpdated(requests[s])
    BY <1>1, IdleKnows
  <1> QED BY <1>2 DEF FlagInv

\* Corrected rows are right, and so are those that are not to be corrected.
LEMMA CorrectionsAreRight ==
  ASSUME ListInv, NEW l \in Languages
  PROVE  /\ Corrections[l] # NoRow =>
              /\ IsRight(tour, stops, Corrections[l])
              /\ translations[l] # NoRow /\ translations[l].id = Corrections[l].id
         /\ Corrections[l] = NoRow /\ translations[l] # NoRow => IsRight(tour, stops, translations[l])
PROOF
  <1>1. CASE translations[l] = NoRow
    BY <1>1 DEF Corrections
  <1>2. CASE translations[l] # NoRow
    <2>1. PICK t \in Translation : t = translations[l]
      BY <1>2 DEF ListInv, Copies
    <2>2. PICK ready \in BOOLEAN : ready = Ready(tour, stops, t.payload)
      BY ReadyIsBoolean
    <2>3. PICK c : c = Corrected(t)
      OBVIOUS
    <2>4. c = [id |-> t.id, payload |-> t.payload, isReady |-> ready, isPublished |-> t.isPublished /\ ready]
      BY <2>2, <2>3, CorrectedTyped, Zenon
    <2>5. c \in Translation
      BY <2>3, CorrectedTyped
    <2>6. c.id = t.id /\ c.payload = t.payload /\ c.isReady = ready /\ (c.isPublished => c.isReady)
      BY <2>4
    <2>7. IsRight(tour, stops, c)
      BY <2>2, <2>6, Zenon DEF IsRight
    <2>8. Corrections[l] = IF c = t THEN NoRow ELSE c
      BY <1>2, <2>1, <2>3 DEF Corrections
    <2>9. c # NoRow
      BY <2>5, NothingAssumption
    <2> QED BY <1>2, <2>1, <2>6, <2>7, <2>8, <2>9
  <1> QED BY <1>1, <1>2

\* A save that has met no other writes its copies as they are.
LEMMA CopiesAreWritten ==
  ASSUME ListInv, NEW r \in Requests, requests[r].pc = "writing",
         Knows(requests[r], tour, stops, translations)
  PROVE  \A l \in Languages :
           Result(requests[r])[l] = IF requests[r].copies[l] = NoRow THEN translations[l]
                                    ELSE requests[r].copies[l]
PROOF
  <1> PICK q : q = requests[r]
    OBVIOUS
  <1>1. q.copies \in Copies /\ q.seen \in Copies /\ translations \in Copies
        /\ \A l \in Languages : q.copies[l] # NoRow /\ q.seen[l] # NoRow => q.seen[l].id = q.copies[l].id
    BY DEF ListInv, Typed
  <1>2. \A l \in Languages : q.copies[l] # NoRow => translations[l] = q.seen[l]
    BY DEF Knows
  <1>3. ASSUME NEW t \in Translation, NEW copy \in Translation, t.id = copy.id
        PROVE  Written(t, t, copy) = copy
    <2>1. Written(t, t, copy) = [id |-> copy.id, payload |-> copy.payload, isReady |-> copy.isReady,
                                 isPublished |-> copy.isPublished]
      BY <1>3, Zenon DEF Written, Column
    <2> QED BY <2>1 DEF Translation
  <1>4. ASSUME NEW l \in Languages, q.copies[l] # NoRow, q.seen[l] # NoRow
        PROVE  Result(q)[l] = q.copies[l]
    <2>1. PICK t \in Translation : t = q.seen[l]
      BY <1>1, <1>4 DEF Copies
    <2>2. PICK copy \in Translation : copy = q.copies[l]
      BY <1>1, <1>4 DEF Copies
    <2>3. translations[l] = t /\ t.id = copy.id /\ t # NoRow /\ copy # NoRow
      BY <1>1, <1>2, <1>4, <2>1, <2>2
    <2>4. Stored(l, copy) = t
      BY <2>3 DEF Stored
    <2>5. Result(q)[l] = Written(t, t, copy)
      BY <2>1, <2>2, <2>3, <2>4 DEF Result
    <2> QED BY <1>3, <2>2, <2>3, <2>5
  <1>5. ASSUME NEW l \in Languages, q.copies[l] = NoRow \/ q.seen[l] = NoRow
        PROVE  Result(q)[l] = IF q.copies[l] = NoRow THEN translations[l] ELSE q.copies[l]
    BY <1>5 DEF Result
  <1> QED BY <1>4, <1>5

\* An update keeps the flags.
LEMMA UpdateKeepsFlags ==
  ASSUME ListInv, FlagInv, NEW r \in Requests, UpdateStep(r)
  PROVE  FlagInv'
PROOF
  <1> PICK q : q = requests[r]
    OBVIOUS
  <1>1. Typed(q) /\ (alone => Knows(q, tour, stops, translations))
    BY DEF ListInv, FlagInv
  <1>2. q.pc # "idle" => q # Idle
    BY DEF Idle
  <1>3. CASE ReadTour(r)
    <2>1. PICK n : Start(r, n) /\ n.pc = "updating"
      BY <1>3 DEF ReadTour
    <2>2. Knows(n, tour, stops, translations)
      BY <2>1 DEF Knows
    <2> QED BY <1>3, <2>1, <2>2, FlagStart DEF ReadTour, rows
  <1>4. CASE SaveTour(r)
    <2>1. PICK n : n = [pc |-> "clearing", route |-> q.route]
      OBVIOUS
    <2>2. q.pc = "updating" /\ tour' = q.row /\ Go(r, n) /\ UNCHANGED <<stops, translations, made>>
      BY <1>4, <2>1 DEF SaveTour
    <2>3. n.pc = "clearing" /\ n.route = q.route /\ HasUpdated(n)
      BY <2>1 DEF HasUpdated
    <2>4. Knows(n, tour', stops', translations')
      BY <1>1, <2>2, <2>3 DEF Knows, Typed
    <2> QED BY <1>2, <2>2, <2>3, <2>4, FlagGo
  <1>5. CASE ClearStops(r)
    <2>1. PICK n : n = IF q.route = <<>> THEN [pc |-> "refreshing"]
                       ELSE [pc |-> "inserting", route |-> q.route]
      OBVIOUS
    <2>2. q.pc = "clearing" /\ stops' = {} /\ Go(r, n) /\ UNCHANGED <<tour, translations, made>>
      BY <1>5, <2>1 DEF ClearStops
    <2>3. n.pc = (IF q.route = <<>> THEN "refreshing" ELSE "inserting") /\ HasUpdated(n)
      BY <2>1 DEF HasUpdated
    <2>4. alone => Knows(n, tour', stops', translations')
      BY <1>1, <2>2, <2>3 DEF Knows, HasItsStops
    <2> QED BY <1>2, <2>2, <2>3, <2>4, FlagGo
  <1>6. CASE InsertStops(r)
    <2>1. q.pc = "inserting" /\ UNCHANGED <<tour, translations, made>>
      BY <1>6 DEF InsertStops
    <2>2. CASE /\ IsUnique(stops \cup StopRows(q.route)) /\ stops \cap StopRows(q.route) = {}
               /\ stops' = stops \cup StopRows(q.route) /\ Go(r, [pc |-> "refreshing"])
      <3>1. IsRoute(q.route) /\ q.route # <<>>
        BY <1>1, <2>1 DEF Typed
      <3>2. StopRows(q.route) # {}
        <4>1. 1 \in 1..Len(q.route)
          BY <3>1 DEF IsRoute
        <4> QED BY <4>1 DEF StopRows
      <3>3. PICK n : n = [pc |-> "refreshing"]
        OBVIOUS
      <3>4. n.pc = "refreshing" /\ HasUpdated(n)
        BY <3>3 DEF HasUpdated
      <3>5. Knows(n, tour', stops', translations')
        BY <2>2, <3>2, <3>4 DEF Knows, HasItsStops
      <3> QED BY <1>2, <2>1, <2>2, <3>3, <3>4, <3>5, FlagGo
    <2>3. CASE Fail(r) /\ UNCHANGED stops
      <3>1. ~settled'
        BY <2>1, <2>3 DEF Fail, HasUpdated
      <3> QED BY <1>2, <2>1, <2>3, <3>1, FlagEnd
    <2> QED BY <1>6, <2>2, <2>3 DEF InsertStops
  <1>7. CASE Refresh(r)
    <2>1. q.pc = "refreshing" /\ UNCHANGED <<tour, stops, translations>> /\ HasUpdated(q)
      BY <1>7 DEF Refresh, rows, HasUpdated
    <2>2. alone => HasItsStops(tour, stops)
      BY <1>1, <2>1 DEF Knows
    <2>3. CASE Go(r, [pc |-> "loading", copies |-> Corrections, updating |-> TRUE])
      <3>1. PICK n : n = [pc |-> "loading", copies |-> Corrections, updating |-> TRUE]
        OBVIOUS
      <3>2. n.pc = "loading" /\ n.copies = Corrections /\ n.updating /\ HasUpdated(n)
        BY <3>1 DEF HasUpdated
      <3>3. alone => Knows(n, tour, stops, translations)
        BY <2>2, <3>2, CorrectionsAreRight DEF Knows
      <3> QED BY <1>2, <2>1, <2>3, <3>1, <3>2, <3>3, FlagGo
    <2>4. CASE (\A l \in Languages : Corrections[l] = NoRow) /\ Finish(r, TRUE)
      <3>1. settled' => alone
        BY <2>4 DEF Finish, FlagInv
      <3>2. settled' => IsCurrent(tour, stops, translations)
        BY <2>2, <2>4, <3>1, CorrectionsAreRight DEF IsCurrent
      <3> QED BY <1>2, <2>1, <2>4, <3>2, FlagEnd
    <2> QED BY <1>7, <2>3, <2>4 DEF Refresh
  <1> QED BY <1>3, <1>4, <1>5, <1>6, <1>7 DEF UpdateStep

\* A handler that saves a right copy of a row.
LEMMA SavingKnows ==
  ASSUME ListInv, FlagInv, NEW r \in Requests, NEW l \in Languages, NEW row, translations[l] # NoRow,
         row.id = translations[l].id, IsRight(tour, stops, row), Start(r, Saving(l, row)),
         UNCHANGED <<tour, stops, translations>>
  PROVE  FlagInv'
PROOF
  <1>1. PICK q : q = Saving(l, row)
    OBVIOUS
  <1>2. /\ q.pc = "loading" /\ ~q.updating /\ q.copies = One(l, row)
    BY <1>1 DEF Saving
  <1>3. \A m \in Languages : q.copies[m] = IF m = l THEN row ELSE NoRow
    BY <1>2 DEF One
  <1>4. Knows(q, tour, stops, translations)
    BY <1>2, <1>3 DEF Knows
  <1> QED BY <1>1, <1>4, FlagStart

\* What a handler makes of a row is right.
LEMMA HandledRight ==
  ASSUME NEW t \in Translation, NEW payload \in SUBSET (Fields \cup Stops)
  PROVE  /\ IsRight(tour, stops, Edited(t, payload)) /\ Edited(t, payload).id = t.id
         /\ \A ready, shown \in BOOLEAN : ready = Ready(tour, stops, t.payload) /\ (shown => ready) =>
              LET row == [t EXCEPT !.isReady = ready, !.isPublished = shown] IN
              IsRight(tour, stops, row) /\ row.id = t.id
PROOF
  <1>1. IsRight(tour, stops, Edited(t, payload)) /\ Edited(t, payload).id = t.id
    <2>1. PICK ready \in BOOLEAN : ready = Ready(tour, stops, payload)
      BY ReadyIsBoolean
    <2>2. PICK row : row = Edited(t, payload)
      OBVIOUS
    <2>3. row = [id |-> t.id, payload |-> payload, isReady |-> ready,
                 isPublished |-> t.isPublished /\ ready]
      BY <2>1, <2>2, HandledTyped, Zenon
    <2>4. row.id = t.id /\ row.payload = payload /\ row.isReady = ready /\ (row.isPublished => row.isReady)
      BY <2>3
    <2> QED BY <2>1, <2>2, <2>4, Zenon DEF IsRight
  <1>2. ASSUME NEW ready \in BOOLEAN, NEW shown \in BOOLEAN,
               ready = Ready(tour, stops, t.payload), shown => ready,
               NEW row, row = [t EXCEPT !.isReady = ready, !.isPublished = shown]
        PROVE  IsRight(tour, stops, row) /\ row.id = t.id
    <2>1. row = [id |-> t.id, payload |-> t.payload, isReady |-> ready, isPublished |-> shown]
      BY <1>2, FlagsSet
    <2>2. row.id = t.id /\ row.payload = t.payload /\ row.isReady = ready /\ (row.isPublished => row.isReady)
      BY <1>2, <2>1
    <2> QED BY <1>2, <2>2, Zenon DEF IsRight
  <1> QED BY <1>1, <1>2

\* A handler of a translation keeps the flags.
LEMMA TranslationKeepsFlags ==
  ASSUME ListInv, FlagInv, NEW r \in Requests, TranslationStep(r)
  PROVE  FlagInv'
PROOF
  <1> PICK q : q = requests[r]
    OBVIOUS
  <1>1. /\ Typed(q) /\ (alone => Knows(q, tour, stops, translations))
        /\ translations \in Copies /\ (settled => alone)
    BY DEF ListInv, FlagInv
  <1>2. q.pc # "idle" => q # Idle
    BY DEF Idle
  <1>3. ASSUME NEW l \in Languages, translations[l] # NoRow
        PROVE  translations[l] \in Translation /\ translations[l].payload \in SUBSET (Fields \cup Stops)
    BY <1>1, <1>3 DEF Copies, Translation
  <1>4. ASSUME NEW l \in Languages, Create(r, l) PROVE FlagInv'
    <2>1. UNCHANGED <<tour, stops, translations>> /\ translations[l] = NoRow
      BY <1>4 DEF Create
    <2>2. PICK payload \in Payloads :
            Start(r, [pc |-> "writing", seen |-> One(l, NoRow), updating |-> FALSE,
             copies |-> One(l, [id |-> made + 1, payload |-> payload,
                                isReady |-> Ready(tour, stops, payload), isPublished |-> FALSE])])
      BY <1>4, Zenon DEF Create
    <2>10. PICK row : row = [id |-> made + 1, payload |-> payload,
                            isReady |-> Ready(tour, stops, payload), isPublished |-> FALSE]
      OBVIOUS
    <2>3. PICK n : n = [pc |-> "writing", copies |-> One(l, row), seen |-> One(l, NoRow), updating |-> FALSE]
      OBVIOUS
    <2>4. PICK ready \in BOOLEAN : ready = Ready(tour, stops, payload)
      BY ReadyIsBoolean
    <2>5. row = [id |-> made + 1, payload |-> payload, isReady |-> ready, isPublished |-> FALSE]
      BY <2>10, <2>4, Zenon
    <2>6. row.payload = payload /\ row.isReady = ready /\ ~row.isPublished
      BY <2>5
    <2>7. IsRight(tour, stops, row)
      BY <2>4, <2>6, Zenon DEF IsRight
    <2>8. /\ n.pc = "writing" /\ ~n.updating
          /\ \A m \in Languages : n.copies[m] = (IF m = l THEN row ELSE NoRow) /\ n.seen[m] = NoRow
      BY <2>3 DEF One
    <2>9. Knows(n, tour, stops, translations)
      BY <2>1, <2>7, <2>8 DEF Knows
    <2> QED BY <2>1, <2>2, <2>10, <2>3, <2>9, FlagStart
  <1>5. ASSUME NEW l \in Languages, Edit(r, l) PROVE FlagInv'
    <2>1. PICK payload \in Payloads \cup {translations[l].payload} :
            Start(r, Saving(l, Edited(translations[l], payload)))
      BY <1>5 DEF Edit
    <2>2. translations[l] # NoRow /\ UNCHANGED <<tour, stops, translations>>
      BY <1>5 DEF Edit, rows
    <2>3. payload \in SUBSET (Fields \cup Stops)
      BY <1>3, <2>2, PublicationAssumption
    <2> QED BY <1>3, <2>1, <2>2, <2>3, HandledRight, SavingKnows
  <1>6. ASSUME NEW l \in Languages, NEW ready \in BOOLEAN, NEW shown \in BOOLEAN, translations[l] # NoRow,
               ready = Ready(tour, stops, translations[l].payload), shown => ready,
               Start(r, Saving(l, [translations[l] EXCEPT !.isReady = ready, !.isPublished = shown])),
               UNCHANGED <<tour, stops, translations>>
        PROVE  FlagInv'
    <2>1. PICK row : row = [translations[l] EXCEPT !.isReady = ready, !.isPublished = shown]
      OBVIOUS
    <2>2. IsRight(tour, stops, row) /\ row.id = translations[l].id
      BY <1>3, <1>6, <2>1, HandledRight
    <2> QED BY <1>6, <2>1, <2>2, SavingKnows
  <1>7. ASSUME NEW l \in Languages, Publish(r, l) \/ Unpublish(r, l) PROVE FlagInv'
    <2>1. PICK ready \in BOOLEAN : ready = Ready(tour, stops, translations[l].payload)
      BY ReadyIsBoolean
    <2>2. translations[l] # NoRow /\ UNCHANGED <<tour, stops, translations>>
      BY <1>7 DEF Publish, Unpublish, rows
    <2>3. \E shown \in {ready, FALSE} :
            Start(r, Saving(l, [translations[l] EXCEPT !.isReady = ready, !.isPublished = shown]))
      BY <1>7, <2>1, Zenon DEF Publish, Unpublish
    <2> QED BY <1>6, <2>1, <2>2, <2>3
  <1>8. ASSUME NEW l \in Languages, ReadToDelete(r, l) PROVE FlagInv'
    <2>1. PICK n : Start(r, n) /\ n.pc = "deleting"
      BY <1>8 DEF ReadToDelete
    <2>2. Knows(n, tour, stops, translations)
      BY <2>1 DEF Knows
    <2> QED BY <1>8, <2>1, <2>2, FlagStart DEF ReadToDelete, rows
  <1>9. CASE Load(r)
    <2>1. PICK n : n = [pc |-> "writing", copies |-> q.copies, updating |-> q.updating,
                        seen |-> [l \in Languages |-> Stored(l, q.copies[l])]]
      OBVIOUS
    <2>2. q.pc = "loading" /\ Go(r, n) /\ UNCHANGED <<tour, stops, translations>>
      BY <1>9, <2>1 DEF Load, rows
    <2>3. /\ n.pc = "writing" /\ n.copies = q.copies /\ n.updating = q.updating
          /\ \A l \in Languages : n.seen[l] = Stored(l, q.copies[l])
      BY <2>1
    <2>4. ASSUME alone PROVE Knows(n, tour, stops, translations)
      <3>1. \A l \in Languages : q.copies[l] # NoRow => translations[l] = n.seen[l]
        BY <1>1, <2>2, <2>3, <2>4 DEF Knows, Stored
      <3> QED BY <1>1, <2>2, <2>3, <2>4, <3>1 DEF Knows
    <2>5. HasUpdated(n) <=> HasUpdated(q)
      BY <2>2, <2>3 DEF HasUpdated
    <2>6. settled /\ ~HasUpdated(n) => IsCurrent(tour, stops, translations)
      BY <1>2, <2>2, <2>5, NothingToCorrect
    <2> QED BY <1>2, <2>2, <2>4, <2>6, FlagGo
  <1>10. CASE Write(r)
    <2>1. q.pc = "writing" /\ UNCHANGED <<tour, stops, made>>
      BY <1>10 DEF Write
    <2>2. CASE Fail(r) /\ UNCHANGED translations
      <3>1. settled' => settled /\ ~HasUpdated(q)
        BY <2>2 DEF Fail
      <3>2. settled' => IsCurrent(tour, stops, translations)
        BY <1>2, <2>1, <3>1, NothingToCorrect
      <3> QED BY <1>2, <2>1, <2>2, <3>2, FlagEnd
    <2>3. CASE translations' = Result(q) /\ Finish(r, q.updating)
      <3>1. q.updating \in BOOLEAN
        BY <1>1, <2>1 DEF Typed
      <3>2. settled' => alone /\ (q.updating \/ settled)
        BY <1>1, <2>3 DEF Finish
      <3>3. ASSUME settled' PROVE IsCurrent(tour, stops, translations')
        <4>1. Knows(q, tour, stops, translations)
          BY <1>1, <3>2, <3>3
        <4>2. \A l \in Languages :
                translations'[l] = IF q.copies[l] = NoRow THEN translations[l] ELSE q.copies[l]
          BY <2>1, <2>3, <4>1, CopiesAreWritten
        <4>3. \A l \in Languages : q.copies[l] # NoRow => IsRight(tour, stops, q.copies[l])
          BY <2>1, <4>1 DEF Knows
        <4>4. /\ HasItsStops(tour, stops)
              /\ \A l \in Languages : q.copies[l] = NoRow /\ translations[l] # NoRow =>
                   IsRight(tour, stops, translations[l])
          <5>1. CASE q.updating
            BY <2>1, <4>1, <5>1 DEF Knows
          <5>2. CASE ~q.updating
            <6>1. ~HasUpdated(q)
              BY <2>1, <5>2 DEF HasUpdated
            <6>2. IsCurrent(tour, stops, translations)
              BY <1>2, <2>1, <3>2, <3>3, <5>2, <6>1, NothingToCorrect
            <6> QED BY <6>2 DEF IsCurrent
          <5> QED BY <5>1, <5>2
        <4> QED BY <4>2, <4>3, <4>4 DEF IsCurrent
      <3> QED BY <1>2, <2>1, <2>3, <3>1, <3>3, FlagEnd
    <2> QED BY <1>10, <2>2, <2>3 DEF Write
  <1>11. CASE Delete(r)
    <2>1. q.pc = "deleting" /\ UNCHANGED <<tour, stops, made>> /\ Finish(r, FALSE)
      BY <1>11 DEF Delete
    <2>2. \A l \in Languages : translations'[l] \in {NoRow, translations[l]}
      BY <1>1, <1>11 DEF Delete, Copies
    <2>3. ~HasUpdated(q) /\ (settled' => settled)
      BY <2>1 DEF HasUpdated, Finish
    <2>4. settled' => IsCurrent(tour, stops, translations)
      BY <1>2, <2>1, <2>3, NothingToCorrect
    <2>5. settled' => IsCurrent(tour', stops', translations')
      BY <2>1, <2>2, <2>4 DEF IsCurrent
    <2> QED BY <1>2, <2>1, <2>5, FlagEnd
  <1> QED BY <1>4, <1>5, <1>7, <1>8, <1>9, <1>10, <1>11 DEF TranslationStep

\* What requests that meet no other know, and that nothing is left to correct when they are
\* through, is kept by every step: the inductive invariant.
THEOREM FlagsInOrder == Spec => [](ListInv /\ FlagInv)
PROOF
  <1>1. Init => FlagInv
    <2> SUFFICES ASSUME Init PROVE FlagInv
      OBVIOUS
    <2>1. \A r \in Requests : requests[r] = Idle
      BY DEF Init
    <2>2. IsCurrent(tour, stops, translations)
      BY DEF Init, IsCurrent, HasItsStops
    <2> QED BY <2>1, <2>2, IdleKnows DEF Init, FlagInv
  <1>2. ListInv /\ FlagInv /\ [Next]_vars => FlagInv'
    <2> SUFFICES ASSUME ListInv, FlagInv, [Next]_vars PROVE FlagInv'
      OBVIOUS
    <2>1. ASSUME NEW r \in Requests, Abort(r) PROVE FlagInv'
      <3>1. requests[r] # Idle /\ Fail(r) /\ UNCHANGED <<tour, stops, translations>>
        BY <2>1 DEF Abort, rows
      <3>2. settled' => settled /\ ~HasUpdated(requests[r])
        BY <3>1 DEF Fail
      <3>3. settled' => IsCurrent(tour, stops, translations)
        BY <3>1, <3>2, NothingToCorrect
      <3> QED BY <3>1, <3>3, FlagEnd
    <2>2. CASE UNCHANGED vars
      BY <2>2 DEF vars, rows, FlagInv
    <2> QED BY <2>1, <2>2, UpdateKeepsFlags, TranslationKeepsFlags DEF Next
  <1> QED BY <1>1, <1>2, ListsInOrder, PTL DEF Spec

\* As long as requests neither overlap nor break off, the flags are what they should be and the
\* back office reports what the public site shows; it never reports what the site withholds.
THEOREM FlagsStayCurrent == Spec => []FlagsAreCurrent
PROOF
  <1>1. ListInv /\ FlagInv => FlagsAreCurrent
    <2> SUFFICES ASSUME ListInv, FlagInv PROVE FlagsAreCurrent
      OBVIOUS
    <2>1. AtRest => IsCurrent(tour, stops, translations)
      BY IdleKnows DEF AtRest, FlagInv
    <2>2. AtRest => \A l \in Languages : translations[l] # NoRow =>
            LET t == translations[l] IN
            /\ t.isReady = Ready(tour, stops, t.payload)
            /\ t.isPublished => t.isReady
      BY <2>1, Zenon DEF IsCurrent, IsRight
    <2>3. ASSUME NEW l \in Languages, AdminShows(l) PROVE PublicShows(l)
      <3>1. tour.variant \in {"none", "description", "stops"}
        BY DEF ListInv, Tour
      <3>2. IsValid(tour, stops)
        BY <2>3, <3>1 DEF AdminShows, IsBlocked, IsValid
      <3>3. IsSound(translations[l])
        BY <2>3, Zenon DEF AdminShows, IsPayloadValid, IsSound
      <3> QED BY <2>3, <3>2, <3>3, Zenon DEF AdminShows, PublicShows
    <2>4. ASSUME AtRest, NEW l \in Languages, PublicShows(l) PROVE AdminShows(l)
      <3>1. ~IsBlocked(tour, stops)
        BY <2>1, <2>4 DEF PublicShows, IsValid, IsBlocked, IsCurrent, HasItsStops
      <3>2. IsPayloadValid(translations[l])
        BY <2>4, Zenon DEF PublicShows, IsValid, IsSound, IsPayloadValid
      <3> QED BY <2>4, <3>1, <3>2, Zenon DEF PublicShows, IsSound, AdminShows
    <2> QED BY <2>2, <2>3, <2>4, Zenon DEF FlagsAreCurrent
  <1> QED BY <1>1, FlagsInOrder, PTL

=============================================================================
