---------------------------- MODULE TourPublication ----------------------------
(***************************************************************************)
(* One tour, its stops and its translations: update and the translation    *)
(* handlers of src/src/tours/tours.service.ts, and what                    *)
(* src/src/tours/public-tours.service.ts shows of it.                      *)
(*                                                                         *)
(* None of it is in one transaction.  update writes the tour, deletes its  *)
(* stops, inserts the new ones, reads everything again and corrects the    *)
(* flags of the translations; a translation handler reads the tour and     *)
(* saves one translation.  A save of translations is two statements: it    *)
(* reads the rows and writes the columns that differ from its copies.  The *)
(* save of the tour is one action here, for its columns take any values;   *)
(* when it is refused, as it is if the tour has got other stops or         *)
(* translations since it was read, the request aborts.                     *)
(*                                                                         *)
(* A payload is the set of fields and stops it has texts for; a schema,    *)
(* the fields it knows and the ones it requires.                           *)
(***************************************************************************)
EXTENDS Integers, Sequences, FiniteSets, SequencesExt

CONSTANTS
  Languages,  \* codes of the languages
  Fields,     \* localized fields
  Lists,      \* the field that stands for highlights, included and notIncluded
  Stops,      \* ids of stops
  Schemas,    \* content schemas requests send
  Conditions, \* the other columns requests send: whether they are sound, whether of a company tour
  Payloads,   \* payloads requests send
  Routes,     \* lists of stops requests send
  Requests,   \* slots for requests in flight
  MaxRows,    \* translations ever inserted
  NoSchema, NoRow

\* What validateOrThrow of the schema policy lets through: a field may be required that
\* is not known.
Schema == [known : SUBSET Fields, required : SUBSET Fields]

ASSUME PublicationAssumption ==
  /\ Lists \in Fields /\ Fields \cap Stops = {}
  /\ Schemas \subseteq Schema
  /\ Conditions \subseteq [sound : BOOLEAN, company : BOOLEAN]
  /\ Payloads \subseteq SUBSET (Fields \cup Stops)
  /\ Routes \subseteq Seq(Stops)
  /\ MaxRows \in Nat

\* A translation's row.
Translation ==
  [id : 1..MaxRows, payload : SUBSET (Fields \cup Stops), isReady : BOOLEAN, isPublished : BOOLEAN]

ASSUME NothingAssumption == NoRow \notin Translation

VARIABLES
  tour,          \* tours row: its schema, the itinerary's variant, whether rating, review count
                 \* and duration are set and no tip-based tour has a price, whether it is a company tour
  stops,         \* tour_itinerary_stops rows
  translations,  \* tour_translations rows, by language
  made,          \* ids of translations given out
  requests,      \* requests in flight
  alone,         \* the request in flight, if any, has overlapped with no other (history)
  settled        \* nothing has overlapped or failed since an update that was alone (history)

rows == <<tour, stops, translations, made>>
vars == <<rows, requests, alone, settled>>

Idle == [pc |-> "idle"]

Init ==
  /\ tour \in [schema : {NoSchema}, variant : {"none"}, sound : {FALSE}, company : BOOLEAN]
  /\ stops = {}
  /\ translations = [l \in Languages |-> NoRow]
  /\ made = 0
  /\ requests = [r \in Requests |-> Idle]
  /\ alone = TRUE
  /\ settled = TRUE

-----------------------------------------------------------------------------
(* Validity *)

StopIds(table) == { s.stop : s \in table }

\* A schema accepts a payload it knows all fields of and which has the required ones.
Accepts(schema, payload) == payload \cap Fields \subseteq schema.known /\ schema.required \subseteq payload

\* createDraftSchema
DraftSchema(schema) == [schema EXCEPT !.required = {}]

\* validateDraftPayloadAgainstSchema; a tour without a schema takes any draft.
AcceptsDraft(schema, payload) == schema # NoSchema => Accepts(DraftSchema(schema), payload)

\* Every stop has its title and description.
HasStops(row, table, payload) == row.variant = "stops" => StopIds(table) \subseteq payload

\* calculateTranslationReadiness
Ready(row, table, payload) ==
  /\ row.schema # NoSchema /\ Accepts(row.schema, payload)
  /\ Lists \in payload
  /\ HasStops(row, table, payload)

\* getSharedPublicationBlockers
IsBlocked(row, table) ==
  \/ row.schema = NoSchema \/ row.variant = "none" \/ ~row.sound
  \/ row.variant = "stops" /\ table = {}

\* isTranslationPayloadValid: what is not marked ready is held to the draft schema.
IsPayloadValid(t) ==
  /\ tour.schema # NoSchema
  /\ Accepts(IF t.isReady THEN tour.schema ELSE DraftSchema(tour.schema), t.payload)
  /\ t.isReady => Lists \in t.payload

\* A translation's publiclyAvailable, as the back office sees it.
AdminShows(l) ==
  LET t == translations[l] IN
  /\ t # NoRow
  /\ ~IsBlocked(tour, stops)
  /\ t.isReady /\ t.isPublished
  /\ Lists \in t.payload
  /\ IsPayloadValid(t)
  /\ HasStops(tour, stops, t.payload)

\* getSharedInvalidReason finds none; a company tour is not asked for stops.
IsValid(row, table) ==
  /\ row.schema # NoSchema /\ row.variant # "none" /\ row.sound
  /\ row.company \/ row.variant = "description" \/ table # {}

\* getTranslationInvalidReason finds none.
IsSound(t) ==
  /\ Accepts(tour.schema, t.payload)
  /\ Lists \in t.payload
  /\ HasStops(tour, stops, t.payload)

\* toPublicResponse
PublicShows(l) ==
  LET t == translations[l] IN
  /\ t # NoRow
  /\ IsValid(tour, stops)
  /\ t.isReady /\ t.isPublished
  /\ IsSound(t)

-----------------------------------------------------------------------------
(* Requests *)

NoneBut(r) == \A q \in Requests \ {r} : requests[q] = Idle

Start(r, request) ==
  /\ requests[r] = Idle
  /\ requests' = [requests EXCEPT ![r] = request]
  /\ alone' = NoneBut(r)
  /\ settled' = (settled /\ NoneBut(r))

Go(r, request) ==
  /\ requests' = [requests EXCEPT ![r] = request]
  /\ UNCHANGED <<alone, settled>>

\* The end of a request; an update that was alone has put everything right.
Finish(r, updated) ==
  /\ requests' = [requests EXCEPT ![r] = Idle]
  /\ alone' = (alone \/ NoneBut(r))
  /\ settled' = (settled \/ (updated /\ alone))

\* An update that has saved the tour and is not through.
HasUpdated(q) ==
  \/ q.pc \in {"clearing", "inserting", "refreshing"}
  \/ q.pc \in {"loading", "writing"} /\ q.updating

\* A request that stops half way; nothing is undone.
Fail(r) ==
  /\ requests' = [requests EXCEPT ![r] = Idle]
  /\ alone' = (alone \/ NoneBut(r))
  /\ settled' = (settled /\ ~HasUpdated(requests[r]))

-----------------------------------------------------------------------------
(* update *)

\* The stops in their order.
RouteOf(table) == [i \in 1..Cardinality(table) |-> (CHOOSE s \in table : s.order = i - 1).stop]

\* getExistingItinerary
ExistingItinerary ==
  [variant |-> tour.variant, route |-> IF tour.variant = "stops" THEN RouteOf(stops) ELSE <<>>]

\* What UpdateTourDto lets a request send; what it leaves out stays as it is.
Sent ==
  [schema    : {tour.schema} \cup Schemas,
   given     : Conditions,
   itinerary : { [variant |-> "description", route |-> <<>>], ExistingItinerary }
                 \cup [variant : {"stops"}, route : Routes]]

\* buildSharedAggregate
Aggregate(sent) ==
  [schema |-> sent.schema, variant |-> sent.itinerary.variant,
   sound |-> sent.given.sound, company |-> sent.given.company]

\* validateSharedRules
IsAcceptable(itinerary) ==
  itinerary.variant = "stops" =>
    itinerary.route # <<>> /\ Cardinality(ToSet(itinerary.route)) = Len(itinerary.route)

\* The tour is read and changed.
ReadTour(r) ==
  /\ \E sent \in Sent :
       /\ IsAcceptable(sent.itinerary)
       /\ Start(r, [pc |-> "updating", route |-> sent.itinerary.route, row |-> Aggregate(sent)])
  /\ UNCHANGED rows

SaveTour(r) ==
  /\ requests[r].pc = "updating"
  /\ tour' = requests[r].row
  /\ Go(r, [pc |-> "clearing", route |-> requests[r].route])
  /\ UNCHANGED <<stops, translations, made>>

\* replaceStops: the delete.
ClearStops(r) ==
  /\ requests[r].pc = "clearing"
  /\ stops' = {}
  /\ Go(r, IF requests[r].route = <<>> THEN [pc |-> "refreshing"]
           ELSE [pc |-> "inserting", route |-> requests[r].route])
  /\ UNCHANGED <<tour, translations, made>>

\* UQ_tour_stop_id and UQ_tour_stop_order
DistinctRows(table) ==   \* mistake
  \A s, u \in table : s # u => s.stop # u.stop \/ s.order # u.order
IsUnique(table) == \A s, u \in table : s # u => s.stop # u.stop /\ s.order # u.order

\* The rows of the new stops, in their order.
StopRows(route) == { [stop |-> route[i], order |-> i - 1] : i \in 1..Len(route) }

\* replaceStops: the inserts, in the transaction of one save, or their refusal.
InsertStops(r) ==
  LET table == stops \cup StopRows(requests[r].route)
      fits  == IsUnique(table) /\ stops \cap StopRows(requests[r].route) = {}
  IN
  /\ requests[r].pc = "inserting"
  /\ \/ fits  /\ stops' = table /\ Go(r, [pc |-> "refreshing"])
     \/ ~fits /\ Fail(r) /\ UNCHANGED stops
  /\ UNCHANGED <<tour, translations, made>>

\* The flags recalculateAndPersistTranslations gives a translation.
Corrected(t) ==
  LET ready == Ready(tour, stops, t.payload) IN
  [t EXCEPT !.isReady = ready, !.isPublished = t.isPublished /\ ready]

\* The translations whose flags are wrong, corrected.
Corrections ==
  [l \in Languages |->
     IF translations[l] = NoRow \/ Corrected(translations[l]) = translations[l] THEN NoRow
     ELSE Corrected(translations[l])]

\* Everything is read again.
Refresh(r) ==
  /\ requests[r].pc = "refreshing"
  /\ \/ /\ \E l \in Languages : Corrections[l] # NoRow
        /\ Go(r, [pc |-> "loading", copies |-> Corrections, updating |-> TRUE])
     \/ /\ \A l \in Languages : Corrections[l] = NoRow
        /\ Finish(r, TRUE)
  /\ UNCHANGED rows

-----------------------------------------------------------------------------
(* Saving translations *)

One(l, row) == [m \in Languages |-> IF m = l THEN row ELSE NoRow]

\* The row with the id of a copy, if it is there.
Stored(l, copy) ==
  IF copy # NoRow /\ translations[l] # NoRow /\ translations[l].id = copy.id
  THEN translations[l] ELSE NoRow

\* The first statement of a save.
Load(r) ==
  /\ requests[r].pc = "loading"
  /\ LET q == requests[r] IN
     Go(r, [pc |-> "writing", copies |-> q.copies, updating |-> q.updating,
            seen |-> [l \in Languages |-> Stored(l, q.copies[l])]])
  /\ UNCHANGED rows

\* A column is written if the copy differs from what the save has read.
Column(now, seen, copy) == IF copy = seen THEN now ELSE copy

Written(now, seen, copy) ==
  [id |-> now.id,
   payload     |-> Column(now.payload, seen.payload, copy.payload),
   isReady     |-> Column(now.isReady, seen.isReady, copy.isReady),
   isPublished |-> Column(now.isPublished, seen.isPublished, copy.isPublished)]

\* UQ_tour_translation_locale: a row the save did not find is inserted.
IsRefused(q) ==
  \E l \in Languages : q.copies[l] # NoRow /\ q.seen[l] = NoRow /\ translations[l] # NoRow

Result(q) ==
  [l \in Languages |->
     IF q.copies[l] = NoRow THEN translations[l]
     ELSE IF q.seen[l] = NoRow THEN q.copies[l]
     ELSE IF Stored(l, q.copies[l]) = NoRow THEN translations[l]
     ELSE Written(translations[l], q.seen[l], q.copies[l])]

\* The second statement of a save.
Write(r) ==
  /\ requests[r].pc = "writing"
  /\ LET q == requests[r] IN
     \/ IsRefused(q)  /\ Fail(r) /\ UNCHANGED translations
     \/ ~IsRefused(q) /\ translations' = Result(q) /\ Finish(r, q.updating)
  /\ UNCHANGED <<tour, stops, made>>

-----------------------------------------------------------------------------
(* The handlers of a translation *)

\* createTranslation
Create(r, l) ==
  /\ translations[l] = NoRow
  /\ made < MaxRows
  /\ made' = made + 1
  /\ \E payload \in Payloads :
       LET row == [id |-> made + 1, payload |-> payload,
                   isReady |-> Ready(tour, stops, payload), isPublished |-> FALSE] IN
       /\ AcceptsDraft(tour.schema, payload)
       /\ Start(r, [pc |-> "writing", copies |-> One(l, row), seen |-> One(l, NoRow), updating |-> FALSE])
  /\ UNCHANGED <<tour, stops, translations>>

Saving(l, row) == [pc |-> "loading", copies |-> One(l, row), updating |-> FALSE]

\* updateTranslation: what becomes unready is unpublished.
StayPublished(t, payload) ==   \* mistake
  [t EXCEPT !.payload = payload, !.isReady = Ready(tour, stops, payload)]
Edited(t, payload) ==
  [t EXCEPT !.payload = payload, !.isReady = Ready(tour, stops, payload),
            !.isPublished = t.isPublished /\ Ready(tour, stops, payload)]

Edit(r, l) ==
  /\ translations[l] # NoRow
  /\ \E payload \in Payloads \cup {translations[l].payload} :
       /\ AcceptsDraft(tour.schema, payload)
       /\ Start(r, Saving(l, Edited(translations[l], payload)))
  /\ UNCHANGED rows

\* publishTranslation: one that turns out unready is saved as such, and refused.
Publish(r, l) ==
  /\ translations[l] # NoRow
  /\ ~IsBlocked(tour, stops)
  /\ LET ready == Ready(tour, stops, translations[l].payload) IN
     Start(r, Saving(l, [translations[l] EXCEPT !.isReady = ready, !.isPublished = ready]))
  /\ UNCHANGED rows

\* unpublishTranslation
Unpublish(r, l) ==
  /\ translations[l] # NoRow
  /\ Start(r, Saving(l, [translations[l] EXCEPT
                           !.isReady = Ready(tour, stops, translations[l].payload),
                           !.isPublished = FALSE]))
  /\ UNCHANGED rows

\* deleteTranslation: read, then deleted by its id.
ReadToDelete(r, l) ==
  /\ translations[l] # NoRow
  /\ Start(r, [pc |-> "deleting", language |-> l, id |-> translations[l].id])
  /\ UNCHANGED rows

Delete(r) ==
  /\ requests[r].pc = "deleting"
  /\ LET q == requests[r] IN
     translations' = [translations EXCEPT ![q.language] =
                        IF @ # NoRow /\ @.id = q.id THEN NoRow ELSE @]
  /\ Finish(r, FALSE)
  /\ UNCHANGED <<tour, stops, made>>

-----------------------------------------------------------------------------

\* A process dies, or the database refuses a statement.
Abort(r) == requests[r] # Idle /\ Fail(r) /\ UNCHANGED rows

UpdateStep(r) ==
  ReadTour(r) \/ SaveTour(r) \/ ClearStops(r) \/ InsertStops(r) \/ Refresh(r)

TranslationStep(r) ==
  \/ \E l \in Languages :
       Create(r, l) \/ Edit(r, l) \/ Publish(r, l) \/ Unpublish(r, l) \/ ReadToDelete(r, l)
  \/ Load(r) \/ Write(r) \/ Delete(r)

Next == \E r \in Requests : UpdateStep(r) \/ TranslationStep(r) \/ Abort(r)

Spec == Init /\ [][Next]_vars

-----------------------------------------------------------------------------
(* Properties *)

\* However updates overlap or break off, the stops in the table are the list of one
\* of them, whole and in order, or none: a list inserted into another's would use its
\* first place.
StopsAreOneList ==
  /\ { s.order : s \in stops } = 0..(Cardinality(stops) - 1)
  /\ Cardinality(StopIds(stops)) = Cardinality(stops)

AtRest == settled /\ \A r \in Requests : requests[r] = Idle

\* As long as requests neither overlap nor break off, and again after the next update
\* that does not, every translation is marked ready exactly if it is, none is published
\* that is not, and the back office reports as publicly available what the public site
\* shows; it never reports what the site withholds, in the middle of any handler.
FlagsAreCurrent ==
  /\ AtRest => \A l \in Languages : translations[l] # NoRow =>
       LET t == translations[l] IN
       /\ t.isReady = Ready(tour, stops, t.payload)
       /\ t.isPublished => t.isReady
  /\ \A l \in Languages :
       /\ AdminShows(l) => PublicShows(l)
       /\ AtRest /\ PublicShows(l) => AdminShows(l)
=============================================================================
