----------------------------- MODULE EventSchedule -----------------------------
(***************************************************************************)
(* One event with its confirmed dates, and the guides' days off: the       *)
(* handlers of src/src/events/events.service.ts and the availability part  *)
(* of src/src/team-members/team-members.service.ts.                        *)
(*                                                                         *)
(* A handler reads the event (or the date), checks, and saves what it has  *)
(* read with its changes in it: whatever was committed in between is put   *)
(* back, and a row removed in between is inserted again.  The save of an   *)
(* event that has got dates since it was read is refused, because it       *)
(* would take them away from their event.  Nothing is in one transaction   *)
(* with the reads.                                                         *)
(***************************************************************************)
EXTENDS Availability

CONSTANTS
  Events,    \* events requests create
  Patches,   \* fields requests change of one
  Requested, \* instants requests confirm or ask the picker for
  Windows,   \* windows the calendar is asked for
  Guides,    \* ids of team members
  Blocks,    \* days off requests enter
  Rules,     \* weekly rules requests enter
  Requests,  \* slots for requests in flight
  MaxDates   \* dates confirmed after which no confirmation starts

EventFrequencies == {"single", "recurring"}

\* What a request creates an event with.
EventFields ==
  [start : Nat, duration : Nat \ {0}, frequency : EventFrequencies,
   rule : RecurrenceRule \cup {NoRule}]

\* ... and changes it with: any of its fields.
IsPatch(patch) ==
  /\ DOMAIN patch \subseteq {"start", "duration", "frequency", "rule"}
  /\ "start" \in DOMAIN patch => patch.start \in Nat
  /\ "duration" \in DOMAIN patch => patch.duration \in Nat \ {0}
  /\ "frequency" \in DOMAIN patch => patch.frequency \in EventFrequencies
  /\ "rule" \in DOMAIN patch => patch.rule \in RecurrenceRule

ASSUME ScheduleAssumption ==
  /\ Events \subseteq EventFields
  /\ \A patch \in Patches : IsPatch(patch)
  /\ Blocks \subseteq UnavailableDates(Guides)
  /\ Rules \subseteq RecurringUnavailability(Guides)
  /\ Requested \subseteq Nat /\ Windows \subseteq [from : Nat, to : Nat]
  /\ MaxDates \in Nat

VARIABLES
  event,      \* events row
  dates,      \* event_occurrences rows with the guides of each
  made,       \* ids of dates given out
  members,    \* team_members rows
  blocks,     \* team_member_unavailable_dates rows
  rules,      \* team_member_recurring_unavailability rows
  requests,   \* requests in flight
  calm        \* no request has met another (history)

schedule == <<event, dates, made>>
roster == <<members, blocks, rules>>
vars == <<schedule, roster, requests, calm>>

Idle == [pc |-> "idle"]
Quiet == \A r \in Requests : requests[r] = Idle
IsStored == event.status \in {"active", "cancelled"}
Ids == { d.id : d \in dates }

Init ==
  /\ event = [status |-> "none"]
  /\ dates = {} /\ made = 0
  /\ members = Guides /\ blocks = {} /\ rules = {}
  /\ requests = [r \in Requests |-> Idle]
  /\ calm = TRUE

-----------------------------------------------------------------------------
(* Requests *)

Start(r, request) ==
  /\ requests[r] = Idle
  /\ requests' = [requests EXCEPT ![r] = request]
  /\ calm' = (calm /\ Quiet)
  /\ UNCHANGED <<schedule, roster>>

Finish(r) ==
  /\ requests' = [requests EXCEPT ![r] = Idle]
  /\ UNCHANGED <<roster, calm>>

\* An operation of one statement.
AtOnce == calm' = (calm /\ Quiet) /\ UNCHANGED requests

-----------------------------------------------------------------------------
(* The event *)

IsSound(row) ==   \* assertRecurrenceWindow, and a rule for what recurs
  row.frequency = "recurring" =>
    /\ row.rule # NoRule
    /\ row.rule.until # NoEnd => row.rule.until >= row.start

\* The row with the changes made: what happens once has no rule.
Patched(row, patch) ==
  LET new == [f \in DOMAIN row \cup DOMAIN patch |-> IF f \in DOMAIN patch THEN patch[f] ELSE row[f]]
  IN [new EXCEPT !.rule = IF new.frequency = "single" THEN NoRule ELSE @]

Create(row) ==
  /\ event.status = "none"
  /\ event' = Patched(row, [status |-> "active"])
  /\ IsSound(event')
  /\ AtOnce
  /\ UNCHANGED <<dates, made, roster>>

Reading(pc, row) == [pc |-> pc, row |-> row, ids |-> Ids]

StartUpdate(r, patch) ==
  /\ IsStored
  /\ IsSound(Patched(event, patch))
  /\ Start(r, Reading("saving", Patched(event, patch)))

StartCancel(r) ==
  /\ IsStored
  /\ Start(r, Reading("saving", [event EXCEPT !.status = "cancelled"]))

\* update and cancel, their save
SaveEvent(r) ==
  LET q == requests[r] IN
  /\ q.pc = "saving"
  /\ event' = IF Ids \subseteq q.ids THEN q.row ELSE event
  /\ Finish(r)
  /\ UNCHANGED <<dates, made>>

\* Its dates go with it.
Remove ==
  /\ IsStored
  /\ event' = [status |-> "gone"]
  /\ dates' = {}
  /\ AtOnce
  /\ UNCHANGED <<made, roster>>

-----------------------------------------------------------------------------
(* The calendar *)

\* listCalendar: stored dates, and candidates of the rule that are none of them.
GhostsOfAll(from, to) ==   \* mistake
  IF ~IsStored THEN {} ELSE Expand(event, from, to) \ { d.date : d \in dates }
Ghosts(from, to) ==
  IF event.status # "active" THEN {} ELSE Expand(event, from, to) \ { d.date : d \in dates }

\* The items of mergeOccurrenceWindow, in two passes: stored dates that are candidates,
\* then the stored dates in the window that are not.
StoredItems(candidates, from, to) ==
  LET seen == { d \in dates : d.date \in candidates }
  IN seen \cup { d \in dates \ seen : from <= d.date /\ d.date <= to }

Calendar(from, to) ==
  LET candidates == IF event.status = "active" THEN Expand(event, from, to) ELSE {} IN
  { [date |-> d.date, status |-> d.status, id |-> d.id] : d \in StoredItems(candidates, from, to) }
    \cup { [date |-> t, status |-> "unconfirmed", id |-> 0] : t \in Ghosts(from, to) }

-----------------------------------------------------------------------------
(* Dates *)

\* The candidate of the requested day, if there is one.
Match(row, requested) ==
  Expand(row, DayOf(requested) * Day, EndOfDay(DayOf(requested)))

AnyStatus(requested) ==   \* mistake
  /\ IsStored
  /\ Match(event, requested) # {}
  /\ \A d \in dates : d.date \notin Match(event, requested)
CanConfirm(requested) ==
  /\ event.status = "active"
  /\ Match(event, requested) # {}
  /\ \A d \in dates : d.date \notin Match(event, requested)

Available(date, ids) == MembersAvailable(date, event.duration, ids, members, blocks, rules)

\* confirmOccurrence; a guide's time matters only to a date that is to be run.
StartConfirm(r, requested, status, ids) ==
  /\ made < MaxDates
  /\ CanConfirm(requested)
  /\ \E date \in Match(event, requested) :
       /\ status = "confirmed" => Available(date, ids)
       /\ Start(r, [pc |-> "confirming", date |-> date, status |-> status, guides |-> ids])

\* The constraints on a date's row: its event and guides exist, and the date is its alone.
CanHold(row, others) ==
  /\ IsStored
  /\ row.guides \subseteq members
  /\ \A d \in others : d.date # row.date

InsertDate(r) ==
  LET q == requests[r]
      isGood == CanHold(q, dates)
  IN /\ q.pc = "confirming"
     /\ dates' = dates \cup (IF isGood
          THEN {[id |-> made + 1, date |-> q.date, status |-> q.status, guides |-> q.guides]}
          ELSE {})
     /\ made' = IF isGood THEN made + 1 ELSE made
     /\ Finish(r)
     /\ UNCHANGED event

Changing(d) == [pc |-> "changing", row |-> d]

\* updateOccurrence, with guides or without
StartChange(r, d, ids) ==
  /\ IsStored
  /\ Available(d.date, ids)
  /\ Start(r, Changing([d EXCEPT !.guides = ids]))

StartNote(r, d) ==
  /\ IsStored
  /\ Start(r, Changing(d))

\* cancelOccurrence
StartCancelDate(r, d) == Start(r, Changing([d EXCEPT !.status = "cancelled"]))

\* The save: the row as read, changed, is written, or inserted when it is gone.
SaveDate(r) ==
  LET row == requests[r].row
      others == { d \in dates : d.id # row.id }
  IN /\ requests[r].pc = "changing"
     /\ dates' = IF CanHold(row, others) THEN others \cup {row} ELSE dates
     /\ Finish(r)
     /\ UNCHANGED <<event, made>>

RemoveDate(d) ==
  /\ dates' = dates \ {d}
  /\ AtOnce
  /\ UNCHANGED <<event, made, roster>>

-----------------------------------------------------------------------------
(* Guides *)

EnterBlock(block) ==
  /\ block.guide \in members
  /\ block.first <= block.last
  /\ blocks' = blocks \cup {block}
  /\ AtOnce
  /\ UNCHANGED <<schedule, members, rules>>

DropBlock(block) ==
  /\ blocks' = blocks \ {block}
  /\ AtOnce
  /\ UNCHANGED <<schedule, members, rules>>

EnterRule(rule) ==
  /\ rule.guide \in members
  /\ rule.hours # WholeDay => rule.hours.start < rule.hours.end
  /\ rules' = rules \cup {rule}
  /\ AtOnce
  /\ UNCHANGED <<schedule, members, blocks>>

DropRule(rule) ==
  /\ rules' = rules \ {rule}
  /\ AtOnce
  /\ UNCHANGED <<schedule, members, blocks>>

\* What hangs on a member goes with it.
Unblocked(g) == blocks' = blocks \ Of(g, blocks) /\ rules' = rules \ Of(g, rules)
Unassigned(g) == dates' = { [d EXCEPT !.guides = @ \ {g}] : d \in dates }

RemoveMember(g) ==
  /\ g \in members
  /\ members' = members \ {g}
  /\ Unblocked(g)
  /\ Unassigned(g)
  /\ AtOnce
  /\ UNCHANGED <<event, made>>

-----------------------------------------------------------------------------

EventStep ==
  \/ \E row \in Events : Create(row)
  \/ \E r \in Requests, patch \in Patches : StartUpdate(r, patch)
  \/ \E r \in Requests : StartCancel(r)
  \/ \E r \in Requests : SaveEvent(r)
  \/ Remove

DateStep ==
  \/ \E r \in Requests, t \in Requested, s \in {"confirmed", "cancelled"}, ids \in SUBSET members :
       StartConfirm(r, t, s, ids)
  \/ \E r \in Requests : InsertDate(r)
  \/ \E r \in Requests, d \in dates, ids \in SUBSET members : StartChange(r, d, ids)
  \/ \E r \in Requests, d \in dates : StartNote(r, d)
  \/ \E r \in Requests, d \in dates : StartCancelDate(r, d)
  \/ \E r \in Requests : SaveDate(r)
  \/ \E d \in dates : RemoveDate(d)

RosterStep ==
  \/ \E block \in Blocks \ blocks : EnterBlock(block)
  \/ \E block \in blocks : DropBlock(block)
  \/ \E rule \in Rules \ rules : EnterRule(rule)
  \/ \E rule \in rules : DropRule(rule)
  \/ \E g \in members : RemoveMember(g)

Next == EventStep \/ DateStep \/ RosterStep

Spec == Init /\ [][Next]_vars

-----------------------------------------------------------------------------
(* Properties *)

\* The calendar shows each stored date once, whether the rule still yields it or not, no date
\* twice, and as unconfirmed only dates confirmOccurrence accepts.
CalendarIsTrue ==
  \A w \in Windows : LET items == Calendar(w.from, w.to) IN
    /\ \A d \in dates : w.from <= d.date /\ d.date <= w.to => \E i \in items : i.id = d.id
    /\ \A i, j \in items : i.date = j.date => i = j
    /\ \A i \in items : i.status = "unconfirmed" => CanConfirm(i.date) /\ i.date \in Match(event, i.date)

\* The picker offers exactly the guides an assignment would accept.
PickerAgrees ==
  IsStored => \A t \in Requested : \A g \in members :
    g \in AvailableMembers(t, event.duration, members, blocks, rules) <=> Available(t, {g})

Assigned(g, table) == { d.id : d \in { d \in table : g \in d.guides /\ d.status = "confirmed" } }

\* A guide newly assigned to a date that is run has none of its minutes off.
AssignmentsAreFree(counted) ==
  \A d \in counted : \A g \in d.guides :
    d.status = "confirmed" /\ d.id \notin Assigned(g, dates)
    => IsFree(g, d.date, event.duration, blocks, rules)

\* Where requests do not meet, a guide assigned to a date that ends on its day is free for all of it.
GuidesAreFree ==
  [][calm' => AssignmentsAreFree({ d \in dates' : EndsSameDay(d.date, event.duration) })]_vars

\* A guide newly assigned is free for the whole window of the date, the minutes past midnight
\* included: what the comment of assertMembersAvailable says of its check.
GuidesAreFreeThroughout ==
  [][calm' => AssignmentsAreFree(dates')]_vars

\* Where requests do not meet, a cancelled event or date stays cancelled, and only dates of an
\* active event's rule are added.
CancellationSticks ==
  [][calm' =>
      /\ event.status = "cancelled" => event'.status \in {"cancelled", "gone"}
      /\ \A d \in dates : \A e \in dates' :
           d.id = e.id /\ d.status = "cancelled" => e.status = "cancelled"
      /\ \A e \in dates' : e.id \notin Ids =>
           event.status = "active" /\ e.date \in Match(event, e.date)]_vars

=============================================================================
