-------------------------- MODULE EventScheduleProofs --------------------------
(***************************************************************************)
(* Proofs about EventSchedule, for any rules, months and days off.  What   *)
(* the calendar shows and what confirmOccurrence accepts meet because a    *)
(* rule has at most one date in a day, whatever the window it is expanded  *)
(* in.  What holds of requests that do not meet follows from what the one  *)
(* request in flight has read being what is stored.                        *)
(***************************************************************************)
EXTENDS EventSchedule, NumberTheorems, FiniteSetTheorems, TLAPS

(***************************************************************************)
(* The invariant.                                                          *)
(***************************************************************************)

StoredEvent ==
  [start : Nat, duration : Nat \ {0}, frequency : EventFrequencies,
   rule : RecurrenceRule \cup {NoRule}, status : {"active", "cancelled"}]

DateRow(n) ==
  [id : 1..n, date : Int, status : {"confirmed", "cancelled"}, guides : SUBSET Guides]

\* What a request carries.
Typed(q, n) ==
  /\ q.pc = "saving" => q.row \in StoredEvent
  /\ q.pc = "confirming" => [id |-> 1, date |-> q.date, status |-> q.status, guides |-> q.guides] \in DateRow(1)
  /\ q.pc = "changing" => q.row \in DateRow(n)

\* Types; and a date is in the table once.
ScheduleInv ==
  /\ event \in StoredEvent \cup [status : {"none", "gone"}]
  /\ made \in Nat
  /\ dates \subseteq DateRow(made)
  /\ \A d, e \in dates : d.id = e.id \/ d.date = e.date => d = e
  /\ members \subseteq Guides
  /\ blocks \subseteq UnavailableDates(Guides) /\ rules \subseteq RecurringUnavailability(Guides)
  /\ calm \in BOOLEAN
  /\ requests = [r \in Requests |-> requests[r]]
  /\ \A r \in Requests : Typed(requests[r], made)

\* What a request that has met no other has read is what is stored; staff is the roster.
CanTake(date, ids, row, staff) ==
  row.status \in {"active", "cancelled"} /\ MembersAvailable(date, row.duration, ids, staff[1], staff[2], staff[3])

Knows(q, row, table, staff) ==
  /\ q.pc = "saving" /\ row.status = "cancelled" => q.row.status = "cancelled"
  /\ q.pc = "confirming" =>
       /\ row.status = "active" /\ q.date \in Match(row, q.date)
       /\ q.status = "confirmed" => CanTake(q.date, q.guides, row, staff)
  /\ q.pc = "changing" => \E d \in table :
       /\ d.id = q.row.id /\ (d.status = "cancelled" => q.row.status = "cancelled")
       /\ q.row.status = "confirmed" =>
            q.row.guides \subseteq d.guides \/ CanTake(q.row.date, q.row.guides, row, staff)

CalmInv ==
  calm =>
    /\ \A r, s \in Requests : requests[r] # Idle /\ requests[s] # Idle => r = s
    /\ \A r \in Requests : Knows(requests[r], event, dates, roster)

(***************************************************************************)
(* Days and the dates of a rule.                                           *)
(***************************************************************************)

\* A day is the instants from its midnight to its end.
LEMMA DaysApart ==
  ASSUME NEW t \in Int
  PROVE  /\ DayOf(t) \in Int /\ t \in (DayOf(t) * Day)..EndOfDay(DayOf(t))
         /\ \A d \in Int : t \in (d * Day)..EndOfDay(d) => DayOf(t) = d
PROOF
  <1>1. Day \in Nat \ {0}
    BY RecurrenceAssumption
  <1>2. DayOf(t) \in Int /\ t \in (DayOf(t) * Day)..EndOfDay(DayOf(t))
    BY <1>1, DivMod DEF DayOf, EndOfDay
  <1>3. ASSUME NEW d \in Int, t \in (d * Day)..EndOfDay(d) PROVE DayOf(t) = d
    <2>1. PICK r \in 0..(Day - 1) : t = Day * d + r
      <3>1. t - d * Day \in 0..(Day - 1) /\ t = Day * d + (t - d * Day)
        BY <1>1, <1>3 DEF EndOfDay
      <3> QED BY <3>1
    <2> QED BY <1>1, <2>1, Divided DEF DayOf
  <1> QED BY <1>2, <1>3

\* The instant of a day at the time of another is of that day.
LEMMA AtItsDay ==
  ASSUME NEW d \in Int, NEW time \in Nat
  PROVE  At(d, time) \in Int /\ DayOf(At(d, time)) = d
PROOF
  <1>1. Day \in Nat \ {0} /\ Second \in Nat \ {0} /\ Minute \in Nat \ {0}
        /\ Minute % Second = 0 /\ Day % Minute = 0 /\ Day \in Int /\ time \in Int
    BY RecurrenceAssumption
  <1>2. Day % Second = 0
    <2>1. (Day % Minute) % Second = Day % Second
      BY <1>1, Remainders, Zenon
    <2>2. 0 % Second = 0
      <3>1. (Second * 0 + 0) % Second = 0
        BY <1>1, Divided
      <3> QED BY <1>1, <3>1
    <2> QED BY <1>1, <2>1, <2>2
  <1>3. PICK a \in 0..(Day - 1) : a = time % Day
    <2>1. time % Day \in 0..(Day - 1)
      BY <1>1, DivMod
    <2> QED BY <2>1
  <1>4. PICK b \in 0..a : b = time % Second
    <2>1. time % Second \in 0..(time % Day)
      BY <1>1, <1>2, Remainders, Zenon
    <2> QED BY <1>3, <2>1
  <1>5. a - b \in 0..(Day - 1) /\ At(d, time) = Day * d + (a - b)
    BY <1>1, <1>3, <1>4 DEF At
  <1> QED BY <1>1, <1>5, Divided DEF DayOf

\* A rule's dates lie in the window, and each is its day's only one, in whatever window the rule
\* is expanded.
THEOREM OneDateADay ==
  ASSUME NEW row, row.start \in Nat, row.rule \in RecurrenceRule \cup {NoRule},
         NEW from \in Int, NEW to \in Int, NEW t \in Expand(row, from, to)
  PROVE  t \in Int /\ from <= t /\ t <= to /\ Match(row, t) = {t}
PROOF
  <1> DEFINE Candidates(a, b) ==
        { u \in { At(d, row.start) : d \in { d \in LoopDays(row.start, RuleOf(row), a, b) :
                                               IsOccurrenceDay(d, DayOf(row.start), RuleOf(row)) } } :
            a <= u /\ u <= b /\ row.start <= u }
  <1>1. \A a, b : Expand(row, a, b) = IF RuleOf(row) = NoRule THEN {row.start} \cap (a..b)
                                      ELSE Earliest(Candidates(a, b), MaxExpanded)
    BY Zenon DEF Expand
  <1>2. Day \in Nat \ {0} /\ MaxExpanded \in Nat \ {0} /\ row.start \in Int
    BY RecurrenceAssumption
  <1>3. CASE RuleOf(row) = NoRule
    <2>1. t = row.start /\ t \in from..to
      BY <1>1, <1>3
    <2>2. t \in (DayOf(t) * Day)..EndOfDay(DayOf(t))
      BY <1>2, <2>1, DaysApart
    <2>3. Match(row, t) = {row.start} \cap ((DayOf(t) * Day)..EndOfDay(DayOf(t)))
      BY <1>1, <1>3 DEF Match
    <2> QED BY <2>1, <2>2, <2>3
  <1>4. CASE RuleOf(row) # NoRule
    <2>1. RuleOf(row) \in RecurrenceRule
      BY <1>4 DEF RuleOf
    <2>2. t \in Candidates(from, to)
      <3>1. t \in Earliest(Candidates(from, to), MaxExpanded)
        BY <1>1, <1>4, Zenon
      <3> HIDE DEF Candidates
      <3> QED BY <3>1 DEF Earliest
    <2>3. PICK d \in LoopDays(row.start, RuleOf(row), from, to) :
            t = At(d, row.start) /\ IsOccurrenceDay(d, DayOf(row.start), RuleOf(row))
      BY <2>2
    <2>4. from <= t /\ t <= to /\ row.start <= t
      BY <2>2
    <2> HIDE DEF Candidates
    <2>5. d \in Int /\ DayOf(row.start) <= d /\ (RuleOf(row).until # NoEnd => d <= DayOf(RuleOf(row).until))
      <3>1. DayOf(row.start) \in Int /\ DayOf(from) \in Int /\ DayOf(to) \in Int
        BY <1>2, DaysApart
      <3>2. RuleOf(row).until # NoEnd => DayOf(RuleOf(row).until) \in Int
        BY <2>1, DaysApart DEF RecurrenceRule
      <3> QED BY <2>3, <3>1, <3>2 DEF LoopDays, LastDay, MaxOf, MinOf
    <2>6. t \in Int /\ DayOf(t) = d
      BY <2>3, <2>5, AtItsDay
    <2>7. PICK a \in Int, b \in Int : a = d * Day /\ b = EndOfDay(d) /\ a <= t /\ t <= b
      <3>1. d * Day \in Int /\ EndOfDay(d) \in Int
        BY <1>2, <2>5 DEF EndOfDay
      <3>2. t \in (d * Day)..EndOfDay(d)
        BY <2>6, DaysApart
      <3> QED BY <3>1, <3>2
    <2>8. DayOf(a) = d /\ DayOf(b) = d
      <3>1. a \in (d * Day)..EndOfDay(d) /\ b \in (d * Day)..EndOfDay(d)
        BY <2>6, <2>7
      <3> QED BY <2>5, <2>7, <3>1, DaysApart
    <2>9. d \in LoopDays(row.start, RuleOf(row), a, b)
          /\ \A e \in LoopDays(row.start, RuleOf(row), a, b) : e \in Int
      <3>1. DayOf(row.start) \in Int
        BY <1>2, DaysApart
      <3>2. RuleOf(row).until # NoEnd => DayOf(RuleOf(row).until) \in Int
        BY <2>1, DaysApart DEF RecurrenceRule
      <3> QED BY <2>5, <2>8, <3>1, <3>2 DEF LoopDays, LastDay, MaxOf, MinOf
    <2>10. Candidates(a, b) = {t}
      <3>1. t \in Candidates(a, b)
        BY <2>3, <2>4, <2>7, <2>9 DEF Candidates
      <3>2. ASSUME NEW u \in Candidates(a, b) PROVE u = t
        <4>1. PICK e \in LoopDays(row.start, RuleOf(row), a, b) : u = At(e, row.start)
          BY DEF Candidates
        <4>2. a <= u /\ u <= b
          BY DEF Candidates
        <4>3. e \in Int /\ u \in Int /\ DayOf(u) = e
          BY <2>9, <4>1, AtItsDay
        <4>4. u \in (d * Day)..EndOfDay(d)
          BY <2>7, <4>2, <4>3
        <4>5. DayOf(u) = d
          BY <2>5, <4>3, <4>4, DaysApart
        <4> QED BY <2>3, <4>1, <4>3, <4>5
      <3> QED BY <3>1, <3>2
    <2>11. Earliest({t}, MaxExpanded) = {t}
      <3>1. { u \in {t} : u < t } = {}
        BY <2>6
      <3>2. Cardinality({ u \in {t} : u < t }) < MaxExpanded
        BY <1>2, <3>1, FS_EmptySet
      <3> QED BY <3>2 DEF Earliest
    <2>12. Match(row, t) = {t}
      <3>1. Match(row, t) = Expand(row, a, b)
        BY <2>6, <2>7 DEF Match
      <3> QED BY <1>1, <1>4, <2>10, <2>11, <3>1
    <2> QED BY <2>4, <2>6, <2>12
  <1> QED BY <1>3, <1>4

\* So the candidate of a requested day is the only date of its own day.
LEMMA MatchIsTheDate ==
  ASSUME ScheduleInv, IsStored, NEW requested \in Int, NEW t \in Match(event, requested)
  PROVE  t \in Int /\ Match(event, t) = {t}
PROOF
  <1>1. event.start \in Nat /\ event.rule \in RecurrenceRule \cup {NoRule}
    BY DEF ScheduleInv, IsStored, StoredEvent
  <1>2. Day \in Nat \ {0} /\ DayOf(requested) \in Int
    BY RecurrenceAssumption, DaysApart
  <1>3. PICK a \in Int, b \in Int : a = DayOf(requested) * Day /\ b = EndOfDay(DayOf(requested))
    BY <1>2 DEF EndOfDay
  <1>4. t \in Expand(event, a, b)
    BY <1>3 DEF Match
  <1> QED BY <1>1, <1>4, OneDateADay

(***************************************************************************)
(* Types, and dates in the table once.                                     *)
(***************************************************************************)

LEMMA IdleTyped == \A n : Typed(Idle, n)
  BY DEF Typed, Idle

\* What a request carries stays typed as more dates are made.
LEMMA StaysTyped ==
  ASSUME NEW q, NEW n \in Nat, NEW m \in Nat, n <= m, Typed(q, n)
  PROVE  Typed(q, m) /\ DateRow(n) \subseteq DateRow(m)
  BY DEF Typed, DateRow

\* The event with changes is one.
LEMMA PatchedTyped ==
  ASSUME NEW row, NEW patch,
         \/ row \in StoredEvent /\ IsPatch(patch)
         \/ row \in EventFields /\ patch = [status |-> "active"]
  PROVE  /\ Patched(row, patch) \in StoredEvent
         /\ row \in StoredEvent => Patched(row, patch).status = row.status
PROOF
  <1> DEFINE new == [f \in DOMAIN row \cup DOMAIN patch |-> IF f \in DOMAIN patch THEN patch[f] ELSE row[f]]
  <1>1. DOMAIN row \cup DOMAIN patch = {"start", "duration", "frequency", "rule", "status"}
    BY DEF StoredEvent, EventFields, IsPatch
  <1>2. /\ new = [start |-> new.start, duration |-> new.duration, frequency |-> new.frequency,
                  rule |-> new.rule, status |-> new.status]
    BY <1>1
  <1>3. /\ new.start = IF "start" \in DOMAIN patch THEN patch.start ELSE row.start
        /\ new.duration = IF "duration" \in DOMAIN patch THEN patch.duration ELSE row.duration
        /\ new.frequency = IF "frequency" \in DOMAIN patch THEN patch.frequency ELSE row.frequency
        /\ new.rule = IF "rule" \in DOMAIN patch THEN patch.rule ELSE row.rule
        /\ new.status = IF "status" \in DOMAIN patch THEN patch.status ELSE row.status
    BY <1>1
  <1> HIDE DEF new
  <1>4. /\ new.start \in Nat /\ new.duration \in Nat \ {0} /\ new.frequency \in EventFrequencies
        /\ new.rule \in RecurrenceRule \cup {NoRule}
        /\ new.status \in {"active", "cancelled"} /\ (row \in StoredEvent => new.status = row.status)
    BY <1>3 DEF StoredEvent, EventFields, IsPatch
  <1>5. PICK rule \in RecurrenceRule \cup {NoRule} :
          rule = IF new.frequency = "single" THEN NoRule ELSE new.rule
    BY <1>4
  <1>6. Patched(row, patch) = [new EXCEPT !.rule = rule]
    BY <1>5 DEF Patched, new
  <1>7. [new EXCEPT !.rule = rule] =
          [start |-> new.start, duration |-> new.duration, frequency |-> new.frequency,
           rule |-> rule, status |-> new.status]
    BY <1>2
  <1> QED BY <1>4, <1>6, <1>7 DEF StoredEvent

\* A request takes another step, and the others stay as they are.
LEMMA ScheduleStep ==
  ASSUME ScheduleInv, NEW r \in Requests, NEW q, Typed(q, made'), requests' = [requests EXCEPT ![r] = q],
         event' \in StoredEvent \cup [status : {"none", "gone"}],
         made' \in Nat, made <= made', dates' \subseteq DateRow(made'),
         \A d, e \in dates' : d.id = e.id \/ d.date = e.date => d = e,
         UNCHANGED roster, calm' \in BOOLEAN
  PROVE  ScheduleInv'
PROOF
  <1>1. requests' = [s \in Requests |-> requests'[s]]
    BY DEF ScheduleInv
  <1>2. \A s \in Requests : requests'[s] = IF s = r THEN q ELSE requests[s]
    BY DEF ScheduleInv
  <1>3. \A s \in Requests : Typed(requests'[s], made')
    BY <1>2, StaysTyped DEF ScheduleInv
  <1>4. /\ members' \subseteq Guides
        /\ blocks' \subseteq UnavailableDates(Guides) /\ rules' \subseteq RecurringUnavailability(Guides)
    BY DEF ScheduleInv, roster
  <1> QED BY <1>1, <1>3, <1>4, Zenon DEF ScheduleInv

\* A request that starts.
LEMMA ScheduleStart ==
  ASSUME ScheduleInv, NEW r \in Requests, NEW q, Typed(q, made), Start(r, q)
  PROVE  ScheduleInv'
PROOF
  <1>1. calm' \in BOOLEAN
    BY DEF Start, Quiet, ScheduleInv
  <1>2. UNCHANGED <<event, dates, made>> /\ UNCHANGED roster /\ requests' = [requests EXCEPT ![r] = q]
    BY DEF Start, schedule
  <1>3. made <= made'
    BY <1>2 DEF ScheduleInv
  <1> QED BY <1>1, <1>2, <1>3, ScheduleStep DEF ScheduleInv

\* A request that ends with what it writes.
LEMMA ScheduleEnd ==
  ASSUME ScheduleInv, NEW r \in Requests, Finish(r),
         event' \in StoredEvent \cup [status : {"none", "gone"}],
         made' \in Nat, made <= made', dates' \subseteq DateRow(made'),
         \A d, e \in dates' : d.id = e.id \/ d.date = e.date => d = e
  PROVE  ScheduleInv'
PROOF
  <1>1. calm' \in BOOLEAN /\ UNCHANGED roster /\ requests' = [requests EXCEPT ![r] = Idle]
    BY DEF Finish, ScheduleInv
  <1> QED BY <1>1, IdleTyped, ScheduleStep

\* An operation of one statement.
LEMMA ScheduleAtOnce ==
  ASSUME ScheduleInv, AtOnce, UNCHANGED made,
         event' \in StoredEvent \cup [status : {"none", "gone"}], dates' \subseteq DateRow(made),
         \A d, e \in dates' : d.id = e.id \/ d.date = e.date => d = e,
         members' \subseteq Guides, blocks' \subseteq UnavailableDates(Guides),
         rules' \subseteq RecurringUnavailability(Guides)
  PROVE  ScheduleInv'
PROOF
  <1>1. calm' \in BOOLEAN /\ requests' = requests
    BY DEF AtOnce, Quiet, ScheduleInv
  <1> QED BY <1>1 DEF ScheduleInv

LEMMA EventStepTyped ==
  ASSUME ScheduleInv, EventStep
  PROVE  ScheduleInv'
PROOF
  <1>1. /\ event \in StoredEvent \cup [status : {"none", "gone"}] /\ made \in Nat /\ made <= made
        /\ dates \subseteq DateRow(made) /\ \A d, e \in dates : d.id = e.id \/ d.date = e.date => d = e
    BY DEF ScheduleInv
  <1>2. IsStored => event \in StoredEvent
    BY <1>1 DEF IsStored
  <1>3. ASSUME NEW row \in Events, Create(row) PROVE ScheduleInv'
    <2>1. event' \in StoredEvent
      BY <1>3, ScheduleAssumption, PatchedTyped DEF Create
    <2> QED BY <1>1, <1>3, <2>1, ScheduleAtOnce DEF Create, roster, ScheduleInv
  <1>4. ASSUME NEW r \in Requests, NEW row \in StoredEvent, Start(r, Reading("saving", row))
        PROVE  ScheduleInv'
    <2>1. Typed(Reading("saving", row), made)
      BY DEF Typed, Reading
    <2> QED BY <1>4, <2>1, ScheduleStart
  <1>5. ASSUME NEW r \in Requests, NEW patch \in Patches, StartUpdate(r, patch) PROVE ScheduleInv'
    <2>1. Patched(event, patch) \in StoredEvent
      BY <1>2, <1>5, ScheduleAssumption, PatchedTyped DEF StartUpdate
    <2> QED BY <1>4, <1>5, <2>1 DEF StartUpdate
  <1>6. ASSUME NEW r \in Requests, StartCancel(r) PROVE ScheduleInv'
    <2>1. [event EXCEPT !.status = "cancelled"] \in StoredEvent
      BY <1>2, <1>6 DEF StartCancel, StoredEvent
    <2> QED BY <1>4, <1>6, <2>1 DEF StartCancel
  <1>7. ASSUME NEW r \in Requests, SaveEvent(r) PROVE ScheduleInv'
    <2>1. event' \in StoredEvent \cup [status : {"none", "gone"}]
      BY <1>1, <1>7 DEF SaveEvent, ScheduleInv, Typed
    <2> QED BY <1>1, <1>7, <2>1, ScheduleEnd DEF SaveEvent
  <1>8. CASE Remove
    <2>1. event' \in [status : {"none", "gone"}] /\ dates' = {}
      BY <1>8 DEF Remove
    <2> QED BY <1>1, <1>8, <2>1, ScheduleAtOnce DEF Remove, roster, ScheduleInv
  <1> QED BY <1>3, <1>5, <1>6, <1>7, <1>8 DEF EventStep

LEMMA DateStepTyped ==
  ASSUME ScheduleInv, DateStep
  PROVE  ScheduleInv'
PROOF
  <1>1. /\ event \in StoredEvent \cup [status : {"none", "gone"}] /\ made \in Nat /\ made <= made
        /\ dates \subseteq DateRow(made) /\ \A d, e \in dates : d.id = e.id \/ d.date = e.date => d = e
        /\ members \subseteq Guides
    BY DEF ScheduleInv
  <1>2. ASSUME NEW r \in Requests, NEW t \in Requested, NEW s \in {"confirmed", "cancelled"},
               NEW ids \in SUBSET members, StartConfirm(r, t, s, ids)
        PROVE  ScheduleInv'
    <2>1. PICK date \in Match(event, t) :
            Start(r, [pc |-> "confirming", date |-> date, status |-> s, guides |-> ids])
      BY <1>2 DEF StartConfirm
    <2>2. IsStored /\ t \in Int
      BY <1>2, ScheduleAssumption DEF StartConfirm, CanConfirm, IsStored
    <2>3. date \in Int
      BY <2>2, MatchIsTheDate
    <2>4. Typed([pc |-> "confirming", date |-> date, status |-> s, guides |-> ids], made)
      BY <1>1, <2>3 DEF Typed, DateRow
    <2> QED BY <2>1, <2>4, ScheduleStart
  <1>3. ASSUME NEW r \in Requests, InsertDate(r) PROVE ScheduleInv'
    <2> PICK q : q = requests[r]
      OBVIOUS
    <2>1. q.pc = "confirming" /\ Typed(q, made) /\ Finish(r) /\ event' = event
      BY <1>3 DEF InsertDate, ScheduleInv
    <2>2. CASE ~CanHold(q, dates)
      <3>1. dates' = dates /\ made' = made
        BY <1>3, <2>2 DEF InsertDate
      <3> QED BY <1>1, <2>1, <3>1, ScheduleEnd
    <2>3. CASE CanHold(q, dates)
      <3>1. PICK row : row = [id |-> made + 1, date |-> q.date, status |-> q.status, guides |-> q.guides]
        OBVIOUS
      <3>2. dates' = dates \cup {row} /\ made' = made + 1
        BY <1>3, <2>3, <3>1 DEF InsertDate
      <3>3. row \in DateRow(made + 1) /\ made + 1 \in Nat /\ made <= made + 1
        BY <1>1, <2>1, <3>1 DEF Typed, DateRow
      <3>4. \A d \in dates : d.id # row.id /\ d.date # row.date
        BY <1>1, <2>3, <3>1 DEF DateRow, CanHold
      <3>5. dates \subseteq DateRow(made + 1)
        BY <1>1, <3>3, IdleTyped, StaysTyped
      <3> QED BY <1>1, <2>1, <3>2, <3>3, <3>4, <3>5, ScheduleEnd
    <2> QED BY <2>2, <2>3
  <1>4. ASSUME NEW r \in Requests, NEW row \in DateRow(made), Start(r, Changing(row))
        PROVE  ScheduleInv'
    <2>1. Typed(Changing(row), made)
      BY DEF Typed, Changing
    <2> QED BY <1>4, <2>1, ScheduleStart
  <1>5. ASSUME NEW r \in Requests, NEW d \in dates, NEW ids \in SUBSET members, StartChange(r, d, ids)
        PROVE  ScheduleInv'
    <2>1. [d EXCEPT !.guides = ids] \in DateRow(made)
      BY <1>1 DEF DateRow
    <2> QED BY <1>4, <1>5, <2>1 DEF StartChange
  <1>6. ASSUME NEW r \in Requests, NEW d \in dates, StartNote(r, d) PROVE ScheduleInv'
    BY <1>1, <1>4, <1>6 DEF StartNote
  <1>7. ASSUME NEW r \in Requests, NEW d \in dates, StartCancelDate(r, d) PROVE ScheduleInv'
    <2>1. [d EXCEPT !.status = "cancelled"] \in DateRow(made)
      BY <1>1 DEF DateRow
    <2> QED BY <1>4, <1>7, <2>1 DEF StartCancelDate
  <1>8. ASSUME NEW r \in Requests, SaveDate(r) PROVE ScheduleInv'
    <2>1. PICK row, others : row = requests[r].row /\ others = { d \in dates : d.id # row.id }
      OBVIOUS
    <2>2. Finish(r) /\ UNCHANGED <<event, made>> /\ row \in DateRow(made)
          /\ dates' = IF CanHold(row, others) THEN others \cup {row} ELSE dates
      BY <1>8, <2>1 DEF SaveDate, ScheduleInv, Typed
    <2>3. dates' \subseteq DateRow(made) /\ \A d, e \in dates' : d.id = e.id \/ d.date = e.date => d = e
      BY <1>1, <2>1, <2>2 DEF CanHold
    <2> QED BY <1>1, <2>2, <2>3, ScheduleEnd
  <1>9. ASSUME NEW d \in dates, RemoveDate(d) PROVE ScheduleInv'
    <2>1. dates' \subseteq dates
      BY <1>9 DEF RemoveDate
    <2> QED BY <1>1, <1>9, <2>1, ScheduleAtOnce DEF RemoveDate, roster, ScheduleInv
  <1> QED BY <1>2, <1>3, <1>5, <1>6, <1>7, <1>8, <1>9 DEF DateStep

LEMMA RosterStepTyped ==
  ASSUME ScheduleInv, RosterStep
  PROVE  ScheduleInv'
PROOF
  <1>1. /\ event \in StoredEvent \cup [status : {"none", "gone"}] /\ made \in Nat
        /\ dates \subseteq DateRow(made) /\ \A d, e \in dates : d.id = e.id \/ d.date = e.date => d = e
        /\ members \subseteq Guides
        /\ blocks \subseteq UnavailableDates(Guides) /\ rules \subseteq RecurringUnavailability(Guides)
    BY DEF ScheduleInv
  <1>2. ASSUME AtOnce, UNCHANGED schedule, members' \subseteq Guides,
               blocks' \subseteq UnavailableDates(Guides), rules' \subseteq RecurringUnavailability(Guides)
        PROVE  ScheduleInv'
    BY <1>1, <1>2, ScheduleAtOnce DEF schedule
  <1>3. ASSUME NEW block \in Blocks, EnterBlock(block) \/ DropBlock(block) PROVE ScheduleInv'
    BY <1>1, <1>2, <1>3, ScheduleAssumption DEF EnterBlock, DropBlock
  <1>4. ASSUME NEW block \in blocks, DropBlock(block) PROVE ScheduleInv'
    BY <1>1, <1>2, <1>4 DEF DropBlock
  <1>5. ASSUME NEW rule \in Rules, EnterRule(rule) PROVE ScheduleInv'
    BY <1>1, <1>2, <1>5, ScheduleAssumption DEF EnterRule
  <1>6. ASSUME NEW rule \in rules, DropRule(rule) PROVE ScheduleInv'
    BY <1>1, <1>2, <1>6 DEF DropRule
  <1>7. ASSUME NEW g \in members, RemoveMember(g) PROVE ScheduleInv'
    <2>1. \A d \in dates : [d EXCEPT !.guides = d.guides \ {g}] \in DateRow(made)
            /\ [d EXCEPT !.guides = d.guides \ {g}].id = d.id
            /\ [d EXCEPT !.guides = d.guides \ {g}].date = d.date
      BY <1>1 DEF DateRow
    <2>2. PICK f : f = [d \in dates |-> [d EXCEPT !.guides = d.guides \ {g}]]
      OBVIOUS
    <2>5. dates' = { f[d] : d \in dates }
      BY <1>7, <2>2 DEF RemoveMember, Unassigned
    <2>6. \A d \in dates : f[d] \in DateRow(made) /\ f[d].id = d.id /\ f[d].date = d.date
      BY <2>1, <2>2
    <2>3. dates' \subseteq DateRow(made) /\ \A d, e \in dates' : d.id = e.id \/ d.date = e.date => d = e
      BY <1>1, <2>5, <2>6
    <2>4. blocks' \subseteq blocks /\ rules' \subseteq rules /\ members' \subseteq members
          /\ UNCHANGED <<event, made>> /\ AtOnce
      BY <1>7 DEF RemoveMember, Unblocked
    <2> QED BY <1>1, <2>3, <2>4, ScheduleAtOnce
  <1> QED BY <1>3, <1>4, <1>5, <1>6, <1>7 DEF RosterStep

\* Types and single dates are kept by every step, whichever requests meet.
THEOREM DatesInOrder == Spec => []ScheduleInv
PROOF
  <1>1. Init => ScheduleInv
    <2> SUFFICES ASSUME Init PROVE ScheduleInv
      OBVIOUS
    <2>1. requests = [r \in Requests |-> requests[r]] /\ \A r \in Requests : requests[r] = Idle
      BY DEF Init
    <2> QED BY <2>1, IdleTyped DEF Init, ScheduleInv
  <1>2. ScheduleInv /\ [Next]_vars => ScheduleInv'
    <2> SUFFICES ASSUME ScheduleInv, [Next]_vars PROVE ScheduleInv'
      OBVIOUS
    <2>1. CASE UNCHANGED vars
      BY <2>1 DEF vars, schedule, roster, ScheduleInv
    <2> QED BY <2>1, EventStepTyped, DateStepTyped, RosterStepTyped DEF Next
  <1> QED BY <1>1, <1>2, PTL DEF Spec

\* The calendar shows each stored date once, no date twice, and as unconfirmed only dates
\* confirmOccurrence accepts.
THEOREM CalendarStaysTrue == Spec => []CalendarIsTrue
PROOF
  <1>1. ScheduleInv => CalendarIsTrue
    <2> SUFFICES ASSUME ScheduleInv, NEW w \in Windows
                 PROVE  LET items == Calendar(w.from, w.to) IN
                        /\ \A d \in dates : w.from <= d.date /\ d.date <= w.to => \E i \in items : i.id = d.id
                        /\ \A i, j \in items : i.date = j.date => i = j
                        /\ \A i \in items : i.status = "unconfirmed" =>
                             CanConfirm(i.date) /\ i.date \in Match(event, i.date)
      BY DEF CalendarIsTrue
    <2> PICK from \in Nat, to \in Nat : from = w.from /\ to = w.to
      BY ScheduleAssumption
    <2>1. dates \subseteq DateRow(made) /\ \A d, e \in dates : d.date = e.date => d = e
      BY DEF ScheduleInv
    <2>2. PICK candidates : candidates = IF event.status = "active" THEN Expand(event, from, to) ELSE {}
      OBVIOUS
    <2>3. PICK table : table = StoredItems(candidates, from, to)
      OBVIOUS
    <2>4. table \subseteq dates /\ \A d \in dates : from <= d.date /\ d.date <= to => d \in table
      BY <2>3 DEF StoredItems
    <2>5. PICK ghosts : ghosts = Ghosts(from, to)
      OBVIOUS
    <2>6. \A t \in ghosts : /\ event.status = "active" /\ t \in Expand(event, from, to)
                            /\ \A d \in dates : d.date # t
      BY <2>5 DEF Ghosts
    <2>7. Calendar(from, to) =
            { [date |-> d.date, status |-> d.status, id |-> d.id] : d \in table }
              \cup { [date |-> t, status |-> "unconfirmed", id |-> 0] : t \in ghosts }
      BY <2>2, <2>3, <2>5 DEF Calendar
    <2>8. ASSUME NEW t \in ghosts PROVE CanConfirm(t) /\ t \in Match(event, t)
      <3>1. event.status = "active" /\ t \in Expand(event, from, to) /\ \A d \in dates : d.date # t
        BY <2>6
      <3>2. event.start \in Nat /\ event.rule \in RecurrenceRule \cup {NoRule}
        BY <3>1 DEF ScheduleInv, StoredEvent
      <3>3. Match(event, t) = {t}
        BY <3>1, <3>2, OneDateADay
      <3> QED BY <3>1, <3>3 DEF CanConfirm
    <2>9. PICK items : items = Calendar(from, to)
      OBVIOUS
    <2>10. \A i \in items :
             \/ \E d \in table : i.date = d.date /\ i.status = d.status /\ i.id = d.id
                                 /\ i = [date |-> d.date, status |-> d.status, id |-> d.id]
             \/ \E t \in ghosts : i.date = t /\ i.status = "unconfirmed"
                                  /\ i = [date |-> t, status |-> "unconfirmed", id |-> 0]
      BY <2>7, <2>9
    <2>11. \A d \in table : \E i \in items : i.id = d.id
      BY <2>7, <2>9
    <2>12. \A d \in dates : w.from <= d.date /\ d.date <= w.to => \E i \in items : i.id = d.id
      BY <2>4, <2>11
    <2>13. \A i, j \in items : i.date = j.date => i = j
      BY <2>1, <2>4, <2>6, <2>10
    <2>14. \A i \in items : i.status = "unconfirmed" => i.date \in ghosts
      BY <2>1, <2>4, <2>10 DEF DateRow
    <2> QED BY <2>8, <2>9, <2>12, <2>13, <2>14
  <1> QED BY <1>1, DatesInOrder, PTL

\* The picker offers exactly the guides an assignment would accept.
THEOREM PickerAlwaysAgrees == Spec => []PickerAgrees
PROOF
  <1>1. PickerAgrees
    <2> SUFFICES ASSUME NEW t \in Requested, NEW g \in members
                 PROVE  g \in AvailableMembers(t, event.duration, members, blocks, rules) <=> Available(t, {g})
      BY DEF PickerAgrees
    <2> PICK m : m = MinuteOf(t)
      OBVIOUS
    <2> PICK n : n = event.duration
      OBVIOUS
    <2>1. Available(t, {g}) <=>
            /\ ~\E block \in blocks : block.guide \in {g} /\ Covers(block, DayOf(t))
            /\ ~\E rule \in rules : /\ rule.guide \in {g} /\ rule.weekday = Weekday(DayOf(t))
                                    /\ \/ rule.hours = WholeDay
                                       \/ m < rule.hours.end /\ rule.hours.start < m + n
      BY Zenon DEF Available, MembersAvailable
    <2>2. g \in AvailableMembers(t, n, members, blocks, rules) <=>
            ~IsUnavailableAt(t, n, Of(g, blocks), Of(g, rules))
      BY Zenon DEF AvailableMembers
    <2>3. IsUnavailableAt(t, n, Of(g, blocks), Of(g, rules)) <=>
            \/ \E block \in blocks : block.guide = g /\ Covers(block, DayOf(t))
            \/ \E rule \in rules : /\ rule.guide = g /\ rule.weekday = Weekday(DayOf(t))
                                   /\ \/ rule.hours = WholeDay
                                      \/ m < rule.hours.end /\ rule.hours.start < m + n
      BY Zenon DEF IsUnavailableAt, Of
    <2> QED BY <2>1, <2>2, <2>3, Zenon
  <1> QED BY <1>1, PTL

(***************************************************************************)
(* Requests that do not meet.                                              *)
(***************************************************************************)

\* A request at rest knows nothing.
LEMMA IdleKnows == \A row, table, staff : Knows(Idle, row, table, staff)
  BY DEF Knows, Idle

\* A request that starts knows what it has read.
LEMMA CalmStart ==
  ASSUME ScheduleInv, CalmInv, NEW r \in Requests, NEW q, Start(r, q), Knows(q, event, dates, roster)
  PROVE  CalmInv'
PROOF
  <1> SUFFICES ASSUME calm' PROVE CalmInv'
    BY DEF CalmInv
  <1>1. \A s \in Requests : requests[s] = Idle
    BY DEF Start, Quiet
  <1>2. \A s \in Requests : requests'[s] = IF s = r THEN q ELSE Idle
    BY <1>1 DEF Start, ScheduleInv
  <1>3. UNCHANGED <<event, dates, roster>>
    BY DEF Start, schedule
  <1>4. \A s \in Requests : Knows(requests'[s], event, dates, roster)
    BY <1>2, IdleKnows
  <1>5. \A s \in Requests : Knows(requests'[s], event', dates', roster')
    BY <1>3, <1>4
  <1> QED BY <1>2, <1>5, Zenon DEF CalmInv

\* When nothing is in flight, nothing is to be known.
LEMMA CalmQuiet ==
  ASSUME calm' => \A s \in Requests : requests'[s] = Idle
  PROVE  CalmInv'
PROOF
  <1> SUFFICES ASSUME calm' PROVE CalmInv'
    BY DEF CalmInv
  <1>1. \A s \in Requests : Knows(requests'[s], event', dates', roster')
    BY IdleKnows
  <1> QED BY <1>1, Zenon DEF CalmInv

\* A request that ends was the only one.
LEMMA CalmEnd ==
  ASSUME ScheduleInv, CalmInv, NEW r \in Requests, requests[r].pc # "idle", Finish(r)
  PROVE  CalmInv'
PROOF
  <1>1. calm' = calm /\ \A s \in Requests : requests'[s] = IF s = r THEN Idle ELSE requests[s]
    BY DEF Finish, ScheduleInv
  <1>2. requests[r] # Idle
    BY DEF Idle
  <1>3. calm' => \A s \in Requests : requests'[s] = Idle
    BY <1>1, <1>2 DEF CalmInv
  <1> QED BY <1>3, CalmQuiet

\* Nor is anything in flight when an operation of one statement leaves the calm.
LEMMA CalmAtOnce ==
  ASSUME AtOnce
  PROVE  CalmInv'
  BY CalmQuiet DEF AtOnce, Quiet

\* What a handler starts with is what it has read.
LEMMA StartKeepsCalm ==
  ASSUME ScheduleInv, CalmInv, NEW r \in Requests,
         \/ \E patch \in Patches : StartUpdate(r, patch)
         \/ StartCancel(r)
         \/ \E t \in Requested, s \in {"confirmed", "cancelled"}, ids \in SUBSET members :
              StartConfirm(r, t, s, ids)
         \/ \E d \in dates, ids \in SUBSET members : StartChange(r, d, ids)
         \/ \E d \in dates : StartNote(r, d) \/ StartCancelDate(r, d)
  PROVE  CalmInv'
PROOF
  <1>1. IsStored => event \in StoredEvent /\ event.status \in {"active", "cancelled"}
    BY DEF ScheduleInv, IsStored
  <1>2. \A date, ids : Available(date, ids) /\ IsStored => CanTake(date, ids, event, roster)
    BY DEF Available, IsStored, CanTake, roster
  <1>3. dates \subseteq DateRow(made)
    BY DEF ScheduleInv
  <1>4. ASSUME NEW row, Start(r, Reading("saving", row)), event.status = "cancelled" => row.status = "cancelled"
        PROVE  CalmInv'
    <2>1. Knows(Reading("saving", row), event, dates, roster)
      BY <1>4 DEF Knows, Reading
    <2> QED BY <1>4, <2>1, CalmStart
  <1>5. ASSUME NEW patch \in Patches, StartUpdate(r, patch) PROVE CalmInv'
    <2>1. Patched(event, patch).status = event.status
      BY <1>1, <1>5, ScheduleAssumption, PatchedTyped DEF StartUpdate
    <2> QED BY <1>4, <1>5, <2>1 DEF StartUpdate
  <1>6. CASE StartCancel(r)
    <2>1. [event EXCEPT !.status = "cancelled"].status = "cancelled"
      BY <1>1, <1>6 DEF StartCancel, StoredEvent
    <2> QED BY <1>4, <1>6, <2>1 DEF StartCancel
  <1>7. ASSUME NEW t \in Requested, NEW s \in {"confirmed", "cancelled"}, NEW ids \in SUBSET members,
               StartConfirm(r, t, s, ids)
        PROVE  CalmInv'
    <2>1. PICK date \in Match(event, t) :
            /\ s = "confirmed" => Available(date, ids)
            /\ Start(r, [pc |-> "confirming", date |-> date, status |-> s, guides |-> ids])
      BY <1>7 DEF StartConfirm
    <2>2. event.status = "active" /\ IsStored /\ t \in Int
      BY <1>7, ScheduleAssumption DEF StartConfirm, CanConfirm, IsStored
    <2>3. date \in Match(event, date)
      BY <2>2, MatchIsTheDate
    <2>4. PICK q : q = [pc |-> "confirming", date |-> date, status |-> s, guides |-> ids]
      OBVIOUS
    <2>5. q.pc = "confirming" /\ q.date = date /\ q.status = s /\ q.guides = ids
      BY <2>4
    <2>6. Knows(q, event, dates, roster)
      BY <1>2, <2>1, <2>2, <2>3, <2>5 DEF Knows
    <2> QED BY <2>1, <2>4, <2>6, CalmStart
  <1>8. ASSUME NEW d \in dates, NEW row, Start(r, Changing(row)), row.id = d.id,
               d.status = "cancelled" => row.status = "cancelled",
               row.guides = d.guides \/ CanTake(row.date, row.guides, event, roster)
        PROVE  CalmInv'
    <2>1. PICK q : q = Changing(row)
      OBVIOUS
    <2>2. q.pc = "changing" /\ q.row = row
      BY <2>1 DEF Changing
    <2>3. Knows(q, event, dates, roster)
      BY <1>8, <2>2 DEF Knows
    <2> QED BY <1>8, <2>1, <2>3, CalmStart
  <1>9. ASSUME NEW d \in dates, NEW ids \in SUBSET members, StartChange(r, d, ids) PROVE CalmInv'
    <2>1. PICK row : row = [d EXCEPT !.guides = ids]
      OBVIOUS
    <2>2. row.id = d.id /\ row.status = d.status /\ row.guides = ids /\ row.date = d.date
      BY <1>3, <2>1 DEF DateRow
    <2> QED BY <1>2, <1>8, <1>9, <2>1, <2>2 DEF StartChange
  <1>10. ASSUME NEW d \in dates, StartNote(r, d) PROVE CalmInv'
    BY <1>8, <1>10 DEF StartNote
  <1>11. ASSUME NEW d \in dates, StartCancelDate(r, d) PROVE CalmInv'
    <2>1. PICK row : row = [d EXCEPT !.status = "cancelled"]
      OBVIOUS
    <2>2. row.id = d.id /\ row.status = "cancelled" /\ row.guides = d.guides
      BY <1>3, <2>1 DEF DateRow
    <2> QED BY <1>8, <1>11, <2>1, <2>2 DEF StartCancelDate
  <1> QED BY <1>5, <1>6, <1>7, <1>9, <1>10, <1>11

\* The steps of Next: a request starts, or ends with its save, or an operation of one statement.
LEMMA CalmStep ==
  ASSUME ScheduleInv, CalmInv, Next
  PROVE  CalmInv'
PROOF
  <1>1. ASSUME EventStep PROVE CalmInv'
    BY <1>1, StartKeepsCalm, CalmEnd, CalmAtOnce DEF EventStep, Create, SaveEvent, Remove
  <1>2. ASSUME DateStep PROVE CalmInv'
    BY <1>2, StartKeepsCalm, CalmEnd, CalmAtOnce DEF DateStep, InsertDate, SaveDate, RemoveDate
  <1>3. ASSUME RosterStep PROVE CalmInv'
    BY <1>3, CalmAtOnce DEF RosterStep, EnterBlock, DropBlock, EnterRule, DropRule, RemoveMember
  <1> QED BY <1>1, <1>2, <1>3 DEF Next

\* A request that has met no other knows what is stored: the inductive invariant.
THEOREM ReadingsAreCurrent == Spec => [](ScheduleInv /\ CalmInv)
PROOF
  <1>1. Init => CalmInv
    BY IdleKnows DEF Init, CalmInv
  <1>2. ScheduleInv /\ CalmInv /\ [Next]_vars => CalmInv'
    <2>1. ASSUME CalmInv, UNCHANGED vars PROVE CalmInv'
      BY <2>1 DEF vars, schedule, roster, CalmInv
    <2> QED BY <2>1, CalmStep
  <1> QED BY <1>1, <1>2, DatesInOrder, PTL DEF Spec

\* The minutes of a day follow those of the days before it.
LEMMA MinutesOfDay ==
  ASSUME NEW date \in Int
  PROVE  /\ MinuteOf(date) \in Nat /\ Minutes \in Nat \ {0}
         /\ date \div Minute = Minutes * DayOf(date) + MinuteOf(date)
PROOF
  <1>1. Day \in Nat \ {0} /\ Minute \in Nat \ {0} /\ Day % Minute = 0 /\ Day \in Int
    BY RecurrenceAssumption
  <1>2. PICK n \in Int : n = Minutes /\ Day = Minute * n
    <2>1. Day \div Minute \in Int /\ Day = Minute * (Day \div Minute) + (Day % Minute)
      BY <1>1, DivMod, Zenon
    <2> QED BY <1>1, <2>1 DEF Minutes
  <1>3. PICK q \in Int : q = DayOf(date)
    BY DaysApart
  <1>4. PICK rest \in Nat : rest = date % Day /\ date = Day * q + rest
    <2>1. date % Day \in 0..(Day - 1) /\ date = Day * (date \div Day) + (date % Day)
      BY <1>1, DivMod, Zenon
    <2> QED BY <1>1, <1>3, <2>1 DEF DayOf
  <1>5. PICK m \in Int, s \in 0..(Minute - 1) : m = MinuteOf(date) /\ rest = Minute * m + s
    <2>1. /\ rest \div Minute \in Int /\ rest % Minute \in 0..(Minute - 1)
          /\ rest = Minute * (rest \div Minute) + (rest % Minute)
      BY <1>1, DivMod
    <2> QED BY <1>4, <2>1 DEF MinuteOf
  <1>6. n >= 1
    <2>1. ASSUME n <= 0 PROVE Minute * n <= 0
      BY <1>1, <2>1
    <2> QED BY <1>1, <1>2, <2>1
  <1>7. m >= 0
    <2>1. ASSUME m <= -1 PROVE Minute * m <= -Minute
      BY <1>1, <2>1
    <2> QED BY <1>1, <1>4, <1>5, <2>1
  <1>8. date = Minute * (n * q + m) + s /\ n * q + m \in Int
    <2>1. PICK k \in Int : k = n * q
      OBVIOUS
    <2>2. Day * q = Minute * k
      BY <1>1, <1>2, <2>1
    <2>3. PICK a \in Int, b \in Int : a = Minute * k /\ b = Minute * m
      BY <1>1
    <2>4. Minute * (k + m) = a + b
      BY <1>1, <2>3
    <2>5. date = a + (b + s)
      BY <1>4, <1>5, <2>2, <2>3
    <2>6. date = Minute * (k + m) + s
      BY <2>3, <2>4, <2>5
    <2> QED BY <2>1, <2>6
  <1>9. date \div Minute = n * q + m
    BY <1>1, <1>5, <1>8, Divided
  <1> QED BY <1>2, <1>3, <1>5, <1>6, <1>7, <1>9

\* A guide who can take a date that ends on its day is free for all of it.
LEMMA AvailableIsFree ==
  ASSUME ScheduleInv, NEW date \in Int, NEW ids, NEW g \in ids, CanTake(date, ids, event, roster),
         EndsSameDay(date, event.duration)
  PROVE  IsFree(g, date, event.duration, blocks, rules)
PROOF
  <1>1. event \in StoredEvent /\ rules \subseteq RecurringUnavailability(Guides)
    BY DEF ScheduleInv, CanTake, StoredEvent
  <1>2. PICK n \in Nat \ {0} : n = event.duration
    BY <1>1 DEF StoredEvent
  <1>3. PICK m \in Nat : m = MinuteOf(date)
    BY MinutesOfDay
  <1>4. PICK all \in Nat \ {0} : all = Minutes
    BY MinutesOfDay
  <1>5. PICK d \in Int : d = DayOf(date)
    BY DaysApart
  <1>6. m + n <= all
    BY <1>2, <1>3, <1>4 DEF EndsSameDay
  <1>7. /\ \A block \in blocks : block.guide = g => ~Covers(block, d)
        /\ \A rule \in rules : rule.guide = g /\ rule.weekday = Weekday(d) =>
             rule.hours # WholeDay /\ ~(m < rule.hours.end /\ rule.hours.start < m + n)
    <2>1. MembersAvailable(date, n, ids, members, blocks, rules)
      BY <1>2 DEF CanTake, roster
    <2> QED BY <1>3, <1>5, <2>1, Zenon DEF MembersAvailable
  <1>8. ASSUME NEW k \in 0..(n - 1) PROVE ~HasOff(g, (date \div Minute) + k, blocks, rules)
    <2>1. PICK minute \in Int : minute = (date \div Minute) + k /\ minute = all * d + (m + k)
      BY <1>3, <1>4, <1>5, MinutesOfDay
    <2>2. m + k \in 0..(all - 1)
      BY <1>6
    <2>3. minute \div all = d /\ minute % all = m + k
      BY <2>1, <2>2, Divided
    <2>4. ASSUME NEW rule \in rules, rule.guide = g, rule.weekday = Weekday(d)
          PROVE  rule.hours # WholeDay /\ ~(rule.hours.start <= m + k /\ m + k < rule.hours.end)
      <3>1. rule.hours # WholeDay /\ ~(m < rule.hours.end /\ rule.hours.start < m + n)
        BY <1>7, <2>4
      <3>2. rule.hours \in [start : 0..Minutes, end : 0..Minutes]
        BY <1>1, <3>1 DEF RecurringUnavailability
      <3>3. rule.hours.start \in Int /\ rule.hours.end \in Int
        BY <1>4, <3>2
      <3> QED BY <3>1, <3>3
    <2>5. ~HasOff(g, minute, blocks, rules)
      BY <1>4, <1>7, <2>3, <2>4, Zenon DEF HasOff, Of
    <2> QED BY <2>1, <2>5
  <1>9. Window(date, event.duration) = { (date \div Minute) + k : k \in 0..(n - 1) }
    BY <1>2 DEF Window
  <1> QED BY <1>2, <1>8, <1>9 DEF IsFree

\* Where requests do not meet, each date after a step was there before, its guides and cancellation
\* kept or its guides able to take it, or is a new one of the rule of an active event.
LEMMA Origins ==
  ASSUME ScheduleInv, CalmInv, [Next]_vars, calm', NEW e \in dates'
  PROVE  /\ e.status \in {"confirmed", "cancelled"} /\ e.date \in Int
         /\ \/ \E d \in dates : /\ d.id = e.id /\ (d.status = "cancelled" => e.status = "cancelled")
                                /\ \/ e.status = "confirmed" => e.guides \subseteq d.guides
                                   \/ CanTake(e.date, e.guides, event, roster)
            \/ /\ \A d \in dates : d.id # e.id
               /\ event.status = "active" /\ e.date \in Match(event, e.date)
               /\ e.status = "confirmed" => CanTake(e.date, e.guides, event, roster)
PROOF
  <1>1. dates \subseteq DateRow(made) /\ made \in Nat /\ calm
    BY DEF ScheduleInv, Next, EventStep, DateStep, RosterStep, Start, Finish, AtOnce, vars,
           Create, StartUpdate, StartCancel, SaveEvent, Remove, StartConfirm, InsertDate, StartChange,
           StartNote, StartCancelDate, SaveDate, RemoveDate, EnterBlock, DropBlock, EnterRule, DropRule,
           RemoveMember
  <1>2. \A r \in Requests : Knows(requests[r], event, dates, roster) /\ Typed(requests[r], made)
    BY <1>1 DEF CalmInv, ScheduleInv
  <1> DEFINE Kept(d) == /\ d.id = e.id /\ (d.status = "cancelled" => e.status = "cancelled")
                        /\ \/ e.status = "confirmed" => e.guides \subseteq d.guides
                           \/ CanTake(e.date, e.guides, event, roster)
             IsNew == /\ \A d \in dates : d.id # e.id
                      /\ event.status = "active" /\ e.date \in Match(event, e.date)
                      /\ e.status = "confirmed" => CanTake(e.date, e.guides, event, roster)
             Goal == /\ e.status \in {"confirmed", "cancelled"} /\ e.date \in Int
                     /\ (\E d \in dates : Kept(d)) \/ IsNew
  <1> SUFFICES Goal
    OBVIOUS
  <1>3. ASSUME dates' \subseteq dates PROVE Goal
    <2>1. e \in dates /\ Kept(e)
      BY <1>3
    <2> QED BY <1>1, <2>1 DEF DateRow
  <1>4. ASSUME NEW r \in Requests, InsertDate(r) PROVE Goal
    <2> PICK q : q = requests[r]
      OBVIOUS
    <2>1. q.pc = "confirming" /\ Knows(q, event, dates, roster) /\ Typed(q, made)
      BY <1>2, <1>4 DEF InsertDate
    <2>2. CASE e \in dates
      <3>1. Kept(e)
        OBVIOUS
      <3> QED BY <1>1, <2>2, <3>1 DEF DateRow
    <2>3. CASE e \notin dates
      <3>1. e = [id |-> made + 1, date |-> q.date, status |-> q.status, guides |-> q.guides]
        BY <1>4, <2>3 DEF InsertDate
      <3>2. e.id = made + 1 /\ e.date = q.date /\ e.status = q.status /\ e.guides = q.guides
        BY <3>1
      <3>3. IsNew
        BY <1>1, <2>1, <3>2 DEF Knows, DateRow
      <3>4. e.status \in {"confirmed", "cancelled"} /\ e.date \in Int
        BY <2>1, <3>2 DEF Typed, DateRow
      <3> QED BY <3>3, <3>4
    <2> QED BY <2>2, <2>3
  <1>5. ASSUME NEW r \in Requests, SaveDate(r) PROVE Goal
    <2> PICK q : q = requests[r]
      OBVIOUS
    <2>1. q.pc = "changing" /\ Knows(q, event, dates, roster) /\ Typed(q, made)
      BY <1>2, <1>5 DEF SaveDate
    <2>2. CASE e \in dates
      <3>1. Kept(e)
        OBVIOUS
      <3> QED BY <1>1, <2>2, <3>1 DEF DateRow
    <2>3. CASE e \notin dates
      <3>1. e = q.row
        BY <1>5, <2>3 DEF SaveDate
      <3>2. \E d \in dates : Kept(d)
        BY <2>1, <3>1 DEF Knows
      <3>3. e.status \in {"confirmed", "cancelled"} /\ e.date \in Int
        BY <2>1, <3>1 DEF Typed, DateRow
      <3> QED BY <3>2, <3>3
    <2> QED BY <2>2, <2>3
  <1>6. ASSUME NEW g \in members, RemoveMember(g) PROVE Goal
    <2>1. PICK d \in dates : e = [d EXCEPT !.guides = d.guides \ {g}]
      BY <1>6 DEF RemoveMember, Unassigned
    <2>2. e.id = d.id /\ e.status = d.status /\ e.date = d.date /\ e.guides = d.guides \ {g}
      BY <1>1, <2>1 DEF DateRow
    <2>3. Kept(d)
      BY <2>2
    <2> QED BY <1>1, <2>2, <2>3 DEF DateRow
  <1> HIDE DEF Goal
  <1>7. CASE EventStep
    BY <1>3, <1>7 DEF EventStep, Create, StartUpdate, StartCancel, Start, SaveEvent, Remove, schedule
  <1>8. CASE DateStep
    BY <1>3, <1>4, <1>5, <1>8
       DEF DateStep, StartConfirm, StartChange, StartNote, StartCancelDate, Start, RemoveDate, schedule
  <1>9. CASE RosterStep
    BY <1>3, <1>6, <1>9 DEF RosterStep, EnterBlock, DropBlock, EnterRule, DropRule, schedule
  <1>10. CASE UNCHANGED vars
    BY <1>3, <1>10 DEF vars, schedule
  <1> QED BY <1>7, <1>8, <1>9, <1>10 DEF Next

\* Where requests do not meet, a guide assigned to a date that ends on its day is free for all of it.
THEOREM GuidesStayFree == Spec => GuidesAreFree
PROOF
  <1> DEFINE Free == calm' => AssignmentsAreFree({ d \in dates' : EndsSameDay(d.date, event.duration) })
  <1>1. ScheduleInv /\ CalmInv /\ [Next]_vars => Free
    <2> SUFFICES ASSUME ScheduleInv, CalmInv, [Next]_vars, calm',
                        NEW e \in dates', EndsSameDay(e.date, event.duration), NEW g \in e.guides,
                        e.status = "confirmed", e.id \notin Assigned(g, dates)
                 PROVE  IsFree(g, e.date, event.duration, blocks, rules)
      BY DEF AssignmentsAreFree
    <2>1. dates \subseteq DateRow(made)
      BY DEF ScheduleInv
    <2>2. ~\E d \in dates : d.id = e.id /\ d.status = "confirmed" /\ g \in d.guides
      BY DEF Assigned
    <2>3. e.date \in Int /\ CanTake(e.date, e.guides, event, roster)
      BY <2>1, <2>2, Origins DEF DateRow
    <2> QED BY <2>3, AvailableIsFree
  <1> HIDE DEF Free
  <1>2. GuidesAreFree <=> [][Free]_vars
    BY PTL DEF GuidesAreFree, Free
  <1> QED BY <1>1, <1>2, ReadingsAreCurrent, PTL DEF Spec

\* Where requests do not meet, a cancelled event or date stays cancelled, and only dates of an
\* active event's rule are added.
THEOREM CancellationsStick == Spec => CancellationSticks
PROOF
  <1> DEFINE Sticks ==
        calm' =>
          /\ event.status = "cancelled" => event'.status \in {"cancelled", "gone"}
          /\ \A d \in dates : \A e \in dates' :
               d.id = e.id /\ d.status = "cancelled" => e.status = "cancelled"
          /\ \A e \in dates' : e.id \notin Ids =>
               event.status = "active" /\ e.date \in Match(event, e.date)
  <1>1. ScheduleInv /\ CalmInv /\ [Next]_vars => Sticks
    <2> SUFFICES ASSUME ScheduleInv, CalmInv, [Next]_vars, calm' PROVE Sticks
      OBVIOUS
    <2>1. \A d, e \in dates : d.id = e.id => d = e
      BY DEF ScheduleInv
    <2>2. ASSUME NEW d \in dates, NEW e \in dates', d.id = e.id, d.status = "cancelled"
          PROVE  e.status = "cancelled"
      BY <2>1, <2>2, Origins
    <2>3. ASSUME NEW e \in dates', e.id \notin Ids
          PROVE  event.status = "active" /\ e.date \in Match(event, e.date)
      BY <2>3, Origins DEF Ids
    <2>4. ASSUME event.status = "cancelled" PROVE event'.status \in {"cancelled", "gone"}
      <3>1. ASSUME NEW r \in Requests, SaveEvent(r) PROVE event'.status = "cancelled"
        <4>1. calm /\ requests[r].pc = "saving"
          BY <3>1 DEF SaveEvent, Finish
        <4>2. Knows(requests[r], event, dates, roster)
          BY <4>1 DEF CalmInv
        <4>3. requests[r].row.status = "cancelled"
          BY <2>4, <4>1, <4>2 DEF Knows
        <4> QED BY <2>4, <3>1, <4>3 DEF SaveEvent
      <3>2. CASE EventStep
        <4>1. ASSUME NEW row \in Events PROVE ~Create(row)
          BY <2>4 DEF Create
        <4>2. ASSUME NEW r \in Requests, NEW patch \in Patches, StartUpdate(r, patch) PROVE event' = event
          BY <4>2 DEF StartUpdate, Start, schedule
        <4>3. ASSUME NEW r \in Requests, StartCancel(r) PROVE event' = event
          BY <4>3 DEF StartCancel, Start, schedule
        <4>4. ASSUME Remove PROVE event'.status = "gone"
          BY <4>4 DEF Remove
        <4> QED BY <2>4, <3>1, <3>2, <4>1, <4>2, <4>3, <4>4 DEF EventStep
      <3>3. CASE DateStep
        BY <2>4, <3>3 DEF DateStep, StartConfirm, StartChange, StartNote, StartCancelDate, Start,
                           InsertDate, SaveDate, RemoveDate, schedule
      <3>4. CASE RosterStep
        BY <2>4, <3>4 DEF RosterStep, EnterBlock, DropBlock, EnterRule, DropRule, RemoveMember, schedule
      <3>5. CASE UNCHANGED vars
        BY <2>4, <3>5 DEF vars, schedule
      <3> QED BY <3>2, <3>3, <3>4, <3>5 DEF Next
    <2> QED BY <2>2, <2>3, <2>4
  <1> HIDE DEF Sticks
  <1>2. CancellationSticks <=> [][Sticks]_vars
    BY PTL DEF CancellationSticks, Sticks
  <1> QED BY <1>1, <1>2, ReadingsAreCurrent, PTL DEF Spec

=============================================================================
