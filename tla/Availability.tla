------------------------------ MODULE Availability ------------------------------
(***************************************************************************)
(* Whether a guide can take a date: the two answers                        *)
(* src/src/team-members/team-members.service.ts gives, one to the picker   *)
(* (listAvailableMembers) and one to whoever assigns a guide               *)
(* (assertMembersAvailable), and what both are meant to say.               *)
(*                                                                         *)
(* A block takes whole days off, a weekly rule a weekday or some minutes   *)
(* of it.                                                                  *)
(***************************************************************************)
EXTENDS Recurrence

CONSTANT WholeDay   \* the hours of a rule without startTime and endTime

Minutes == Day \div Minute   \* in a day

\* date-time to minutes since midnight, seconds dropped
MinuteOf(t) == (t % Day) \div Minute

\* The rows: both days included; the hours up to their end.
UnavailableDates(guides) == [guide : guides, first : Days, last : Days]
RecurringUnavailability(guides) ==
  [guide : guides, weekday : 0..6, hours : {WholeDay} \cup [start : 0..Minutes, end : 0..Minutes]]

Covers(block, d) == block.first <= d /\ d <= block.last

-----------------------------------------------------------------------------
(* assertMembersAvailable *)

\* The first block or rule of any of the guides that stands against the date.
IgnoresRules(date, duration, ids, members, blocks, rules) ==   \* mistake
  /\ ids \subseteq members
  /\ ~\E block \in blocks : block.guide \in ids /\ Covers(block, DayOf(date))
MembersAvailable(date, duration, ids, members, blocks, rules) ==
  LET start == MinuteOf(date)
      end == start + duration
      Clashes(rule) == \/ rule.hours = WholeDay
                       \/ start < rule.hours.end /\ rule.hours.start < end
  IN /\ ids \subseteq members
     /\ ~\E block \in blocks : block.guide \in ids /\ Covers(block, DayOf(date))
     /\ ~\E rule \in rules : /\ rule.guide \in ids
                             /\ rule.weekday = Weekday(DayOf(date))
                             /\ Clashes(rule)

-----------------------------------------------------------------------------
(* listAvailableMembers *)

\* isUnavailableAt, of one guide's blocks and rules
TouchingCounts(date, duration, blocks, rules) ==   \* mistake
  \/ \E block \in blocks : Covers(block, DayOf(date))
  \/ \E rule \in rules :
       /\ rule.weekday = Weekday(DayOf(date))
       /\ \/ rule.hours = WholeDay
          \/ /\ MinuteOf(date) <= rule.hours.end
             /\ rule.hours.start <= MinuteOf(date) + duration
IsUnavailableAt(date, duration, blocks, rules) ==
  \/ \E block \in blocks : Covers(block, DayOf(date))
  \/ \E rule \in rules :
       /\ rule.weekday = Weekday(DayOf(date))
       /\ \/ rule.hours = WholeDay
          \/ /\ MinuteOf(date) < rule.hours.end
             /\ rule.hours.start < MinuteOf(date) + duration

Of(guide, rows) == { row \in rows : row.guide = guide }

AvailableMembers(date, duration, members, blocks, rules) ==
  { g \in members : ~IsUnavailableAt(date, duration, Of(g, blocks), Of(g, rules)) }

-----------------------------------------------------------------------------
(* What they mean: no minute of [date, date + duration] is one the guide   *)
(* has off.                                                                *)

HasOff(guide, minute, blocks, rules) ==
  LET d == minute \div Minutes
      m == minute % Minutes
  IN \/ \E block \in Of(guide, blocks) : Covers(block, d)
     \/ \E rule \in Of(guide, rules) :
          /\ rule.weekday = Weekday(d)
          /\ \/ rule.hours = WholeDay
             \/ rule.hours.start <= m /\ m < rule.hours.end

\* The minutes of the window, counted from minute 0 of day 0.
Window(date, duration) == { date \div Minute + k : k \in 0..(duration - 1) }

IsFree(guide, date, duration, blocks, rules) ==
  \A minute \in Window(date, duration) : ~HasOff(guide, minute, blocks, rules)

EndsSameDay(date, duration) == MinuteOf(date) + duration <= Minutes

=============================================================================
