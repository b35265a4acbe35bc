------------------------------- MODULE Recurrence -------------------------------
(***************************************************************************)
(* The dates of an event: src/src/events/events.recurrence.ts.             *)
(*                                                                         *)
(* An instant is a number of ticks since the midnight (UTC) day 0 begins   *)
(* with; seconds and minutes are units of several ticks, so that an        *)
(* instant may have a fraction of either.  The calendar is the months      *)
(* MonthLengths counts from day 0, with the weeks running through them.    *)
(***************************************************************************)
EXTENDS Integers, Sequences, FiniteSets

CONSTANTS
  Day, Minute, Second, \* ticks they last
  FirstWeekday,        \* weekday of day 0, Sunday being 0
  MonthLengths,        \* days of the months
  MaxExpanded,         \* MAX_EXPANDED_OCCURRENCES
  NoRule,              \* no recurrence
  NoEnd                \* no end of the series

ASSUME RecurrenceAssumption ==
  /\ {Day, Minute, Second, MaxExpanded} \subseteq Nat \ {0}
  /\ Minute % Second = 0 /\ Day % Minute = 0
  /\ FirstWeekday \in 0..6
  /\ MonthLengths \in Seq(Nat \ {0})

-----------------------------------------------------------------------------
(* The calendar *)

DayOf(t) == t \div Day
Weekday(d) == (d + FirstWeekday) % 7
WeekStart(d) == d - Weekday(d)
EndOfDay(d) == d * Day + Day - 1

monthStart[m \in 1..(Len(MonthLengths) + 1)] ==
  IF m = 1 THEN 0 ELSE monthStart[m - 1] + MonthLengths[m - 1]
Months == 1..Len(MonthLengths)
Days == 0..(monthStart[Len(MonthLengths) + 1] - 1)

monthOf == [d \in Days |-> CHOOSE m \in Months : monthStart[m] <= d /\ d < monthStart[m + 1]]
MonthDay(d) == d - monthStart[monthOf[d]]

\* withTimeOfDay: hours, minutes and seconds are kept, what is less is not.
At(d, time) == d * Day + (time % Day) - (time % Second)

-----------------------------------------------------------------------------
(* expandOccurrences *)

Frequencies == {"daily", "weekly", "monthly"}

\* A rule as requests may write it.
RecurrenceRule ==
  [freq : Frequencies, interval : Nat \ {0}, byDay : SUBSET (0..6), until : Nat \cup {NoEnd}]

\* toExpandableEvent
RuleOf(event) == IF event.frequency = "recurring" THEN event.rule ELSE NoRule

MaxOf(a, b) == IF a > b THEN a ELSE b
MinOf(a, b) == IF a < b THEN a ELSE b

\* The weekdays of a weekly rule.
ByDay(rule, first) == IF rule.byDay = {} THEN {Weekday(first)} ELSE rule.byDay

\* isOccurrenceDay
AnyWeek(d, first, rule) ==   \* mistake
  \/ rule.freq = "daily" /\ (d - first) % rule.interval = 0
  \/ /\ rule.freq = "weekly"
     /\ Weekday(d) \in ByDay(rule, first)
     /\ ((d - first) \div 7) % rule.interval = 0
  \/ /\ rule.freq = "monthly"
     /\ MonthDay(d) = MonthDay(first)
     /\ (monthOf[d] - monthOf[first]) % rule.interval = 0
IsOccurrenceDay(d, first, rule) ==
  \/ rule.freq = "daily" /\ (d - first) % rule.interval = 0
  \/ /\ rule.freq = "weekly"
     /\ Weekday(d) \in ByDay(rule, first)
     /\ ((WeekStart(d) - WeekStart(first)) \div 7) % rule.interval = 0
  \/ /\ rule.freq = "monthly"
     /\ MonthDay(d) = MonthDay(first)
     /\ (monthOf[d] - monthOf[first]) % rule.interval = 0

\* The first n instants of a set: the loop stops when it has so many.
Earliest(instants, n) == { t \in instants : Cardinality({ u \in instants : u < t }) < n }

\* The days the loop runs over.
LastDay(rule, to) == IF rule.until = NoEnd THEN DayOf(to) ELSE MinOf(DayOf(to), DayOf(rule.until))
LoopDays(start, rule, from, to) == MaxOf(DayOf(start), DayOf(from))..LastDay(rule, to)

Expand(event, from, to) ==
  LET rule == RuleOf(event)
      days == { d \in LoopDays(event.start, rule, from, to) :
                  IsOccurrenceDay(d, DayOf(event.start), rule) }
  IN IF rule = NoRule
     THEN {event.start} \cap (from..to)
     ELSE Earliest({ t \in { At(d, event.start) : d \in days } :
                       from <= t /\ t <= to /\ event.start <= t }, MaxExpanded)

-----------------------------------------------------------------------------
(* What a rule means: the days are counted out from the first one, unit by *)
(* unit, instead of being looked through.                                  *)

RuleDays(rule, first) ==
  LET steps == { k * rule.interval : k \in 0..Cardinality(Days) }
      days == CASE rule.freq = "daily" -> { first + k : k \in steps }
                [] rule.freq = "weekly" ->
                     { WeekStart(first) + 7 * k + w : k \in steps, w \in ByDay(rule, first) }
                [] rule.freq = "monthly" ->
                     { monthStart[m] + MonthDay(first) : m \in
                        { m \in Months : /\ m - monthOf[first] \in steps
                                         /\ MonthDay(first) < MonthLengths[m] } }
  IN { d \in days \cap Days : d >= first }

Scheduled(event) ==
  LET first == DayOf(event.start)
      rule == RuleOf(event)
  IN IF rule = NoRule
     THEN {event.start}
     ELSE { event.start + (d - first) * Day :
              d \in { d \in RuleDays(rule, first) : rule.until # NoEnd => d <= DayOf(rule.until) } }

=============================================================================
