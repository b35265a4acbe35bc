---------------------------- MODULE MCEventSchedule ----------------------------
\* Three short months, three minutes a day; rules of every kind, days off of every kind.
EXTENDS EventSchedule, TLC

const_Months == <<8, 6, 8>>

Rule(freq, interval, byDay, until) ==
  [freq |-> freq, interval |-> interval, byDay |-> byDay, until |-> until]
Once(start, duration) ==
  [start |-> start, duration |-> duration, frequency |-> "single", rule |-> NoRule]
Series(start, duration, rule) ==
  [start |-> start, duration |-> duration, frequency |-> "recurring", rule |-> rule]

const_Events == {
  Once(3, 2),                                   \* a fraction into the first minute
  Series(4, 1, Rule("weekly", 2, {1, 3}, NoEnd)),
  Series(92, 2, Rule("monthly", 1, {}, 255)) }  \* the eighth day of its month, past midnight

const_Patches == {
  [frequency |-> "single", start |-> 90],
  [frequency |-> "recurring", rule |-> Rule("daily", 3, {}, 130)] }

const_Requested == {3, 95}

const_Windows == {[from |-> 0, to |-> 263], [from |-> 4, to |-> 99]}

const_Blocks == {[guide |-> "g1", first |-> 0, last |-> 0],
                 [guide |-> "g1", first |-> 1, last |-> 0]}   \* refused
const_NextDay == {[guide |-> "g1", first |-> 8, last |-> 8]}   \* where the monthly date ends
const_Rules == {[guide |-> "g1", weekday |-> 1, hours |-> [start |-> 1, end |-> 2]]}

Symmetry == Permutations(Requests)
=============================================================================
