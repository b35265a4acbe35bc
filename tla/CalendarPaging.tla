---------------------------- MODULE CalendarPaging ----------------------------
(***************************************************************************)
(* A reader of an event's dates, page after page: listOccurrences of       *)
(* src/src/events/events.service.ts, for an event with no stored dates.    *)
(* Each page is expanded on its own, so that what the pages say together   *)
(* depends on what happens where they meet.                                *)
(***************************************************************************)
EXTENDS Recurrence

CONSTANTS
  Rows,   \* events that are read
  Pages,  \* ticks a page may be long
  NoEvent

\* Events begin within the months there are.
PagingAssumption ==
  /\ Rows \subseteq [start : Nat, frequency : {"single", "recurring"},
                    rule : RecurrenceRule \cup {NoRule}]
  /\ \A event \in Rows : DayOf(event.start) \in Days
  /\ Pages \subseteq Nat \ {0}
  /\ NoEvent \notin Rows

VARIABLES
  row,    \* the event
  next,   \* where the next page begins
  listed, \* dates the pages had
  isFull  \* a page had as many dates as it may have

vars == <<row, next, listed, isFull>>

Init == row = NoEvent /\ next = 0 /\ listed = {} /\ isFull = FALSE

Open(event) ==
  /\ row = NoEvent
  /\ row' = event
  /\ UNCHANGED <<next, listed, isFull>>

ListPage(length) ==
  LET page == Expand(row, next, next + length - 1) IN
  /\ row # NoEvent
  /\ DayOf(next + length) \in Days
  /\ next' = next + length
  /\ listed' = listed \cup page
  /\ isFull' = (isFull \/ Cardinality(page) = MaxExpanded)
  /\ UNCHANGED row

Next ==
  \/ \E event \in Rows : Open(event)
  \/ \E length \in Pages : ListPage(length)

Spec == Init /\ [][Next]_vars

\* The pages so far have exactly the dates that counting out the rule gives up to their end, as
\* long as none was full and the event starts at a whole second; a full page leaves dates out but
\* brings none in.
PagingIsExact ==
  row # NoEvent /\ row.start % Second = 0 =>
    LET due == { t \in Scheduled(row) : t < next }
    IN listed \subseteq due /\ (~isFull => listed = due)

=============================================================================
