CONSTANTS
  Day = 12
  Minute = 4
  Second = 2
  FirstWeekday = 1
  MonthLengths <- const_Months
  MaxExpanded = 5
  NoRule = NoRule
  NoEnd = NoEnd
  WholeDay = WholeDay
  Events <- const_Events
  Patches <- const_Patches
  Requested <- const_Requested
  Windows <- const_Windows
  Guides = {"g1"}
  Blocks <- const_Blocks
  Rules <- const_Rules
  Requests = {r1, r2}
  MaxDates = 1
SPECIFICATION Spec
SYMMETRY Symmetry
INVARIANTS
  CalendarIsTrue
  PickerAgrees
PROPERTIES
  GuidesAreFree
  CancellationSticks
CHECK_DEADLOCK FALSE
