SPECIFICATION Spec
CONSTANTS
  r1 = r1
  r2 = r2
  stop = stop
  typo = typo
  A = A
  B = B
  NoStop = NoStop
  Requests <- OneRequest
  Queries <- MCQueries
  Stops <- MCStops
  KnownStops <- MCKnown
  Names <- MCNames
  Timetables <- MCTimetables
  HourOf <- MCHourOf
  DayOf <- MCDayOf
  LastTime = 5
  MaxTime = 3
  MaxExpiries = 1
INVARIANT FailureIs500
CHECK_DEADLOCK FALSE
