\* Two ranges whose union is the week but for a part of one day.
CONSTANTS
  Days = 3
  MinPerDay = 3
  MaxAdds = 2
SPECIFICATION WeeklySpec
INVARIANT EveryAddedMinuteIsActive
CHECK_DEADLOCK FALSE
