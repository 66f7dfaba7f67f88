\* One owner and up to four workers; two threads, two strings, scopes two deep.
CONSTANTS
  MaxStarts = 4
  Threads = {"t1", "t2"}
  Strings = {"a", "b"}
  None = "none"
  MaxDepth = 2
SPECIFICATION Spec
INVARIANTS OneWorker NoTaskAfterStop OnlySelfStopTerminates MarksAreHonest OneScopeNeverWaitsForItself
PROPERTIES StopEnds CallsReturn
\* The program may end, an object be destroyed, nested scopes deadlock.
CHECK_DEADLOCK FALSE
