\* Two threads, two strings, a scope inside a scope.
CONSTANTS
  Threads = {"t1", "t2"}
  Strings = {"a", "b"}
  None = "none"
  MaxDepth = 2
SPECIFICATION MutexSpec
INVARIANT ReentrancyIsAsserted
\* An assertion ends the program; nested scopes may deadlock.
CHECK_DEADLOCK FALSE
