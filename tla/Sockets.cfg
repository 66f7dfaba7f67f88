\* A server with two handlers, or a receiver and a sender, and another
\* component: three descriptors.
CONSTANTS
  MaxFd = 3
  Handlers = {1, 2}
  MaxClients = 2
  MaxAbandoned = 1
SPECIFICATION FairSpec
INVARIANTS NoSocketForgotten SocketsAreTheirOwn
PROPERTY QuitReturns
CHECK_DEADLOCK FALSE
