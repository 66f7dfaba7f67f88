\* Every interleaving of three threads over an unbounded and a one-slot queue,
\* with both overflow policies, and the refinement of BlockingQueue.
CONSTANTS
  t1 = t1
  t2 = t2
  t3 = t3
  Threads = {t1, t2, t3}
  None = None
  Sizes = {0, 1, 2}
  MaxItems = 3
SPECIFICATION FairSpec
INVARIANTS TypeOK WithinCapacity Fifo EveryItemAccounted WakeupsCoverItems PredicateSeesWhatIsPopped
PROPERTY ImplementsBlockingQueue
\* All threads may be blocked on an empty queue with no producer left.
CHECK_DEADLOCK FALSE
