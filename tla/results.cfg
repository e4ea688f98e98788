\* One worker, which is the default, three operations, a tick that may run out
\* of time.  (The run delay has two workers and the serial queues.)
SPECIFICATION DbFairSpec
CONSTANTS
  Clients = {c1}
  NumWorkers = 1
  SerialIds = {}
  Sorts = {"safe", "unsafe"}
  NoTrans = NoTrans
  MaxOps = 3
  TickTimeout = TRUE
INVARIANTS
  QueueTypeOK
  CallbacksOnlyInUpdate
  CallbackInOnePlace
  UnsafeInOrder
  ClosedMeansAnswered
PROPERTIES
  EveryQueryAnswered
\* A closed database stops.
CHECK_DEADLOCK FALSE
