\* Two queries: the tick's time is up after the first callback.
SPECIFICATION DbSpec
CONSTANTS
  Clients = {}
  NumWorkers = 1
  SerialIds = {}
  Sorts = {"unsafe"}
  NoTrans = NoTrans
  MaxOps = 2
  TickTimeout = TRUE
INVARIANT ScheduledQueriesCancelled
CHECK_DEADLOCK FALSE
