\* Two workers, a serial id for each, three operations.
SPECIFICATION FairSpec
CONSTANTS
  Clients = {c1}
  NumWorkers = 2
  SerialIds = {1, 2}
  Sorts = {"safe"}
  NoTrans = NoTrans
  MaxOps = 3
INVARIANTS
  TypeOK
  SerialOrder
  NothingLost
PROPERTIES
  EveryOperationRuns
  HaltReturns
  ImplementsAsyncStore
\* A closed database stops.
CHECK_DEADLOCK FALSE
