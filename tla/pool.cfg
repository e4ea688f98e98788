\* Two workers, batches of up to three jobs, four jobs in all.
SPECIFICATION FairSpec
CONSTANTS
  Size = 2
  Modes <- AllModes
  MaxBatch = 3
  MaxJobs = 4
INVARIANTS
  TypeOK
  ResolvedMeansDone
  WorkloadUnshared
  ResubmitAccepted
  NoStaleJob
PROPERTIES
  RoundCompletes
  DestroyJoins
  ImplementsForkJoin
\* A destroyed pool stops, and so does one whose job threw under TERMINATE.
CHECK_DEADLOCK FALSE
