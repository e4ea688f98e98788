\* Two transactions of up to three statements, the connection lost twice.
SPECIFICATION FairSpec
CONSTANTS
  MaxItems = 3
  MaxTrans = 2
  MaxLosses = 2
INVARIANTS
  TypeOK
  AllOrNothing
  NoForeignStatement
PROPERTY TransactionEnds
\* No transaction is left to run, or the process has ended.
CHECK_DEADLOCK FALSE
