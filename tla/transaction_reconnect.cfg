SPECIFICATION Spec
CONSTANTS
  MaxItems = 3
  MaxTrans = 1
  MaxLosses = 1
INVARIANT AutocommitOffInTransaction
CHECK_DEADLOCK FALSE
