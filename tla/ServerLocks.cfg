\* Three threads over every section but the close of an ignored file.
SPECIFICATION Spec
CONSTANTS
  Threads = {t1, t2, t3}
  Nobody = nobody
  Locks <- ServerLockNames
  Sections <- OrdinarySections
  Rank <- ServerRank
INVARIANTS FollowsOrder NoDeadlock
SYMMETRY ThreadSymmetry
CHECK_DEADLOCK FALSE
