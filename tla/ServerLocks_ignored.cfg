\* A file that an ignore pattern excludes is closed while it exists on disk.
SPECIFICATION Spec
CONSTANTS
  Threads = {t1, t2, t3}
  Nobody = nobody
  Locks <- ServerLockNames
  Sections <- AllSections
  Rank <- ServerRank
INVARIANTS NoDeadlock
SYMMETRY ThreadSymmetry
CHECK_DEADLOCK FALSE
