\* Two readers against writers of both overlays and of the index.
SPECIFICATION Spec
CONSTANTS
  Files = {x}
  Keys = {a}
  NoEntry = noEntry
  Readers = {r1, r2}
  MaxRevision = 2
  MaxOwed = 1
INVARIANTS KeysCacheCoherent NamesCacheCoherent
SYMMETRY ReaderSymmetry
CHECK_DEADLOCK FALSE
