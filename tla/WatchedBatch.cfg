\* Two files, a scan by somebody else that may be cancelled, and one panic.
SPECIFICATION Spec
CONSTANTS
  Files = {f1, f2}
  Windows = {w1, w2}
  NoWindow = noWindow
  NoFile = noFile
  Cap = 1
  MaxEvents = 3
  MaxScans = 1
  MaxPanics = 1
  CanCancel = TRUE
INVARIANTS NothingStranded PresentFilesIndexed
PROPERTIES EventuallyDrained
CHECK_DEADLOCK FALSE
