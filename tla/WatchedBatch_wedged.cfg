\* The command is cancelled while its scan closes the progress indicator.
SPECIFICATION Spec
CONSTANTS
  Files = {f1, f2}
  Windows = {w1, w2, w3}
  NoWindow = noWindow
  NoFile = noFile
  Cap = 1
  MaxEvents = 3
  MaxScans = 1
  MaxPanics = 0
  CanCancel = TRUE
INVARIANTS FlagReleased
CHECK_DEADLOCK FALSE
