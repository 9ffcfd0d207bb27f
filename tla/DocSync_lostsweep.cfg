\* Two quick edits: the sweep of the first is lost with its job.
SPECIFICATION Spec
CONSTANTS
  d = d
  r = r
  def = def
  redef = redef
  ref = ref
  blank = blank
  n = n
  none = none
  Redefines = FALSE
  Uris <- MCUris
  Contents <- MCContents
  TextsOf <- MCTextsOf
  Names = {n}
  Symbols <- MCSymbols
  NameOf <- MCNameOf
  Defines <- MCDefines
  Mentions <- MCMentions
  Blank = blank
  None = none
  Permits = 2
  MaxJobs = 3
  MaxVersion = 3
  FreshVersions = TRUE
  InitOpen <- MCUris
  Edited <- MCEdited
INVARIANTS DependentsFresh
CHECK_DEADLOCK FALSE
