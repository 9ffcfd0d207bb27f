\* A document edited, saved, closed and reopened next to an open dependent, with a
\* redefinition of the same name under another kind.  Versions are never reused and
\* nothing is assumed of the user.
SPECIFICATION Spec
CONSTANTS
  d = d
  r = r
  def = def
  redef = redef
  ref = ref
  blank = blank
  n = n
  none = none
  Redefines = TRUE
  Uris <- MCUris
  Contents <- MCContents
  TextsOf <- MCTextsOf
  Names = {n}
  Symbols <- MCSymbols
  NameOf <- MCNameOf
  Defines <- MCDefines
  Mentions <- MCMentions
  Blank = blank
  None = none
  Permits = 2
  MaxJobs = 3
  MaxVersion = 3
  FreshVersions = TRUE
  InitOpen <- MCUris
  Edited <- MCEdited
INVARIANTS Registered AstCoherent 
PROPERTIES EventuallyValidated
CHECK_DEADLOCK FALSE
