SPECIFICATION GameSpec
CONSTANTS
  TextRead <- MCTextRead
  TextPlain <- MCTextPlain
  Judgement <- MCJudgement
  PlacesAsked <- MCPlacesAsked
  PlacesAgree <- MCPlacesAgree
  DisksAgree <- MCDisksAgree
  TextFixed <- MCTextFixed
  FixesMatch <- MCFixesMatch
  KeyActions <- MCKeyActions
  ActionsStandAlone <- MCActionsStandAlone
  SampleOf <- MCSampleOf
  ReadLoc <- MCReadLoc
  LocsScoped <- MCLocsScoped
  LocsMerged <- MCLocsMerged
  KeysMerged <- MCKeysMerged
  KeysPerLang <- MCKeysPerLang
  MaxFiles = 2
  MaxBytes = 2
  Directories <- MCDirectories
  RuleFilesIn <- MCRuleFilesIn
  ReadOf <- MCReadOf
  RefusedFor <- MCRefusedFor
  MergeResults <- MCMergeResults
  Files = {"own", "<vanilla>", "v1", "v2"}
  Types = {"ship", "ship.big", "tag"}
  Subtypes = {"ship.big"}
  Names = {"a", "A", "b", "B"}
  Lower <- MCLower
  Installs <- MCInstalls
  Rulesets <- MCRulesets
  Workspace <- MCWorkspace
  FoldSegment <- MCFoldSegment
  PlainChars = {"v", "ver-", "1", "a", "mtime-", "0"}
  KnownFolders = {"common"}
  DefaultFolders = {"ships", "common"}
  Configs <- MCConfigs
  Optional <- MCOptional
  MaxUpdates = 1
  MaxStarts = 2
INVARIANTS DynamicValuesKept
CHECK_DEADLOCK FALSE
