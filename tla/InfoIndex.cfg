\* Two tasks index two files while the ruleset and the base game change.
SPECIFICATION MCSpec
CONSTANTS
  f1 = f1
  f2 = f2
  v1 = v1
  v2 = v2
  NoName = NoName
  NoFile = NoFile
  NoKeys = NoKeys
  Idle = Idle
  Files <- MCFiles
  BaseFiles <- MCBaseFiles
  Types <- MCTypes
  Subtypes <- MCSubtypes
  Names <- MCNames
  Lower <- MCLower
  Symbols <- MCSymbols
  Normal <- MCNormal
  Texts <- MCTexts
  Rulesets <- MCRulesets
  Content <- MCContent
  EffectVars <- MCEffectVars
  Uses <- MCUses
  BaseGame <- MCBaseGame
  Indexers = {"p1"}
  MaxReloads = 1
SYMMETRY MCSymmetry
INVARIANTS PositionsFaithful CountsExact
PROPERTIES AnswersFollowContents
