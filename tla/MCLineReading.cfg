CONSTANTS
  Digit <- MCDigit
  HexLetter <- MCHex
  Word <- MCWord
  kMaxStatusDigits = 1
  kMinHashLen = 4
  kUuidLen = 6
  kUuidDashes <- MCUuidDashes
  InstantShape <- MCInstant
  Rfc3339Shape <- MCRfc3339
  kMaxDepth = 3
  CodeOf <- MCCode
  Contents <- MCContents
  DeclaredSets <- MCDeclared
  TextLines <- MCTextLines
  Memories <- MCMemories
  Spelling <- MCSpelling
  Objects <- MCDistinct
  Exports <- MCExports
  Stamps <- MCStamps
  LevelNames <- MCLevels
  Nanos <- MCNanos
  IntentNames <- MCIntentNames
  Introducers <- MCIntroducers
  RunSets <- MCDeclared
SPECIFICATION Spec
CHECK_DEADLOCK FALSE
INVARIANTS
  ParamsBindWildcards
  StatusStaysDistinct
  SwitchDecidesAddresses
  RootsIgnoreTheirLead
  MemberOrderIsPresentation
  ShortlistLosesNothing
  ClaimIsCommitment
  MessageReachesContent
  ReaderIsInvisible
  SpellingIsInvisible
  IdentitySeparates
  ExportTellsTheSpans
