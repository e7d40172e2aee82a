CONSTANTS
  Digit <- MCDigit
  HexLetter <- MCHex
  Word <- MCWord
  kMaxStatusDigits = 1
  kMinHashLen = 4
  kUuidLen = 6
  kUuidDashes <- MCUuidDashes
  InstantShape <- MCInstant
  Rfc3339Shape <- MCRfc3339
  kMaxDepth = 3
  CodeOf <- MCCode
  Contents <- Nothing
  DeclaredSets <- MCDeclared
  TextLines <- MCGluedLines
  Memories <- MCMemories
  Spelling <- MCSpelling
  Objects <- Nothing
  Exports <- Nothing
  Stamps <- MCStamps
  LevelNames <- MCLevels
  Nanos <- MCNanos
  IntentNames <- MCIntentNames
  Introducers <- MCIntroducers
  RunSets <- MCDeclared
SPECIFICATION Spec
CHECK_DEADLOCK FALSE
INVARIANT TrimsInRange
