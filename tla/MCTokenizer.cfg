CONSTANTS
  Lines <- MCLines
  Shape <- MCShape
  Custom <- MCCustom
  CustomFormat <- MCCustomFormat
  Confidence <- MCConfidence
  Normalize <- MCNormalize
  Parses <- MCParses
  Lifts <- MCLifts
  Echoed <- MCEchoed
  Formats <- MCFormats
  MaxScore = 80
  MaxLines = 4
  SlotsPerDay = 1
  MinReprYear = 2022
  MaxReprYear = 2027
  Contexts = {"gitlab", "github"}
  TimeOf <- MCTimeOf
  Bodiless <- MCBodiless
  Documents <- MCDocuments
  Unpacks <- MCUnpacks
  Batches <- MCBatches
SPECIFICATION SpecTokenizer
INVARIANTS
  EventOfItsStream
  IdsAreDense
  FanOutInPlace
