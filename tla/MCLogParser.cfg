CONSTANTS
  Lines <- MCLines
  Shape <- MCShape
  Custom <- MCCustom
  CustomFormat <- MCCustomFormat
  Confidence <- MCConfidence
  Normalize <- MCNormalize
  Parses <- MCParses
  Lifts <- MCLifts
  Echoed <- MCEchoed
  Formats <- MCFormats
  MaxScore = 106
  MaxLines = 4
SPECIFICATION Spec
INVARIANTS
  SkipsExactlyNoEvents
  FallbackOnlyUnclaimed
PROPERTIES
  RoutesPerLine
