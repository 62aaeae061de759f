SPECIFICATION Spec
CONSTANTS
  Patterns <- AsciiPatterns
  Texts <- AsciiTexts
  EOL = 254
  MaxSearches = 3
  MaxRecords = 6
INVARIANT TypeOK
INVARIANT RingsWhole
PROPERTY FindsAllKeywords
PROPERTY SearchEnds
