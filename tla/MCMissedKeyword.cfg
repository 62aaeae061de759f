SPECIFICATION Spec
CONSTANTS
  KeywordLists <- ManyKeywords
  Texts <- ManyTexts
  EOL <- LineEnd
PROPERTY FindsAllKeywords
