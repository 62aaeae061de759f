SPECIFICATION Spec
CONSTANTS
  KeywordLists <- FewKeywords
  Texts <- FewTexts
  EOL <- LineEnd
INVARIANT TypeOK
INVARIANT NearlyKeywords
PROPERTY FindsAllKeywords
PROPERTY SearchEnds
