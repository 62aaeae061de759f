SPECIFICATION Spec
CONSTANTS
  Chars = {"a", "b"}
  Code <- MCCode
  EOL = "EOL"
  NUL = "NUL"
  Cases <- AllCases
  Lines <- MCLines
INVARIANT ProgramLanguage
INVARIANT RefusesMalformed
INVARIANT NodesLive
INVARIANT ReachIsClosure
INVARIANT IdsIndexArrays
INVARIANT KeywordsBegin
