SPECIFICATION Spec
CONSTANTS
  Programs <- AllPrograms
  Modes <- AllModes
  Chars = {"a", "b", "c"}
  Lines <- PairLines
  MaxLines = 2
  MaxThreads = 20
  BufCap = 7
  EOL = "EOL"
  NUL = "NUL"
  Upper <- Identity
INVARIANT TypeOK
INVARIANT OneHome
INVARIANT PoolRestored
INVARIANT MatchesInLine
INVARIANT ReportsOrdered
INVARIANT LaterVerdicts
INVARIANT MarksStayLive
INVARIANT AllMatchesReported
INVARIANT InvertReportsOthers
PROPERTY InputPointerAdvances
