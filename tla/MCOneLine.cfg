SPECIFICATION FairSpec
CONSTANTS
  Programs <- SoundPrograms
  Modes <- AllModes
  Chars = {"a", "b", "c"}
  Lines <- AnyLines
  MaxLines = 1
  MaxThreads = 20
  BufCap = 7
  EOL = "EOL"
  NUL = "NUL"
  Upper <- Identity
INVARIANT SearchVerdict
PROPERTY SearchReturns
