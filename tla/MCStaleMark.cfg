SPECIFICATION Spec
CONSTANTS
  Programs <- JustAltRange
  Modes <- LineModes
  Chars = {"a", "b", "c"}
  Lines <- PairLines
  MaxLines = 2
  MaxThreads = 12
  BufCap = 7
  EOL = "EOL"
  NUL = "NUL"
  Upper <- Identity
INVARIANT SearchVerdict
