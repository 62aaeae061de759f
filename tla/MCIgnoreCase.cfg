SPECIFICATION Spec
CONSTANTS
  Programs <- JustIgnoring
  Modes <- FoldModes
  Chars = {"a", "b", "c", "A", "B"}
  Lines <- CaseLines
  MaxLines = 1
  MaxThreads = 12
  BufCap = 7
  EOL = "EOL"
  NUL = "NUL"
  Upper <- Capital
INVARIANT SearchVerdict
