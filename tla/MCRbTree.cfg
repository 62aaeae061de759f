SPECIFICATION Spec
CONSTANTS
  MaxKey = 6
  Kinds = {"table", "matches"}
  MaxNodes = 6
  MaxMatches = 6
  MaxEqual = 2
INVARIANT TypeOK
INVARIANT InOrder
INVARIANT RedBlack
INVARIANT NodesAccounted
PROPERTY LoopsEnd
