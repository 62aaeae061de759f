SPECIFICATION Spec
CONSTANTS
  Commands <- MCCommands
  Kind <- MCKind
  Entries <- MCEntries
  Content <- MCContent
  Accepts <- MCAccepts
  Blank = ""
INVARIANT ExitTellsMatch
INVARIANT OutputIsShown
