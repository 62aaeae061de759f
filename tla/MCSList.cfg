SPECIFICATION Spec
CONSTANTS
  reach = reach
  stack = stack
  chopped = chopped
  x = x
  y = y
  Lists = {reach, stack, chopped}
  Embedded = {reach}
  Stacks = {stack}
  Data = {x, y}
  Matching = {y}
  MaxItems = 4
  MaxIndex = 3
  Spare = 1
INVARIANT TypeOK
INVARIANT ItemsHaveOneHome
INVARIANT QueriesAgree
PROPERTY ListsAreSequences
