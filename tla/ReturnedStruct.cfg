SPECIFICATION Spec
CONSTANTS
  Statements <- ReturnStatements
  MaxStatements = 2
  Careful = FALSE
INVARIANT ReturnedIntact
CHECK_DEADLOCK FALSE
