SPECIFICATION Spec
CONSTANTS
  Statements <- MCStatements
  MaxStatements = 4
  Careful = TRUE
INVARIANTS TypeOK TablesMatchMemory
PROPERTY Implements
CHECK_DEADLOCK FALSE
