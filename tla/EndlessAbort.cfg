SPECIFICATION Spec
CONSTANTS
  Systems <- MCSystems
  MaxRuns = 2
  MaxRev = 2
PROPERTY Aborts
