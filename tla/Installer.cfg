SPECIFICATION Spec
CONSTANTS
  Systems <- MCSystems
  MaxRuns = 2
  MaxRev = 2
INVARIANTS TypeOK RollbackExact InstalledComplete NothingUnasked
PROPERTIES DryRunHarmless UserAborts
