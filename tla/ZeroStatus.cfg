SPECIFICATION Spec
CONSTANTS
  Procs = {1}
  Paths <- MCPaths
  Temps = {"t1", "t2", "t3"}
  Old = {"t3"}
  Jobs <- AloneJobs
INVARIANT ZeroMeansMade
