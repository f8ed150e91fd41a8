SPECIFICATION Spec
CONSTANTS
  Procs = {1, 2}
  Paths <- MCPaths
  Temps = {"t1", "t2", "t3", "t4", "t5"}
  Old = {"t5"}
  Jobs <- MCJobs
INVARIANTS
  TypeOK OutputFromSource LibsOnce RefusalReported
