SPECIFICATION Spec
CONSTANTS
  Procs = {1, 2}
  Headers <- MCHeads
  Base <- MCBase
  Funs <- MCFuns
  Decls <- MCDecls
  Wants <- TwoWants
INVARIANT HeaderReturned
