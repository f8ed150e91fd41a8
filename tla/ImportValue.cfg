SPECIFICATION Spec
CONSTANTS
  Names <- MCNames
  Types <- MCTypes
  Bodies <- MCBodies
  Programs <- ControlPrograms
  MaxDepth = 6
INVARIANT ImportReturnsValue
