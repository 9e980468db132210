CONSTANTS
  Modules <- CoreModules
  MaxIterations = 2
SPECIFICATION Spec
INVARIANTS
  LoweringsAgree
  LoopsCheckpoint
