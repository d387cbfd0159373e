CONSTANTS
  MaxItems = 5
  MaxDeclarations = 2
  MaxDepth = 7
  MaxBranches = 2

SPECIFICATION Spec
CHECK_DEADLOCK FALSE

INVARIANTS
  TypeOK RegularIsWellFormed FlowPreserved VisibleDominates
PROPERTY FinishedUntouched
