SPECIFICATION Spec
CONSTANTS
  Names = {x}
  x = x
  Parameters <- MCParameters
  Functions <- MCFunctions
  Types <- MCTypeNames
  MaxValues = 2
  MaxWords = 3
INVARIANTS
  Sound
  RestFilled
  IdsDistinguish
CHECK_DEADLOCK FALSE
