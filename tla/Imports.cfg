CONSTANTS
  main = main
  a = a
  b = b
  MainNode = MainNode
  Garbage = Garbage
  Path = {main, a, b}
  MainPath = main
  MaxImports = 2
  TableCapacity = 2

SPECIFICATION Spec
CHECK_DEADLOCK FALSE

INVARIANTS
  TypeOK NoReentry ImportFound ResolveOrder AbortOnlyOnCycle
  BuiltResolved BuiltOnce
PROPERTIES ClosureSpec Terminates
