SPECIFICATION Spec
CONSTANTS
  main = main
  a = a
  b = b
  Entry = Entry
  Paths = {main, a, b}
  MainPath = main
  Names = {"f", "main"}
  Externs = {"puts"}
  MaxItems = 3
  MaxText = 6
SYMMETRY Symmetry
INVARIANTS
  CallsStayInModule
  SymbolsResolve
  LinkFails
CHECK_DEADLOCK FALSE
