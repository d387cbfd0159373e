CONSTANTS
  p = p
  q = q
  NoFile = NoFile
  Files = {p, q}
  Names = {"m", "main"}
  Main = "main"
  Base <- MCBase
  MaxNodes = 3
  MaxScopes = 5
  MaxParameters = 1

SPECIFICATION Spec
CHECK_DEADLOCK FALSE

INVARIANTS LexicalBinding Private NoShadowing
