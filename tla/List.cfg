SPECIFICATION ListSpec
CONSTANTS
  e1 = e1
  e2 = e2
  Elements = {e1, e2}
  Garbage = Garbage
  DefaultLength = 3
  MaxInt = 15
INVARIANTS
  TypeOK
PROPERTY
  AppendsSpec
CHECK_DEADLOCK FALSE
