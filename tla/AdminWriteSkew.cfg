SPECIFICATION Spec
CONSTANTS
  NoConn = NoConn
  NoPerson = NoPerson
  Person = {anna, bert, cleo}
  Conn = {c1, c2}
  Protected = {}
  Grantable = {anna, bert, cleo}
  MaxTime = 0
  Expiry = {1}
INVARIANTS
  SomeAdmin
SYMMETRY ConnSymmetry
