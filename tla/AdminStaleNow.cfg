SPECIFICATION Spec
CONSTANTS
  NoConn = NoConn
  NoPerson = NoPerson
  Person = {anna, bert}
  Conn = {c1, c2}
  Protected = {}
  Grantable = {}
  MaxTime = 1
  Expiry = {1, 2}
PROPERTIES
  CountsOnlyUnexpired
SYMMETRY ConnSymmetry
