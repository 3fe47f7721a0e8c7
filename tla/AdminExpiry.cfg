SPECIFICATION Spec
CONSTANTS
  NoConn = NoConn
  NoPerson = NoPerson
  Person = {anna, bert}
  Conn = {c1, c2}
  Protected = {anna}
  Grantable = {anna, bert}
  MaxTime = 1
  Expiry = {1, 2}
INVARIANTS
  TypeOK
  LockSetsExclude
  WaitsForTheOpen
PROPERTIES
  RemovalKeepsAdmin
SYMMETRY ConnSymmetry
