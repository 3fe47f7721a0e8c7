SPECIFICATION FairSpec
CONSTANTS
  NoConn = NoConn
  NoPerson = NoPerson
  Person = {anna, bert, cleo}
  Conn = {c1, c2}
  Protected = {anna}
  Grantable = {anna}
  MaxTime = 0
  Expiry = {1}
INVARIANTS
  AdminSurvives
PROPERTIES
  RegistrySpec
  CallsEnd
