SPECIFICATION Spec
CONSTANTS
  s2027 = s2027
  Code = {s2027}
  NoCode = NoCode
  Typed <- MCTyped
  Normal <- MCNormal
  Caller = {dora, emil, toni}
  Dean = {dora, toni}
  Interactive = {dora}
  MaxTime = 1
  Person = {paul, petra}
  NoPerson = NoPerson
  Role <- MCRole
INVARIANTS
  TypeOK
  NoLostSwitch
  MovedOnIsTrue
  GuardAndFilterAgree
  NothingWidens
  DiagnosisPredicts
PROPERTIES
  UpdatedOnChange
  StaysVisible
  ProcessSpec
