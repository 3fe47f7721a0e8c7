SPECIFICATION Spec
CONSTANTS
  s2027 = s2027
  Code = {s2027}
  NoCode = NoCode
  Typed <- MCTyped
  Normal <- MCNormal
  Caller = {dora, emil}
  Dean = {dora, emil}
  Interactive = {dora}
  MaxTime = 1
  Person = {paul, petra}
  NoPerson = NoPerson
  Role <- MCRole
PROPERTIES
  PageWasCurrent
