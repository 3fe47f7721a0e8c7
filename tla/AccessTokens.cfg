SPECIFICATION Spec
CONSTANTS
  Person = {dora}
  NoPerson = NoPerson
  DevUser = DevUser
  Token = {t1, t2}
  Request = {r1}
  Role = {"DEANS_OFFICE"}
  Operation <- MCOperation
  Assumable <- MCAssumable
  Scoping = {{}}
  Lifetime = {3}
  Coarse = 1
  MaxMarks = 1
  MaxTime = 2
  Byte = {"t", "0", "_"}
  Crockford = {"t", "0"}
  Prefix <- MCPrefix
  IdLength = 2
  SecretLength = 2
INVARIANTS
  TypeOK
  LastUseKnown
  MintedIsRead
PROPERTIES
  NoSuccessors
SYMMETRY AccessSymmetry
