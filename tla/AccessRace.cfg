SPECIFICATION Spec
CONSTANTS
  Person = {dora}
  NoPerson = NoPerson
  DevUser = DevUser
  Token = {t1}
  Request = {r1, r2}
  Role = {"DEANS_OFFICE"}
  Operation <- MCOperation
  Assumable <- MCAssumable
  Scoping <- MCScoping
  Lifetime = {1}
  Coarse = 0
  MaxMarks = 1
  MaxTime = 1
  Byte = {"t", "0", "_"}
  Crockford = {"t", "0"}
  Prefix <- MCPrefix
  IdLength = 2
  SecretLength = 2
INVARIANTS
  AnswersAreDue
  AllOrNothing
PROPERTIES
  TokensAreFixed
SYMMETRY AccessSymmetry
