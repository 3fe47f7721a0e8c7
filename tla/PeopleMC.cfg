SPECIFICATION MCSpec
CONSTANTS
  Person = {anna, lena}
  NoPerson = NoPerson
  Protected = {anna}
  Edited = {lena}
  Call = {c1, c2}
  Role = {"LECTURER", "ADMIN"}
  Expiry = {1}
  MaxGrant = 1
  MaxTime = 1
INVARIANTS
  TypeOK
  ExactWhenAlone
  Agreement
PROPERTIES
  ExpiryKept
SYMMETRY CallSymmetry
