SPECIFICATION StartedSpec
CONSTANTS
  Person = {anna, lena}
  NoPerson = NoPerson
  Protected = {anna}
  Edited = {lena}
  Call = {c1, c2}
  Role = {"LECTURER", "DEANS_OFFICE", "ADMIN"}
  Expiry = {}
  MaxGrant = 0
  MaxTime = 0
INVARIANT
  OneOfTheSets
SYMMETRY CallSymmetry
