SPECIFICATION FairSpec
CONSTANTS
  Wad = 5
  NMax = 3
  Limb = 4
  Version = 2
  Absent = Absent
  Claims <- MCClaims
  Order <- MCOrder
INVARIANTS
  ComponentsBounded
  DriftBounded
  VerdictExact
  DerivedInputOK
PROPERTIES
  MaxNeverGrows
  Terminates
CHECK_DEADLOCK FALSE
