SPECIFICATION FairSpec
CONSTANTS
  Wad = 5
  NMax = 3
  Limb = 4
  Version = 2
  Absent = Absent
  Claims <- MCClaims
  Word = 26
INVARIANTS
  NoOverflow
PROPERTIES
  ImplementsLoop
CHECK_DEADLOCK FALSE
