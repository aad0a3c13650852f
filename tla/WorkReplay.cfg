SPECIFICATION FairSpec
CONSTANTS
  Wad = 5
  NMax = 3
  Limb = 4
  Version = 2
  Absent = Absent
  Claims <- MCClaims
  Files <- MCFiles
PROPERTIES
  ImplementsLoop
CHECK_DEADLOCK FALSE
