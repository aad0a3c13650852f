SPECIFICATION FairSpec
CONSTANTS
  Expected <- MCExpected
  Attempts = 3
  GasPrice = {1, 2}
  MaxRuns = 2
  None = None
INVARIANTS
  TypeOK
  OneCallInDoubt
  DoneMeansExpected
PROPERTIES
  ImplementsSerialCalls
  RunEnds
CHECK_DEADLOCK FALSE
