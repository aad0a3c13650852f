SPECIFICATION Spec
CONSTANTS
  Claim <- MCClaim
  Block <- MCBlock
  Asset = "btc"
  HexLength = {64, 66}
  Us = Us
  Other = Other
  Response = {0, 100}
  MaxHeight = 2
  MaxReorgs = 1
  MaxResults = 2
  None = None
INVARIANTS
  PassMeansPrecommitted
CHECK_DEADLOCK FALSE
