SPECIFICATION FairAnchorSpec
CONSTANTS
  AgentId = {a1}
  RequestHash = {r1, r2}
  ResponseHash = {rh}
  ZeroCommit = ic0
  InputCommit = {ic0, ic1, ic2}
  Response = {0, 100}
  Proof <- MCHonestProof
  Accepts <- MCAccepts
  Genuine <- MCGenuine
  ImplB = TRUE
  BitcoinRef = {b1, b2}
  Validator = {This}
  This = This
  MaxEntries = 2
  None = None
PROPERTIES
  OpenUntilRecomputed
  AppendOnly
  GenuineChallengeSettles
INVARIANTS
  CommitmentsHold
  ReferencesAreAncestral
  AuditReverifies
CHECK_DEADLOCK FALSE
