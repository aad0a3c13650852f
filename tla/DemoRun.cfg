SPECIFICATION DemoSpec
CONSTANTS
  AgentId = {us, other}
  RequestHash = {claim}
  ResponseHash = {"block0", "block1"}
  ZeroCommit = ic0
  InputCommit = {ic0, ic1, ic2}
  Response = {0, 100}
  Proof <- MCProof
  Accepts <- MCAccepts
  Genuine = {}
  ImplB = FALSE
  BitcoinRef = {b}
  Validator = {This, Other}
  This = This
  MaxEntries = 4
  None = None
  Us = us
  Claim = claim
  Bound = ic1
  Window = 2
  Blocks <- MCChains
  Evidence <- MCEvidence
  ProofOf <- MCProofOf
  MaxLag = 1
  MaxStrangers = 2
INVARIANTS
  SavedIsOnChain
  ChecksHold
  EntriesReadAreTrue
  AuditMeansLatest
CHECK_DEADLOCK FALSE
