SPECIFICATION Spec
CONSTANTS
  AgentId = {a1, a2}
  RequestHash = {r1, r2}
  ResponseHash = {rh}
  ZeroCommit = ic0
  InputCommit = {ic0, ic1}
  Response = {0, 100}
  Proof <- MCProof
  Accepts <- MCAccepts
  Genuine <- MCGenuine
  ImplB = TRUE
  BitcoinRef = {b1}
  Validator = {This, Other}
  This = This
  MaxEntries = 2
  None = None
SYMMETRY Symmetry
PROPERTIES
  ImplementsLedger
INVARIANTS
  TypeOK
  EntriesChained
  HeadCommitsToHistory
  RegistryMirrorsLatest
  AnchorsIdentifyLogs
CHECK_DEADLOCK FALSE
