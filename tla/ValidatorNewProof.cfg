SPECIFICATION Spec
CONSTANTS
  AgentId = {a1}
  RequestHash = {r1}
  ResponseHash = {rh}
  ZeroCommit = ic0
  InputCommit = {ic0, ic1}
  Response = {0, 100}
  Proof <- MCHonestProof
  Accepts <- MCAccepts
  Genuine <- MCGenuine
  ImplB = FALSE
  BitcoinRef = {b1}
  Validator = {This, Other}
  This = This
  MaxEntries = 3
  None = None
PROPERTIES
  MovesByNewProof
