SPECIFICATION Spec
CONSTANTS
  P = 19
  N = 13
  Response = {0, 50, 100}
  Challenge = {0, 1, 5}
  HashStream <- MCHashStream
  Witness <- MCWitness
  Submission <- MCSubmission
  MaxAsked = 2
  None = None
INVARIANT
  NeverCrashes
CHECK_DEADLOCK FALSE
