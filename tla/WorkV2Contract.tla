----------------------------- MODULE WorkV2Contract -----------------------------
(****************************************************************************)
(* contracts/MarkovianWorkV2.sol on the EVM, driven as its conformance test *)
(* drives it: deriveState if the claim has a hash, then verifyWork.  Words  *)
(* are taken modulo Word (2^256) wherever the code is unchecked; the typed  *)
(* reverts are told apart.  The contract has no version: another version is *)
(* another deployment, and its claims are refused before any call.          *)
(****************************************************************************)
EXTENDS WadArithmetic

CONSTANT Word   \* the size of an EVM word, 2^256

\* The profile's overflow analysis: WAD^2 and 2^64 * WAD stay below 2^256.
ASSUME WordAssumption ==
  /\ Word \in Nat
  /\ Wad * Wad < Word
  /\ 3 * Wad < Word
  /\ Limb * Wad <= Word
  /\ 3 * Limb <= Word

VARIABLES claim, pc, sIn, k, state, verdict

vars == <<claim, pc, sIn, k, state, verdict>>

Zero == [i \in Index |-> 0]

Errors == {"UnknownVersion", "DerivationUndefined", "NTooLarge", "MatrixMalformed",
           "StateComponentTooLarge", "StateSumInvalid"}

\* What the ABI can carry: three words to a vector, three vectors to a matrix.  The
\* conformance test reads a listed input of every claim, derived or not.
IsWords(v) == Len(v) = 3 /\ \A i \in Index : v[i] \in 0 .. Word - 1

Encodable(c) ==
  /\ c.n # Absent /\ c.m # Absent /\ c.sIn # Absent /\ c.sOut # Absent
  /\ c.n \in 0 .. Word - 1
  /\ c.hash \notin BadHashes
  /\ Len(c.m) = 3 /\ \A i \in Index : IsWords(c.m[i])
  /\ IsWords(c.sIn)
  /\ IsWords(c.sOut)

Init ==
  /\ claim \in Claims
  /\ Encodable(claim)
  /\ pc = "version"
  /\ sIn = Zero
  /\ k = 0
  /\ state = Zero
  /\ verdict = "none"

--------------------------------------------------------------------------------
(* Unchecked arithmetic.                                                    *)

WMul(x, y) == (x * y) % Word

\* Mutant: the three products are added before the one division.
WStep_sumFirst(m, v) ==
  [i \in Index |->
     ((WMul(m[i][1], v[1]) + WMul(m[i][2], v[2]) + WMul(m[i][3], v[3])) % Word) \div Wad]

WStep(m, v) ==
  [i \in Index |->
     (WMul(m[i][1], v[1]) \div Wad + WMul(m[i][2], v[2]) \div Wad
        + WMul(m[i][3], v[3]) \div Wad) % Word]

\* deriveState: the remainder goes to the first component.
WDerive(x) ==
  LET q == [i \in Index |-> WMul(x[i], Wad) \div Total(x)]
  IN [i \in Index |-> IF i = 1 THEN (q[1] + Wad - Total(q)) % Word ELSE q[i]]

--------------------------------------------------------------------------------
(* The checks, in the order of verifyWork.                                  *)

ComponentsOK(v) == \A i \in Index : v[i] <= Wad

RowsOK(m) == \A i \in Index : ComponentsOK(m[i]) /\ Total(m[i]) = Wad

Gate(at, ok, next, otherwise) ==
  /\ pc = at
  /\ pc' = IF ok THEN next ELSE "done"
  /\ verdict' = IF ok THEN verdict ELSE otherwise
  /\ UNCHANGED <<claim, k>>

VersionGate ==
  /\ Gate("version", VersionOf(claim) = Version, "derive", "UnknownVersion")
  /\ UNCHANGED <<sIn, state>>

DeriveState ==
  /\ claim.hash # Absent
  /\ Gate("derive", Derivable(claim.hash), "listed", "DerivationUndefined")
  /\ sIn' = IF Derivable(claim.hash) THEN WDerive(claim.hash) ELSE sIn
  /\ UNCHANGED state

ListedGate ==
  /\ Gate("listed", claim.sIn = sIn, "count", "error")
  /\ UNCHANGED <<sIn, state>>

PassInput ==
  /\ claim.hash = Absent
  /\ Gate("derive", TRUE, "count", "error")
  /\ sIn' = claim.sIn
  /\ UNCHANGED state

CountOK(n) == n <= NMax

CountGate ==
  /\ Gate("count", CountOK(claim.n), "matrix", "NTooLarge")
  /\ UNCHANGED <<sIn, state>>

MatrixGate ==
  /\ Gate("matrix", RowsOK(claim.m), "input", "MatrixMalformed")
  /\ UNCHANGED <<sIn, state>>

\* Mutant: the input is not checked.
InputError_none(v) == "none"

InputError(v) ==
  IF ~ComponentsOK(v) THEN "StateComponentTooLarge"
  ELSE IF Total(v) # Wad THEN "StateSumInvalid" ELSE "none"

InputGate ==
  /\ Gate("input", InputError(sIn) = "none", "output", InputError(sIn))
  /\ UNCHANGED <<sIn, state>>

OutputGate ==
  /\ Gate("output", ComponentsOK(claim.sOut), "loop", "StateComponentTooLarge")
  /\ state' = sIn
  /\ UNCHANGED sIn

Iterate ==
  /\ pc = "loop"
  /\ k < claim.n
  /\ state' = WStep(claim.m, state)
  /\ k' = (k + 1) % Word
  /\ UNCHANGED <<claim, pc, sIn, verdict>>

Compare ==
  /\ pc = "loop"
  /\ ~(k < claim.n)
  /\ pc' = "done"
  /\ verdict' = IF \A i \in Index : state[i] = claim.sOut[i] THEN "true" ELSE "false"
  /\ UNCHANGED <<claim, sIn, k, state>>

Next ==
  \/ VersionGate \/ DeriveState \/ ListedGate \/ PassInput \/ CountGate \/ MatrixGate
  \/ InputGate \/ OutputGate \/ Iterate \/ Compare

Spec == Init /\ [][Next]_vars

FairSpec == Spec /\ WF_vars(Next)

--------------------------------------------------------------------------------

\* No product and no sum of the unchecked loop ever leaves the word, so that the
\* EVM registers hold the exact values.
NoOverflow ==
  pc = "loop" /\ k < claim.n =>
    \A i \in Index :
      /\ \A j \in Index : claim.m[i][j] * state[j] < Word
      /\ Total([j \in Index |-> (claim.m[i][j] * state[j]) \div Wad]) < Word

\* The conformance test derives, and compares, before it calls verifyWork.
DriverOrder == <<"version", "derive", "listed", "n", "matrix", "input", "output">>

Loop == INSTANCE WorkLoop WITH
  Order   <- DriverOrder,
  phase   <- IF pc \in {"loop", "done"} THEN pc ELSE "gates",
  out     <- IF pc = "loop" \/ verdict \in {"true", "false"} THEN state ELSE Zero,
  verdict <- IF verdict \in Errors THEN "reject" ELSE verdict

\* On the EVM, with wrapping words, unchecked loops and typed reverts, a claim is
\* classified as the profile says: no verdict differs, a revert is a rejection, and
\* the error of a broken file precedes every rejection but that of the derivation.
ImplementsLoop == Loop!FairSpec

================================================================================
