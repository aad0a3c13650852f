-------------------------- MODULE ResolutionVerifiers --------------------------
(****************************************************************************)
(* The v1 proof of a verdict, from the prover to the verifiers:             *)
(* live-demo-v2/markov_crypto.py makes it, SchnorrPedersenVerifier.sol,     *)
(* goverify/main.go, verifier/verify_vectors.py and, of what was recorded,  *)
(* the auditor live-demo-v2/verify.py check                                 *)
(*                                                                          *)
(*      sm*G + sr*H = R + e*C.                                              *)
(*                                                                          *)
(* One behaviour is the life of one submission: made by the prover for one  *)
(* response, or by anybody; then put to all verifiers under one response    *)
(* after the other.  The rest of the context (request, commitment, response *)
(* hash) is fixed.  The challenge is keccak256 of the points and of the     *)
(* context, which is taken to be a random oracle: for each response it is   *)
(* any value, drawn when it is first computed.                              *)
(*                                                                          *)
(* External: the EVM precompiles fail on coordinates that are not reduced   *)
(* or not on the curve, and encode the identity as (0, 0); py_ecc has None  *)
(* for the identity, reduces coordinates, and does not look at the curve.   *)
(****************************************************************************)
EXTENDS AltBn128, FiniteSets

CONSTANTS
  Response,     \* responses that a verdict is submitted with
  Challenge,    \* values of the random oracle
  HashStream,   \* what the seed of H may hash to
  Witness,      \* the prover's m, r, km and kr
  Submission,   \* proofs of whatever origin, as they arrive
  MaxAsked,     \* bound on the responses that one submission is tried under
  None

ASSUME ChallengeAssumption == Challenge \subseteq 0 .. N - 1
ASSUME StreamAssumption ==
  \A seed \in HashStream : seed \in Seq(Field) /\ Accepted(seed) # {}

\* Three numbers and two pairs of them, in no particular range.
Proof == [version : Int, C : Int \X Int, R : Int \X Int, sm : Int, sr : Int]

ASSUME WitnessAssumption == Witness \subseteq [m : Nat, r : Nat, km : Nat, kr : Nat]
ASSUME SubmissionAssumption == Submission \subseteq Proof
ASSUME NoneAssumption ==
  /\ None \notin Response /\ None \notin Challenge /\ None \notin Proof
  /\ None \notin [response : Response, with : Witness]

Verifier == {"evm", "go", "python", "auditor"}

VARIABLES
  hashes,      \* the hashes of the seed of H
  proof,       \* the submission: version, C, R, sm, sr
  witness,     \* what the prover made it from, and for which response
  challenge,   \* what the oracle has answered, per response
  asked,       \* the response under verification
  outcome      \* the answers, per response and verifier

vars == <<hashes, proof, witness, challenge, asked, outcome>>

Generator == [seed \in HashStream |-> DeriveH(seed)]

H == Generator[hashes]

Version == 1
VersionAbsent == 0 - 1
Verdicts == {0, 100}

--------------------------------------------------------------------------------
(* The evaluations of the equation.                                         *)

\* Mutant: the challenge is left out.
RightSide_noChallenge(R, e, C) == Add(R, C)

RightSide(R, e, C) == Add(R, ScalarMul(e, C))

\* Mutant: the scalars are reduced by the modulus of the field.
LeftSide_fieldModulus(sm, sr) == Add(ScalarMul(sm % P, G), ScalarMul(sr % P, H))

LeftSide(sm, sr) == Add(ScalarMul(sm % N, G), ScalarMul(sr % N, H))

\* A point that an EVM precompile accepts.
Word(pt) == pt = <<0, 0>> \/ OnCurve(pt)
FromWord(pt) == IF pt = <<0, 0>> THEN Inf ELSE pt

EvmVerify(e) ==
  IF ~Word(proof.C) \/ ~Word(proof.R) THEN "revert"
  ELSE IF LeftSide(proof.sm, proof.sr) = RightSide(FromWord(proof.R), e, FromWord(proof.C))
       THEN "true" ELSE "false"

\* Mutant: the equation of the curve is not looked at.
NewPoint_anyCurve(pt) == pt[1] \in Field /\ pt[2] \in Field

NewPoint(pt) == OnCurve(pt)

GoVersion == IF proof.version \in {VersionAbsent, 0} THEN Version ELSE proof.version

GoEvaluate(resp, e) ==
  IF GoVersion # Version \/ resp \notin Verdicts THEN "reject"
  ELSE IF ~NewPoint(proof.C) \/ ~NewPoint(proof.R) THEN "abort"
  ELSE IF LeftSide(proof.sm, proof.sr) = RightSide(proof.R, e, proof.C) THEN "true"
  ELSE "false"

PythonVersion == IF proof.version = VersionAbsent THEN Version ELSE proof.version

FQ(pt) == <<pt[1] % P, pt[2] % P>>

\* Off the curve the sum is of no group, and may be any point or none.
PythonEquation(e) ==
  LET C == FQ(proof.C)
      R == FQ(proof.R)
      lhs == LeftSide(proof.sm, proof.sr)
      rhs == RightSide(R, e, C)
  IN  IF ~OnCurve(C) \/ ~OnCurve(R) THEN {"true", "false", "crash"}
      ELSE IF lhs = Inf \/ rhs = Inf THEN {"crash"}
      ELSE IF lhs = rhs THEN {"true"} ELSE {"false"}

\* The gates, then the same equation.
PythonEvaluate(resp, result) ==
  IF PythonVersion # Version \/ resp \notin Verdicts THEN "reject" ELSE result

--------------------------------------------------------------------------------
Init ==
  /\ hashes \in HashStream
  /\ proof = None
  /\ witness = None
  /\ challenge = [resp \in Response |-> None]
  /\ asked = None
  /\ outcome = [resp \in Response |-> <<>>]

Commit(m, r) == Add(ScalarMul(m, G), ScalarMul(r, H))

\* Mutant: the prover answers with the challenge of nothing.
Answer_noChallenge(k, e, x) == k % N

Answer(k, e, x) == (k + e * x) % N

\* The prover has no coordinates to send for the identity, and crashes on it.
Prove(resp, w, e) ==
  LET C == Commit(w.m, w.r)
      R == Commit(w.km, w.kr)
  IN  /\ proof = None
      /\ C # Inf /\ R # Inf
      /\ proof' = [version |-> Version, C |-> C, R |-> R,
                   sm |-> Answer(w.km, e, w.m), sr |-> Answer(w.kr, e, w.r)]
      /\ witness' = [response |-> resp, with |-> w]
      /\ challenge' = [challenge EXCEPT ![resp] = e]
      /\ UNCHANGED <<hashes, asked, outcome>>

\* Vectors and calldata come from anyone.
Submit(s) ==
  /\ proof = None
  /\ proof' = s
  /\ UNCHANGED <<hashes, witness, challenge, asked, outcome>>

\* A response is tried; its challenge is the one it had, if it had one.
Ask(resp, e) ==
  /\ proof # None
  /\ asked = None
  /\ outcome[resp] = <<>>
  /\ Cardinality({other \in Response : outcome[other] # <<>>}) < MaxAsked
  /\ challenge[resp] \in {None, e}
  /\ challenge' = [challenge EXCEPT ![resp] = e]
  /\ asked' = resp
  /\ UNCHANGED <<hashes, proof, witness, outcome>>

\* The verifiers are functions of the submission: their order does not matter.
Answered(results, others) ==
  /\ asked # None
  /\ DOMAIN outcome[asked] = others
  /\ outcome' = [outcome EXCEPT ![asked] =
       [w \in others \cup DOMAIN results |->
          IF w \in others THEN outcome[asked][w] ELSE results[w]]]
  /\ UNCHANGED <<hashes, proof, witness, challenge>>

Evm ==
  /\ Answered([evm |-> EvmVerify(challenge[asked])], {})
  /\ UNCHANGED asked

Go ==
  /\ Answered([go |-> GoEvaluate(asked, challenge[asked])], {"evm"})
  /\ UNCHANGED asked

\* The auditor computes the equation with the same library, but has no gates: it
\* looks at what was recorded, whatever the verdict.
Python ==
  /\ asked # None
  /\ \E result \in PythonEquation(challenge[asked]) :
       Answered([python |-> PythonEvaluate(asked, result), auditor |-> result], {"evm", "go"})
  /\ asked' = None

Next ==
  \/ \E resp \in Response \cap Verdicts, w \in Witness, e \in Challenge : Prove(resp, w, e)
  \/ \E s \in Submission : Submit(s)
  \/ \E resp \in Response, e \in Challenge : Ask(resp, e)
  \/ Evm \/ Go \/ Python

Spec == Init /\ [][Next]_vars

--------------------------------------------------------------------------------
(* Safety.                                                                  *)

Log(pt) == (CHOOSE m \in Multiples : m[1] = pt)[2]

Equation(resp) ==
  (proof.sm + Log(H) * proof.sr - Log(proof.R) - challenge[resp] * Log(proof.C)) % N = 0

\* A verdict on two points of the curve is the Schnorr equation in the exponents:
\* the affine formulas, with their special cases, and the reductions of the
\* scalars compute the group, whichever of the verifiers gives the verdict.
VerdictIsEquation ==
  \A resp \in Response : \A w \in DOMAIN outcome[resp] :
    outcome[resp][w] \in {"true", "false"} /\ OnCurve(proof.C) /\ OnCurve(proof.R)
      => (outcome[resp][w] = "true") = Equation(resp)

\* A proof for one verdict cannot be replayed onto another: what verifies under
\* two responses has the same challenge under both, or has the identity for a
\* commitment, over which the challenge has no weight.
BoundToVerdict ==
  \A r1, r2 \in Response : \A w \in DOMAIN outcome[r1] \cap DOMAIN outcome[r2] :
    /\ outcome[r1][w] = "true" /\ outcome[r2][w] = "true"
    /\ OnCurve(proof.C)
    /\ IF w = "evm" THEN Word(proof.R) ELSE OnCurve(proof.R)
    => challenge[r1] = challenge[r2]

\* What the prover makes for a verdict, every verifier accepts for that verdict,
\* except that the Python ones crash if the two sides come to the identity.
Complete ==
  witness # None =>
    LET answer == outcome[witness.response] IN
    \A w \in DOMAIN answer :
      answer[w] # "true" =>
        w \in {"python", "auditor"} /\ answer[w] = "crash" /\ LeftSide(proof.sm, proof.sr) = Inf

\* The implementations agree on what is in the domain of all: on a defined verdict
\* of a known version, Go verifies exactly what the EVM does, unless a point is
\* given as (0, 0); the verifiers in Python and Go refuse the same submissions at
\* the gates, except that Go takes version 0 for an absent one; and where Python and
\* Go both give a verdict, it is the same.  What the EVM accepts under any response, the auditor accepts
\* as well, unless a point is (0, 0) or it crashes.
ImplementationsAgree ==
  \A resp \in Response : DOMAIN outcome[resp] = Verifier =>
    LET o == outcome[resp] IN
    /\ o.go \in {"true", "false"} => o.evm = o.go
    /\ o.go = "abort" => o.evm = "revert" \/ <<0, 0>> \in {proof.C, proof.R}
    /\ IF proof.version = 0
       THEN o.python = "reject" /\ (o.go = "reject") = (resp \notin Verdicts)
       ELSE (o.go = "reject") = (o.python = "reject")
    /\ o.go \in {"true", "false"} /\ o.python \in {"true", "false"} => o.go = o.python
    /\ o.evm = "true" /\ <<0, 0>> \notin {proof.C, proof.R} => o.auditor \in {"true", "crash"}

\* H is nobody's choice: it is the even one of the two points over the first hash
\* of the seed that any point lies over.  In particular it is a generator.
HIsCanonical ==
  LET over(i) == {y \in Field : OnCurve(<<hashes[i], y>>)} IN
  \E i \in DOMAIN hashes :
    /\ \A j \in 1 .. i - 1 : over(j) = {}
    /\ H[1] = hashes[i]
    /\ {y \in over(i) : y % 2 = 0} = {H[2]}

--------------------------------------------------------------------------------
(* What the documents say and the code does not do.                         *)

\* CONTRACT_SPEC.md: "A conformant verifier returns a reject classification and
\* never crashes".  Of the two reference verifiers, one stops at a point off the
\* curve and one at the identity.
NeverCrashes ==
  \A resp \in Response : \A w \in DOMAIN outcome[resp] \ {"evm"} :
    outcome[resp][w] \in {"true", "false", "reject"}

================================================================================
