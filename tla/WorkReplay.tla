------------------------------- MODULE WorkReplay -------------------------------
(****************************************************************************)
(* The off-chain verifiers of the v2 profile, verifier/workfn_v2.py and     *)
(* goverify/workv2.go: one claim of a vector file, gate by gate, then the   *)
(* loop.  Their gates are the same and come in the same order; they differ  *)
(* in how they read a field that may be missing: to Go an absent version is *)
(* 0, hence 0 is absent (ReadVersion), an absent number of iterations is 0  *)
(* (ReadCount), an empty hash is absent (HasHash), and so is a listed input *)
(* that does not have three components (Agrees); what else is missing is    *)
(* empty.  Python ends with a KeyError where it needs a field that is not   *)
(* there.                                                                   *)
(****************************************************************************)
EXTENDS WadArithmetic

CONSTANT Files   \* which verifier is given which claims

Language == {"python", "go"}

ASSUME FilesAssumption == Files \subseteq Language \X Claims

VARIABLES
  lang,      \* the verifier that runs
  claim,
  pc,        \* the next gate, "loop" or "done"
  sIn,       \* the input vector, once it is read or derived
  k, out, verdict

vars == <<lang, claim, pc, sIn, k, out, verdict>>

Zero == [i \in Index |-> 0]

Init ==
  /\ \E file \in Files : lang = file[1] /\ claim = file[2]
  /\ pc = "version"
  /\ sIn = Zero
  /\ k = 0
  /\ out = Zero
  /\ verdict = "none"

\* A gate lets the claim through to the next, or ends with a classification.
Gate(at, ok, next, otherwise) ==
  /\ pc = at
  /\ pc' = IF ok THEN next ELSE "done"
  /\ verdict' = IF ok THEN verdict ELSE otherwise
  /\ UNCHANGED <<lang, claim, k>>

ReadVersion(v) ==
  IF v = Absent \/ (lang = "go" /\ v = 0) THEN Version ELSE v

VersionGate ==
  /\ Gate("version", ReadVersion(claim.version) = Version, "n", "reject")
  /\ UNCHANGED <<sIn, out>>

\* Mutant: a missing field is refused as a malformed one.
Refusal_reject(field) == "reject"

\* How a verifier ends that refuses a field.
Refusal(field) == IF lang = "python" /\ field = Absent THEN "error" ELSE "reject"

ReadCount(n) == IF lang = "go" /\ n = Absent THEN 0 ELSE n

CountOK(n) == n # Absent /\ n \in 0 .. NMax

CountGate ==
  /\ Gate("n", CountOK(ReadCount(claim.n)), "matrix", Refusal(claim.n))
  /\ UNCHANGED <<sIn, out>>

MatrixGate ==
  /\ Gate("matrix", claim.m # Absent /\ MatrixOK(claim.m), "derive", Refusal(claim.m))
  /\ UNCHANGED <<sIn, out>>

HasHash(h) == h # Absent /\ ~(lang = "go" /\ h = <<>>)

\* The input is derived if the claim has a hash, and read otherwise.
DeriveGate ==
  /\ HasHash(claim.hash)
  /\ Gate("derive", Derivable(claim.hash), "listed", "reject")
  /\ sIn' = IF Derivable(claim.hash) THEN Derive(claim.hash) ELSE sIn
  /\ UNCHANGED out

\* Mutant: a listed input is never compared with the derived one.
Agrees_always(listed, derived) == TRUE

Agrees(listed, derived) ==
  \/ listed = Absent
  \/ lang = "go" /\ Len(listed) # 3
  \/ listed = derived

ListedGate ==
  /\ Gate("listed", Agrees(claim.sIn, sIn), "input", "error")
  /\ UNCHANGED <<sIn, out>>

\* A list that is missing is empty to Go.
Listed(x) == IF x = Absent THEN <<>> ELSE x

ReadInput ==
  /\ ~HasHash(claim.hash)
  /\ Gate("derive", lang = "go" \/ claim.sIn # Absent, "input", Refusal(claim.sIn))
  /\ sIn' = Listed(claim.sIn)
  /\ UNCHANGED out

InputGate ==
  /\ Gate("input", InputOK(sIn), "output", "reject")
  /\ UNCHANGED <<sIn, out>>

\* work() starts from the input; it repeats the gates, which have passed.
OutputGate ==
  /\ Gate("output", claim.sOut # Absent /\ VectorOK(claim.sOut), "loop", Refusal(claim.sOut))
  /\ out' = sIn
  /\ UNCHANGED sIn

MoreToDo(i, n) == i < n

Iterate ==
  /\ pc = "loop"
  /\ MoreToDo(k, ReadCount(claim.n))
  /\ out' = Step(claim.m, out)
  /\ k' = k + 1
  /\ UNCHANGED <<lang, claim, pc, sIn, verdict>>

Compare ==
  /\ pc = "loop"
  /\ ~MoreToDo(k, ReadCount(claim.n))
  /\ pc' = "done"
  /\ verdict' = IF out = claim.sOut THEN "true" ELSE "false"
  /\ UNCHANGED <<lang, claim, sIn, k, out>>

Next ==
  \/ VersionGate \/ CountGate \/ MatrixGate \/ DeriveGate \/ ListedGate \/ ReadInput
  \/ InputGate \/ OutputGate \/ Iterate \/ Compare

Spec == Init /\ [][Next]_vars

FairSpec == Spec /\ WF_vars(Next)

--------------------------------------------------------------------------------

\* The claim that a verifier takes its file to state: Python takes it as it is.
AsRead(who, c) ==
  LET hash == IF c.hash = <<>> THEN Absent ELSE c.hash IN
  IF who = "python" THEN c
  ELSE [version |-> IF c.version = 0 THEN Absent ELSE c.version,
        n       |-> IF c.n = Absent THEN 0 ELSE c.n,
        m       |-> Listed(c.m),
        hash    |-> hash,
        sIn     |-> IF hash # Absent /\ Len(Listed(c.sIn)) # 3 THEN Absent ELSE Listed(c.sIn),
        sOut    |-> Listed(c.sOut)]

ClaimsRead == {AsRead(file[1], file[2]) : file \in Files}

\* evaluateV2 and evaluate: "gate order is normative".
NormativeOrder == <<"version", "n", "matrix", "derive", "listed", "input", "output">>

Loop == INSTANCE WorkLoop WITH
  Order  <- NormativeOrder,
  Claims <- ClaimsRead,
  claim  <- AsRead(lang, claim),
  phase <- IF pc \in {"loop", "done"} THEN pc ELSE "gates",
  out   <- IF pc = "loop" \/ verdict \in {"true", "false"} THEN out ELSE Zero

\* Gate by gate, a verifier does what the profile does in one step: it admits
\* exactly the claims without a fault, answers the others for the first fault in the
\* normative order, and ends with the verdict of the definition.  For Go this is
\* about the claim it reads: what AsRead takes for something else is all it takes so.
ImplementsLoop == Loop!FairSpec

================================================================================
