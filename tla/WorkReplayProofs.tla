---------------------------- MODULE WorkReplayProofs ----------------------------
(****************************************************************************)
(* The Python and the Go verifier implement the profile on the claims that  *)
(* they read, for every scale, limit and set of claims.                     *)
(****************************************************************************)
EXTENDS WorkReplay, TLAPS

\* The theorems about the iteration, read as Loop reads the iteration.
Theory == INSTANCE WorkLoopProofs WITH
  Order  <- NormativeOrder,
  Claims <- ClaimsRead,
  claim  <- AsRead(lang, claim),
  phase  <- IF pc \in {"loop", "done"} THEN pc ELSE "gates",
  out    <- IF pc = "loop" \/ verdict \in {"true", "false"} THEN out ELSE Zero

Read == AsRead(lang, claim)

\* The faults of a claim, one by one.
LEMMA FaultsOf ==
  ASSUME NEW c
  PROVE  /\ "version" \in Faults(c) <=> VersionOf(c) # Version
         /\ "n" \in Faults(c) <=> c.n = Absent \/ c.n \notin 0 .. NMax
         /\ "matrix" \in Faults(c) <=> c.m = Absent \/ ~MatrixOK(c.m)
         /\ "derive" \in Faults(c) <=> ~DerivationOK(c)
         /\ "listed" \in Faults(c) <=> ~ListedOK(c)
         /\ "input" \in Faults(c) <=> DerivationOK(c) /\ (NoInput(c) \/ ~InputOK(InputOf(c)))
         /\ "output" \in Faults(c) <=> c.sOut = Absent \/ ~VectorOK(c.sOut)
BY DEF Faults, GateNames

\* What reading changes, and what it leaves alone.
LEMMA ReadFields ==
  ASSUME NEW who \in Language, NEW c \in Claims
  PROVE  /\ AsRead(who, c).version = IF who = "go" /\ c.version = 0 THEN Absent ELSE c.version
         /\ AsRead(who, c).n = IF who = "go" /\ c.n = Absent THEN 0 ELSE c.n
         /\ AsRead(who, c).m = IF who = "go" THEN Listed(c.m) ELSE c.m
         /\ AsRead(who, c).hash = IF who = "go" /\ c.hash = <<>> THEN Absent ELSE c.hash
         /\ AsRead(who, c).sOut = IF who = "go" THEN Listed(c.sOut) ELSE c.sOut
         /\ AsRead(who, c).sIn =
              IF who = "python" THEN c.sIn
              ELSE IF AsRead(who, c).hash # Absent /\ Len(Listed(c.sIn)) # 3 THEN Absent
              ELSE Listed(c.sIn)
<1>1. who = "python" \/ who = "go"
  BY DEF Language
<1>2. QED
  BY <1>1 DEF AsRead

\* A verifier at a gate has found nothing to refuse at the gates before.
ReplayInv ==
  /\ lang \in Language /\ claim \in Claims
  /\ pc \in GateNames \cup {"loop", "done"}
  /\ pc # "done" => verdict = "none"
  /\ verdict \in {"none", "true", "false", "reject", "error"}
  /\ pc \in GateNames \/ verdict \in {"reject", "error"} => k = 0
  /\ pc \in GateNames \ {"version"} => "version" \notin Faults(Read)
  /\ pc \in GateNames \ {"version", "n"} => "n" \notin Faults(Read)
  /\ pc \in GateNames \ {"version", "n", "matrix"} => "matrix" \notin Faults(Read)
  /\ pc = "listed" => HasHash(claim.hash)
  /\ pc \in {"listed", "input", "output"} =>
       "derive" \notin Faults(Read) /\ ~NoInput(Read) /\ sIn = InputOf(Read)
  /\ pc \in {"input", "output"} => "listed" \notin Faults(Read)
  /\ pc = "output" => "input" \notin Faults(Read)
  /\ pc = "loop" => claim.m # Absent /\ claim.sOut # Absent

\* The verifier's tests are the profile's, on what was read.
LEMMA ReadTests ==
  ASSUME lang \in Language, claim \in Claims
  PROVE  /\ ReadVersion(claim.version) = VersionOf(Read)
         /\ ReadCount(claim.n) = Read.n
         /\ Refusal(claim.n) = IF Read.n = Absent THEN "error" ELSE "reject"
         /\ claim.m # Absent /\ MatrixOK(claim.m) <=> Read.m # Absent /\ MatrixOK(Read.m)
         /\ Refusal(claim.m) = IF Read.m = Absent THEN "error" ELSE "reject"
         /\ claim.sOut # Absent /\ VectorOK(claim.sOut) <=> Read.sOut # Absent /\ VectorOK(Read.sOut)
         /\ Refusal(claim.sOut) = IF Read.sOut = Absent THEN "error" ELSE "reject"
         /\ HasHash(claim.hash) <=> Read.hash # Absent
         /\ HasHash(claim.hash) => Read.hash = claim.hash
         /\ ~HasHash(claim.hash) =>
              /\ lang = "go" \/ claim.sIn # Absent <=> ~NoInput(Read)
              /\ Refusal(claim.sIn) = IF Read.sIn = Absent THEN "error" ELSE "reject"
              /\ ~NoInput(Read) => InputOf(Read) = Listed(claim.sIn)
         /\ HasHash(claim.hash) /\ Derivable(claim.hash) =>
              (Agrees(claim.sIn, Derive(claim.hash)) <=> ListedOK(Read))
<1>1. CASE lang = "python"
  <2>1. Read = claim
    BY <1>1 DEF Read, AsRead
  <2>2. QED
    BY <1>1, <2>1 DEF ReadVersion, VersionOf, ReadCount, Refusal, HasHash, NoInput, InputOf,
       Listed, Agrees, ListedOK
<1>2. CASE lang = "go"
  <2>1. Absent # <<>> /\ Absent # 0 /\ Len(<<>>) # 3 /\ ~MatrixOK(<<>>) /\ ~VectorOK(<<>>)
    BY AbsentAssumption DEF MatrixOK, VectorOK
  <2>2. /\ Read.version = IF claim.version = 0 THEN Absent ELSE claim.version
        /\ Read.n = IF claim.n = Absent THEN 0 ELSE claim.n
        /\ Read.m = IF claim.m = Absent THEN <<>> ELSE claim.m
        /\ Read.hash = IF claim.hash = <<>> THEN Absent ELSE claim.hash
        /\ Read.sOut = IF claim.sOut = Absent THEN <<>> ELSE claim.sOut
        /\ Read.sIn = IF Read.hash # Absent /\ Len(Listed(claim.sIn)) # 3 THEN Absent
                      ELSE Listed(claim.sIn)
        /\ Listed(claim.sIn) = IF claim.sIn = Absent THEN <<>> ELSE claim.sIn
    BY <1>2, ReadFields DEF Read, Listed
  <2>3. /\ ReadVersion(claim.version) = VersionOf(Read)
        /\ ReadCount(claim.n) = Read.n
    BY <1>2, <2>2 DEF ReadVersion, VersionOf, ReadCount
  <2>4. /\ claim.m # Absent /\ MatrixOK(claim.m) <=> Read.m # Absent /\ MatrixOK(Read.m)
        /\ claim.sOut # Absent /\ VectorOK(claim.sOut) <=> Read.sOut # Absent /\ VectorOK(Read.sOut)
    BY <2>1, <2>2
  <2>5. \A x : Refusal(x) = "reject"
    BY <1>2 DEF Refusal
  <2>6. Read.n # Absent /\ Read.m # Absent /\ Read.sOut # Absent
    BY <2>1, <2>2
  <2>7. /\ HasHash(claim.hash) <=> Read.hash # Absent
        /\ HasHash(claim.hash) => Read.hash = claim.hash
    BY <1>2, <2>2 DEF HasHash
  <2>8. ASSUME ~HasHash(claim.hash)
        PROVE  Read.sIn # Absent /\ ~NoInput(Read) /\ InputOf(Read) = Listed(claim.sIn)
    BY <2>1, <2>2, <2>7, <2>8 DEF NoInput, InputOf
  <2>9. ASSUME HasHash(claim.hash), Derivable(claim.hash)
        PROVE  Agrees(claim.sIn, Derive(claim.hash)) <=> ListedOK(Read)
    <3>1. Read.hash = claim.hash /\ Read.hash # Absent
      BY <2>7, <2>9
    <3>2. CASE claim.sIn = Absent \/ Len(claim.sIn) # 3
      <4>1. Read.sIn = Absent
        BY <2>1, <2>2, <3>1, <3>2
      <4>2. QED
        BY <1>2, <3>2, <4>1 DEF Agrees, ListedOK
    <3>3. CASE claim.sIn # Absent /\ Len(claim.sIn) = 3
      <4>1. Read.sIn = claim.sIn
        BY <2>2, <3>3
      <4>2. QED
        BY <2>9, <3>1, <3>3, <4>1 DEF Agrees, ListedOK
    <3>4. QED
      BY <3>2, <3>3
  <2>10. QED
    BY <1>2, <2>3, <2>4, <2>5, <2>6, <2>7, <2>8, <2>9
<1>3. QED
  BY <1>1, <1>2 DEF Language

LEMMA InvInit == Init => ReplayInv
<1> SUFFICES ASSUME Init PROVE ReplayInv
  OBVIOUS
<1>1. lang \in Language /\ claim \in Claims
  BY FilesAssumption DEF Init
<1>2. QED
  BY <1>1 DEF Init, ReplayInv, GateNames

LEMMA InvStep == ReplayInv /\ [Next]_vars => ReplayInv'
<1> SUFFICES ASSUME ReplayInv, [Next]_vars PROVE ReplayInv'
  OBVIOUS
<1> USE DEF ReplayInv, GateNames, Gate
<1>1. lang \in Language /\ claim \in Claims
  OBVIOUS
<1>2. ASSUME UNCHANGED <<lang, claim>>
      PROVE  Read' = Read /\ HasHash(claim.hash)' = HasHash(claim.hash)
  BY <1>2 DEF Read, HasHash
<1>3. CASE VersionGate
  <2>1. ReadVersion(claim.version) = Version => "version" \notin Faults(Read)
    BY <1>1, ReadTests, FaultsOf
  <2>2. QED
    BY <1>2, <1>3, <2>1 DEF VersionGate
<1>4. CASE CountGate
  <2>1. CountOK(ReadCount(claim.n)) => "n" \notin Faults(Read)
    BY <1>1, ReadTests, FaultsOf DEF CountOK
  <2>2. QED
    BY <1>2, <1>4, <2>1 DEF CountGate, Refusal
<1>5. CASE MatrixGate
  <2>1. claim.m # Absent /\ MatrixOK(claim.m) => "matrix" \notin Faults(Read)
    BY <1>1, ReadTests, FaultsOf
  <2>2. QED
    BY <1>2, <1>5, <2>1 DEF MatrixGate, Refusal
<1>6. CASE DeriveGate
  <2>1. Derivable(claim.hash) =>
          "derive" \notin Faults(Read) /\ ~NoInput(Read) /\ Derive(claim.hash) = InputOf(Read)
    BY <1>1, <1>6, ReadTests, FaultsOf DEF DeriveGate, DerivationOK, InputOf, NoInput
  <2>2. QED
    BY <1>2, <1>6, <2>1 DEF DeriveGate
<1>7. CASE ListedGate
  <2>1. HasHash(claim.hash) /\ sIn = Derive(claim.hash) /\ Derivable(claim.hash)
    BY <1>1, <1>7, ReadTests, FaultsOf DEF ListedGate, InputOf, DerivationOK
  <2>2. Agrees(claim.sIn, sIn) => "listed" \notin Faults(Read)
    BY <1>1, <2>1, ReadTests, FaultsOf
  <2>3. QED
    BY <1>2, <1>7, <2>2 DEF ListedGate
<1>8. CASE ReadInput
  <2>1. /\ "derive" \notin Faults(Read) /\ "listed" \notin Faults(Read)
        /\ lang = "go" \/ claim.sIn # Absent =>
             ~NoInput(Read) /\ Listed(claim.sIn) = InputOf(Read)
    BY <1>1, <1>8, ReadTests, FaultsOf DEF ReadInput, DerivationOK, ListedOK
  <2>2. QED
    BY <1>2, <1>8, <2>1 DEF ReadInput, Refusal
<1>9. CASE InputGate
  <2>1. InputOK(sIn) => "input" \notin Faults(Read)
    BY <1>9, FaultsOf DEF InputGate
  <2>2. QED
    BY <1>2, <1>9, <2>1 DEF InputGate
<1>10. CASE OutputGate
  <2>1. claim.m # Absent
    BY <1>1, <1>10, ReadTests, FaultsOf DEF OutputGate
  <2>2. QED
    BY <1>2, <1>10, <2>1 DEF OutputGate, Refusal
<1>11. CASE Iterate
  BY <1>2, <1>11 DEF Iterate
<1>12. CASE Compare
  BY <1>2, <1>12 DEF Compare
<1>13. CASE UNCHANGED vars
  BY <1>2, <1>13 DEF vars
<1>14. QED
  BY <1>3, <1>4, <1>5, <1>6, <1>7, <1>8, <1>9, <1>10, <1>11, <1>12, <1>13 DEF Next

THEOREM ReplayInvariant == Spec => []ReplayInv
BY InvInit, InvStep, PTL DEF Spec

--------------------------------------------------------------------------------
(* The refinement.                                                          *)

LEMMA SameOperators ==
  ASSUME NEW c
  PROVE  /\ Loop!Faults(c) = Faults(c)
         /\ \A g : Loop!Answer(g, c) = Answer(g, c)
         /\ Loop!InputOf(c) = InputOf(c)
         /\ \A s : Loop!Step(c.m, s) = Step(c.m, s)
BY DEF Loop!Faults, Faults, Loop!GateNames, GateNames, Loop!Answer, Answer, Loop!Missing, Missing,
  Loop!NoInput, NoInput, Loop!ListedOK, ListedOK, Loop!InputOf, InputOf,
  Loop!Step, Step, Loop!MulDown, MulDown, Loop!VersionOf, VersionOf, Loop!MatrixOK, MatrixOK,
  Loop!DerivationOK, DerivationOK, Loop!InputOK, InputOK, Loop!VectorOK, VectorOK,
  Loop!SumsToWad, SumsToWad, Loop!Total, Total, Loop!Derivable, Derivable, Loop!Derive, Derive,
  Loop!Scaled, Scaled, Loop!Index, Index

LEMMA RefinesInit == Init => Loop!Init
<1> SUFFICES ASSUME Init PROVE Loop!Init
  OBVIOUS
<1>1. AsRead(lang, claim) \in ClaimsRead
  BY DEF Init, ClaimsRead
<1>2. Zero = Loop!Zero
  BY DEF Zero, Loop!Zero, Index, Loop!Index
<1>3. QED
  BY <1>1, <1>2 DEF Init, Loop!Init

\* The gate i is the first of the normative order that refuses what was read.
First(i) ==
  /\ NormativeOrder[i] \in Faults(Read)
  /\ \A j \in 1 .. i - 1 : NormativeOrder[j] \notin Faults(Read)

\* It is so if the gates before it, one by one, do not.
LEMMA FirstOf ==
  /\ "version" \in Faults(Read) => First(1)
  /\ "version" \notin Faults(Read) =>
       /\ "n" \in Faults(Read) => First(2)
       /\ "n" \notin Faults(Read) =>
            /\ "matrix" \in Faults(Read) => First(3)
            /\ "matrix" \notin Faults(Read) =>
                 /\ "derive" \in Faults(Read) => First(4)
                 /\ "derive" \notin Faults(Read) =>
                      /\ "listed" \in Faults(Read) => First(5)
                      /\ "listed" \notin Faults(Read) =>
                           /\ "input" \in Faults(Read) => First(6)
                           /\ "input" \notin Faults(Read) /\ "output" \in Faults(Read) => First(7)
<1>1. /\ NormativeOrder[1] = "version" /\ NormativeOrder[2] = "n" /\ NormativeOrder[3] = "matrix"
      /\ NormativeOrder[4] = "derive" /\ NormativeOrder[5] = "listed" /\ NormativeOrder[6] = "input"
      /\ NormativeOrder[7] = "output"
  BY DEF NormativeOrder
<1>2. QED
  BY <1>1 DEF First

\* A gate that refuses a claim is the first to have a reason for it, and gives the
\* profile's answer.
LEMMA RefusalJustified ==
  ASSUME ReplayInv, pc \in GateNames, Next, pc' = "done"
  PROVE  /\ lang' = lang /\ claim' = claim /\ k' = k
         /\ \E i \in 1 .. 7 : First(i) /\ verdict' = Answer(NormativeOrder[i], Read)
<1>1. lang \in Language /\ claim \in Claims
  BY DEF ReplayInv
<1>2. /\ NormativeOrder[1] = "version" /\ NormativeOrder[2] = "n" /\ NormativeOrder[3] = "matrix"
      /\ NormativeOrder[4] = "derive" /\ NormativeOrder[5] = "listed" /\ NormativeOrder[6] = "input"
      /\ NormativeOrder[7] = "output"
  BY DEF NormativeOrder
<1>3. /\ Answer("version", Read) = "reject" /\ Answer("derive", Read) = "reject"
      /\ Answer("listed", Read) = "error"
      /\ Answer("n", Read) = IF Read.n = Absent THEN "error" ELSE "reject"
      /\ Answer("matrix", Read) = IF Read.m = Absent THEN "error" ELSE "reject"
      /\ Answer("input", Read) = IF NoInput(Read) THEN "error" ELSE "reject"
      /\ Answer("output", Read) = IF Read.sOut = Absent THEN "error" ELSE "reject"
  BY DEF Answer, Missing
<1> USE DEF Gate, GateNames
<1>4. CASE VersionGate
  <2>1. "version" \in Faults(Read) /\ verdict' = "reject"
    BY <1>1, <1>4, ReadTests, FaultsOf DEF VersionGate
  <2>2. QED
    BY <1>2, <1>3, <1>4, <2>1, FirstOf DEF VersionGate
<1>5. CASE CountGate
  <2>1. "n" \in Faults(Read) /\ verdict' = Answer("n", Read)
    BY <1>1, <1>3, <1>5, ReadTests, FaultsOf DEF CountGate, CountOK
  <2>2. First(2)
    BY <1>5, <2>1, FirstOf DEF CountGate, ReplayInv
  <2>3. QED
    BY <1>2, <1>5, <2>1, <2>2 DEF CountGate
<1>6. CASE MatrixGate
  <2>1. "matrix" \in Faults(Read) /\ verdict' = Answer("matrix", Read)
    BY <1>1, <1>3, <1>6, ReadTests, FaultsOf DEF MatrixGate
  <2>2. First(3)
    BY <1>6, <2>1, FirstOf DEF MatrixGate, ReplayInv
  <2>3. QED
    BY <1>2, <1>6, <2>1, <2>2 DEF MatrixGate
<1>7. CASE DeriveGate
  <2>1. "derive" \in Faults(Read) /\ verdict' = Answer("derive", Read)
    BY <1>1, <1>3, <1>7, ReadTests, FaultsOf DEF DeriveGate, DerivationOK
  <2>2. First(4)
    BY <1>7, <2>1, FirstOf DEF DeriveGate, ReplayInv
  <2>3. QED
    BY <1>2, <1>7, <2>1, <2>2 DEF DeriveGate
<1>8. CASE ListedGate
  <2>1. HasHash(claim.hash) /\ sIn = Derive(claim.hash) /\ Derivable(claim.hash)
    BY <1>1, <1>8, ReadTests, FaultsOf DEF ListedGate, ReplayInv, InputOf, DerivationOK
  <2>2. "listed" \in Faults(Read) /\ verdict' = Answer("listed", Read)
    BY <1>1, <1>3, <1>8, <2>1, ReadTests, FaultsOf DEF ListedGate
  <2>3. First(5)
    BY <1>8, <2>2, FirstOf DEF ListedGate, ReplayInv
  <2>4. QED
    BY <1>2, <1>8, <2>2, <2>3 DEF ListedGate
<1>9. CASE ReadInput
  <2>1. ~(lang = "go" \/ claim.sIn # Absent) /\ ~HasHash(claim.hash) /\ verdict' = Refusal(claim.sIn)
    BY <1>9 DEF ReadInput
  <2>2. NoInput(Read) /\ Read.hash = Absent /\ verdict' = "error"
    BY <1>1, <2>1, ReadTests DEF NoInput
  <2>3. /\ "derive" \notin Faults(Read) /\ "listed" \notin Faults(Read) /\ "input" \in Faults(Read)
    BY <2>2, FaultsOf DEF DerivationOK, ListedOK
  <2>4. First(6)
    BY <1>9, <2>3, FirstOf DEF ReadInput, ReplayInv
  <2>5. QED
    BY <1>2, <1>3, <1>9, <2>2, <2>4 DEF ReadInput
<1>10. CASE InputGate
  <2>1. "input" \in Faults(Read) /\ verdict' = Answer("input", Read)
    BY <1>3, <1>10, FaultsOf DEF InputGate, ReplayInv
  <2>2. First(6)
    BY <1>10, <2>1, FirstOf DEF InputGate, ReplayInv
  <2>3. QED
    BY <1>2, <1>10, <2>1, <2>2 DEF InputGate
<1>11. CASE OutputGate
  <2>1. "output" \in Faults(Read) /\ verdict' = Answer("output", Read)
    BY <1>1, <1>3, <1>11, ReadTests, FaultsOf DEF OutputGate
  <2>2. First(7)
    BY <1>11, <2>1, FirstOf DEF OutputGate, ReplayInv
  <2>3. QED
    BY <1>2, <1>11, <2>1, <2>2 DEF OutputGate
<1>12. CASE Iterate \/ Compare
  BY <1>12 DEF Iterate, Compare
<1>13. QED
  BY <1>4, <1>5, <1>6, <1>7, <1>8, <1>9, <1>10, <1>11, <1>12 DEF Next

LEMMA StepRefines == ReplayInv /\ [Next]_vars => [Loop!Next]_Loop!loopVars
<1> SUFFICES ASSUME ReplayInv, [Next]_vars PROVE [Loop!Next]_Loop!loopVars
  OBVIOUS
<1>1. CASE UNCHANGED vars
  BY <1>1 DEF vars, Loop!loopVars, AsRead
<1>2. CASE Next /\ pc \in GateNames /\ pc' = "done"
  <2>1. lang' = lang /\ claim' = claim /\ k' = k /\ verdict = "none"
    BY <1>2, RefusalJustified DEF ReplayInv, GateNames
  <2>2. PICK i \in 1 .. 7 : First(i) /\ verdict' = Answer(NormativeOrder[i], Read)
    BY <1>2, RefusalJustified
  <2>3. Loop!Refuses(i, AsRead(lang, claim)) /\ i \in DOMAIN NormativeOrder
    BY <2>2, SameOperators DEF Loop!Refuses, First, Read, NormativeOrder
  <2>4. verdict' = Loop!Answer(NormativeOrder[i], AsRead(lang, claim)) /\ verdict' \in {"reject", "error"}
    BY <2>2, SameOperators DEF Read, Answer
  <2>5. Loop!Refuse
    BY <1>2, <2>1, <2>3, <2>4 DEF Loop!Refuse, AsRead, GateNames
  <2>6. QED
    BY <2>5 DEF Loop!Next
<1>3. CASE Next /\ pc \in GateNames /\ pc' \in GateNames
  <2>1. /\ lang' = lang /\ claim' = claim /\ k' = k /\ verdict = "none" /\ verdict' = "none"
    BY <1>3 DEF ReplayInv, GateNames, Gate, Next, VersionGate, CountGate, MatrixGate, DeriveGate,
       ListedGate, ReadInput, InputGate, OutputGate, Iterate, Compare
  <2>2. QED
    BY <1>3, <2>1 DEF Loop!loopVars, AsRead, GateNames
<1>4. CASE Next /\ pc \in GateNames /\ pc' = "loop"
  <2>1. /\ OutputGate /\ pc = "output" /\ claim.sOut # Absent /\ VectorOK(claim.sOut)
        /\ lang' = lang /\ claim' = claim
        /\ k' = k /\ out' = sIn /\ verdict' = verdict /\ verdict = "none"
    BY <1>4 DEF ReplayInv, GateNames, Gate, Next, VersionGate, CountGate, MatrixGate, DeriveGate,
       ListedGate, ReadInput, InputGate, OutputGate, Iterate, Compare
  <2>2. "output" \notin Faults(Read)
    BY <2>1, ReadTests, FaultsOf DEF ReplayInv
  <2>3. Faults(Read) = {} /\ out' = InputOf(Read)
    <3>1. \A g \in GateNames : g \notin Faults(Read)
      BY <2>1, <2>2 DEF ReplayInv, GateNames
    <3>2. Faults(Read) \subseteq GateNames
      BY DEF Faults
    <3>3. QED
      BY <2>1, <3>1, <3>2 DEF ReplayInv, GateNames
  <2>4. Loop!Admit
    BY <1>4, <2>1, <2>3, SameOperators DEF Loop!Admit, Read, AsRead
  <2>5. QED
    BY <2>4 DEF Loop!Next
<1>5. CASE Iterate
  <2>1. AsRead(lang, claim).n = ReadCount(claim.n)
    BY ReadTests DEF ReplayInv, Read
  <2>2. AsRead(lang, claim).m = claim.m
    BY <1>5, ReadFields DEF ReplayInv, Listed, Iterate
  <2>3. Loop!Iterate
    BY <1>5, <2>1, <2>2, SameOperators DEF Iterate, MoreToDo, Loop!Iterate, Loop!MoreToDo, AsRead
  <2>4. QED
    BY <2>3 DEF Loop!Next
<1>6. CASE Compare
  <2>1. AsRead(lang, claim).n = ReadCount(claim.n)
    BY ReadTests DEF ReplayInv, Read
  <2>2. AsRead(lang, claim).sOut = claim.sOut
    BY <1>6, ReadFields DEF ReplayInv, Listed, Compare
  <2>3. Loop!Decide
    BY <1>6, <2>1, <2>2 DEF Compare, MoreToDo, Loop!Decide, Loop!MoreToDo, AsRead
  <2>4. QED
    BY <2>3 DEF Loop!Next
<1>7. QED
  <2>1. ASSUME Next
        PROVE  (pc \in GateNames /\ pc' \in GateNames \cup {"loop", "done"}) \/ Iterate \/ Compare
    BY <2>1, InvStep DEF ReplayInv, GateNames, Gate, Next, VersionGate, CountGate, MatrixGate,
       DeriveGate, ListedGate, ReadInput, InputGate, OutputGate
  <2>2. QED
    BY <1>1, <1>2, <1>3, <1>4, <1>5, <1>6, <2>1

\* Gate by gate, either verifier refuses, iterates and decides as the profile does on
\* the claim as it reads it.
THEOREM ImplementsIteration == Spec => Loop!Spec
<1>1. Init => Loop!Init
  BY RefinesInit
<1>2. ReplayInv /\ [Next]_vars => [Loop!Next]_Loop!loopVars
  BY StepRefines
<1>3. QED
  BY <1>1, <1>2, ReplayInvariant, PTL DEF Spec, Loop!Spec

\* What a verifier reads is a claim like any other, and the order is one of all gates.
LEMMA ReadIsClaim == ClaimsRead \subseteq Claim
<1> SUFFICES ASSUME NEW who \in Language, NEW c \in Claims
             PROVE  AsRead(who, c) \in Claim
  BY FilesAssumption DEF ClaimsRead
<1>1. c \in Claim
  BY ClaimsAssumption
<1>2. CASE who = "python"
  BY <1>1, <1>2 DEF AsRead
<1>3. CASE who # "python"
  <2> DEFINE h == IF c.hash = <<>> THEN Absent ELSE c.hash
             v == IF c.version = 0 THEN Absent ELSE c.version
             n == IF c.n = Absent THEN 0 ELSE c.n
             s == IF h # Absent /\ Len(Listed(c.sIn)) # 3 THEN Absent ELSE Listed(c.sIn)
             m == Listed(c.m)
             o == Listed(c.sOut)
  <2>1. AsRead(who, c) = [version |-> v, n |-> n, m |-> m, hash |-> h, sIn |-> s, sOut |-> o]
    BY <1>3 DEF AsRead
  <2>2. /\ v \in Int \cup {Absent} /\ n \in Int \cup {Absent}
        /\ h \in Limbs \cup BadHashes \cup {Absent}
    BY <1>1 DEF Claim
  <2>3. m \in Seq(Seq(Int)) /\ o \in Seq(Int) /\ s \in Seq(Int) \cup {Absent}
    BY <1>1 DEF Claim, Listed
  <2> HIDE DEF h, v, n, s, m, o
  <2>4. QED
    BY <2>1, <2>2, <2>3 DEF Claim
<1>4. QED
  BY <1>2, <1>3

LEMMA OrderIsComplete ==
  /\ NormativeOrder \in Seq(GateNames)
  /\ \A g \in GateNames : \E i \in DOMAIN NormativeOrder : NormativeOrder[i] = g
<1>1. /\ NormativeOrder \in Seq(GateNames) /\ DOMAIN NormativeOrder = 1 .. 7
      /\ NormativeOrder[1] = "version" /\ NormativeOrder[2] = "n" /\ NormativeOrder[3] = "matrix"
      /\ NormativeOrder[4] = "derive" /\ NormativeOrder[5] = "listed" /\ NormativeOrder[6] = "input"
      /\ NormativeOrder[7] = "output"
  BY DEF NormativeOrder, GateNames
<1>2. 1 \in 1 .. 7 /\ 2 \in 1 .. 7 /\ 3 \in 1 .. 7 /\ 4 \in 1 .. 7 /\ 5 \in 1 .. 7 /\ 6 \in 1 .. 7
      /\ 7 \in 1 .. 7
  OBVIOUS
<1>3. QED
  BY <1>1, <1>2 DEF GateNames

\* The two readings of the iteration are one.
LEMMA OneTheory ==
  /\ Loop!Init => Theory!Init
  /\ [Loop!Next]_Loop!loopVars => [Theory!Next]_Theory!loopVars
  /\ Theory!VerdictExact => Loop!VerdictExact
<1> USE DEF Loop!Faults, Theory!Faults, Loop!GateNames, Theory!GateNames, Loop!Answer, Theory!Answer,
     Loop!Missing, Theory!Missing, Loop!NoInput, Theory!NoInput, Loop!ListedOK, Theory!ListedOK,
     Loop!Refuses, Theory!Refuses,
     Loop!InputOf, Theory!InputOf, Loop!Step, Theory!Step, Loop!MulDown, Theory!MulDown,
     Loop!VersionOf, Theory!VersionOf, Loop!MatrixOK, Theory!MatrixOK,
     Loop!DerivationOK, Theory!DerivationOK, Loop!InputOK, Theory!InputOK,
     Loop!VectorOK, Theory!VectorOK, Loop!SumsToWad, Theory!SumsToWad,
     Loop!Total, Theory!Total, Loop!Derivable, Theory!Derivable, Loop!Derive, Theory!Derive,
     Loop!Scaled, Theory!Scaled, Loop!Index, Theory!Index
<1>1. Loop!Init => Theory!Init
  BY DEF Loop!Init, Theory!Init, Loop!Zero, Theory!Zero
<1>2. Loop!Next => Theory!Next
  BY DEF Loop!Next, Theory!Next,
     Loop!Refuse, Theory!Refuse, Loop!Admit, Theory!Admit, Loop!Iterate, Theory!Iterate,
     Loop!MoreToDo, Theory!MoreToDo, Loop!Decide, Theory!Decide
<1>3. Theory!VerdictExact => Loop!VerdictExact
  BY DEF Theory!VerdictExact, Loop!VerdictExact, Theory!Classify, Loop!Classify,
     Theory!UnitStep, Loop!UnitStep, Theory!Units, Loop!Units
<1>4. QED
  BY <1>1, <1>2, <1>3 DEF Loop!loopVars, Theory!loopVars

\* What is proved of the iteration holds of both verifiers: whatever one of them decides
\* about a claim is the verdict of N plain iterations over exact integers on what it has
\* read, and what it refuses gets the answer to its first fault in the normative order.
THEOREM VerdictsOfTheProfile == Spec => []Loop!VerdictExact
<1>1. Theory!Spec => []Theory!VerdictExact
  BY Theory!VerdictsAreExact, WadAssumption, NMaxAssumption, LimbAssumption, VersionAssumption,
     AbsentAssumption, ReadIsClaim, OrderIsComplete
     DEF Theory!Claim, Claim, Theory!Limbs, Limbs, Theory!BadHashes, BadHashes,
     Theory!Index, Index, Theory!GateNames, GateNames
<1>2. Loop!Spec => Theory!Spec
  BY OneTheory, PTL DEF Loop!Spec, Theory!Spec
<1>3. QED
  BY <1>1, <1>2, OneTheory, ImplementsIteration, PTL

================================================================================
