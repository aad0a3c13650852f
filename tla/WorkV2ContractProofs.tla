-------------------------- MODULE WorkV2ContractProofs --------------------------
(****************************************************************************)
(* The EVM implementation never wraps and implements the iteration over     *)
(* exact integers, for every scale and set of claims, and every word that   *)
(* the profile's overflow analysis admits.                                  *)
(****************************************************************************)
EXTENDS WorkV2Contract, TLAPS

\* The theorems about the iteration, read as Loop reads the iteration.
Theory == INSTANCE WorkLoopProofs WITH
  Order   <- DriverOrder,
  phase   <- IF pc \in {"loop", "done"} THEN pc ELSE "gates",
  out     <- IF pc = "loop" \/ verdict \in {"true", "false"} THEN state ELSE Zero,
  verdict <- IF verdict \in Errors THEN "reject" ELSE verdict

\* The order of the test is one of all gates.
LEMMA OrderIsComplete ==
  /\ DriverOrder \in Seq(GateNames)
  /\ \A g \in GateNames : \E i \in DOMAIN DriverOrder : DriverOrder[i] = g
<1>1. /\ DriverOrder \in Seq(GateNames) /\ DOMAIN DriverOrder = 1 .. 7
      /\ DriverOrder[1] = "version" /\ DriverOrder[2] = "derive" /\ DriverOrder[3] = "listed"
      /\ DriverOrder[4] = "n" /\ DriverOrder[5] = "matrix" /\ DriverOrder[6] = "input"
      /\ DriverOrder[7] = "output"
  BY DEF DriverOrder, GateNames
<1>2. 1 \in 1 .. 7 /\ 2 \in 1 .. 7 /\ 3 \in 1 .. 7 /\ 4 \in 1 .. 7 /\ 5 \in 1 .. 7 /\ 6 \in 1 .. 7
      /\ 7 \in 1 .. 7
  OBVIOUS
<1>3. QED
  BY <1>1, <1>2 DEF GateNames

\* Facts about products, steps and derived inputs that are proved with it.
LEMMA ProductMonotone ==
  ASSUME NEW x \in Nat, NEW y \in Nat, NEW z \in Nat, y <= z
  PROVE  x * y \in Nat /\ x * y <= x * z
OBVIOUS

LEMMA ProductsInNat ==
  ASSUME NEW x \in Nat, NEW y \in Nat
  PROVE  x * y \in Nat
OBVIOUS

LEMMA StepBounded ==
  ASSUME NEW m \in Seq(Seq(Int)), MatrixOK(m),
         NEW s \in [Index -> Nat], NEW L \in Nat, \A i \in Index : s[i] <= L
  PROVE  Step(m, s) \in [Index -> 0 .. L]
BY Theory!StepBounded, WadAssumption, NMaxAssumption, LimbAssumption, VersionAssumption,
   AbsentAssumption, ClaimsAssumption, OrderIsComplete
   DEF Theory!MatrixOK, MatrixOK, Theory!VectorOK, VectorOK, Theory!Index, Index,
       Theory!SumsToWad, SumsToWad, Theory!Total, Total, Theory!Step, Step,
       Theory!MulDown, MulDown, Theory!Claim, Claim, Theory!Limbs, Limbs,
       Theory!BadHashes, BadHashes, Theory!GateNames, GateNames

LEMMA DerivedIsAdmissible ==
  ASSUME NEW x \in Limbs, Derivable(x)
  PROVE  /\ Scaled(x) \in [Index -> 0 .. Wad]
         /\ Derive(x) \in [Index -> 0 .. Wad]
         /\ Total(Derive(x)) = Wad
BY Theory!DerivedIsAdmissible, WadAssumption, NMaxAssumption, LimbAssumption,
   VersionAssumption, AbsentAssumption, ClaimsAssumption, OrderIsComplete
   DEF Theory!Derivable, Derivable, Theory!Scaled, Scaled, Theory!Derive, Derive,
       Theory!Index, Index, Theory!Total, Total, Theory!Claim, Claim, Theory!Limbs, Limbs,
       Theory!BadHashes, BadHashes, Theory!GateNames, GateNames

\* What is below the word is not changed by it.
LEMMA NoWrap ==
  ASSUME NEW a \in Nat, a < Word
  PROVE  a % Word = a
BY WordAssumption

LEMMA WadFitsWord == Wad < Word /\ Word \in Nat \ {0}
<1>1. Wad <= Wad * Wad /\ Wad * Wad \in Nat
  BY WadAssumption
<1>2. QED
  BY <1>1, WadAssumption, WordAssumption

LEMMA ProductFits ==
  ASSUME NEW x \in 0 .. Wad, NEW y \in 0 .. Wad
  PROVE  x * y \in Nat /\ x * y < Word
<1>1. x \in Nat /\ y \in Nat /\ y <= Wad /\ x <= Wad /\ Wad \in Nat
  BY WadAssumption
<1>2. x * y \in Nat /\ x * y <= x * Wad
  BY <1>1, ProductMonotone
<1>3. Wad * x <= Wad * Wad /\ x * Wad = Wad * x
  BY <1>1, ProductMonotone
<1>4. x * Wad \in Nat /\ Wad * Wad \in Nat
  BY <1>1, ProductsInNat
<1>5. QED
  BY <1>2, <1>3, <1>4, WordAssumption

\* The checks of the contract are those of the profile, on what the ABI carries.
LEMMA MatrixChecked ==
  ASSUME NEW m, Len(m) = 3, \A i \in Index : IsWords(m[i])
  PROVE  RowsOK(m) <=> MatrixOK(m)
<1>1. \A i \in Index : ComponentsOK(m[i]) <=> VectorOK(m[i])
  BY WadAssumption, WordAssumption DEF ComponentsOK, VectorOK, IsWords
<1>2. QED
  BY <1>1 DEF RowsOK, MatrixOK, SumsToWad

LEMMA VectorChecked ==
  ASSUME NEW v, IsWords(v)
  PROVE  ComponentsOK(v) <=> VectorOK(v)
BY WadAssumption, WordAssumption DEF ComponentsOK, VectorOK, IsWords

LEMMA EntriesBounded ==
  ASSUME NEW m, MatrixOK(m), NEW i \in Index
  PROVE  \A j \in Index : m[i][j] \in 0 .. Wad
BY DEF MatrixOK, VectorOK

\* One unchecked iteration is one of exact integers.
LEMMA StepExact ==
  ASSUME NEW m \in Seq(Seq(Int)), MatrixOK(m), NEW s \in [Index -> 0 .. Wad]
  PROVE  /\ WStep(m, s) = Step(m, s)
         /\ Step(m, s) \in [Index -> 0 .. Wad]
<1>1. /\ Step(m, s) \in [Index -> 0 .. Wad]
  <2>1. s \in [Index -> Nat] /\ \A i \in Index : s[i] <= Wad
    BY WadAssumption
  <2>2. QED
    BY <2>1, StepBounded, WadAssumption
<1>2. ASSUME NEW i \in Index
      PROVE  ( WMul(m[i][1], s[1]) \div Wad + WMul(m[i][2], s[2]) \div Wad
                 + WMul(m[i][3], s[3]) \div Wad ) % Word
             = MulDown(m[i][1], s[1]) + MulDown(m[i][2], s[2]) + MulDown(m[i][3], s[3])
  <2>1. \A j \in Index : WMul(m[i][j], s[j]) \div Wad = MulDown(m[i][j], s[j])
    <3> SUFFICES ASSUME NEW j \in Index
                 PROVE  WMul(m[i][j], s[j]) \div Wad = MulDown(m[i][j], s[j])
      OBVIOUS
    <3>1. m[i][j] \in 0 .. Wad /\ s[j] \in 0 .. Wad
      BY EntriesBounded
    <3>2. m[i][j] * s[j] \in Nat /\ m[i][j] * s[j] < Word
      BY <3>1, ProductFits
    <3>3. WMul(m[i][j], s[j]) = m[i][j] * s[j]
      BY <3>2, NoWrap DEF WMul
    <3>4. QED
      BY <3>3 DEF MulDown
  <2>2. /\ WMul(m[i][1], s[1]) \div Wad = MulDown(m[i][1], s[1])
        /\ WMul(m[i][2], s[2]) \div Wad = MulDown(m[i][2], s[2])
        /\ WMul(m[i][3], s[3]) \div Wad = MulDown(m[i][3], s[3])
    BY <2>1 DEF Index
  <2> DEFINE total == MulDown(m[i][1], s[1]) + MulDown(m[i][2], s[2]) + MulDown(m[i][3], s[3])
  <2>3. total \in 0 .. Wad
    BY <1>1 DEF Step
  <2>4. total % Word = total
    <3> HIDE DEF total
    <3>1. total \in Nat /\ total < Word
      BY <2>3, WadFitsWord, WadAssumption
    <3>2. QED
      BY <3>1, NoWrap
  <2>5. QED
    BY <2>2, <2>4
<1>3. WStep(m, s) = Step(m, s)
  BY <1>2 DEF WStep, Step
<1>4. QED
  BY <1>1, <1>3

\* So is the derivation of an input.
LEMMA DeriveExact ==
  ASSUME NEW x \in Limbs, Derivable(x)
  PROVE  WDerive(x) = Derive(x)
<1>1. \A i \in Index : WMul(x[i], Wad) = x[i] * Wad
  <2> SUFFICES ASSUME NEW i \in Index PROVE WMul(x[i], Wad) = x[i] * Wad
    OBVIOUS
  <2>1. x[i] \in Nat /\ x[i] + 1 <= Limb /\ Limb \in Nat /\ Wad \in Nat \ {0}
    BY LimbAssumption, WadAssumption DEF Limbs
  <2>2. Wad * (x[i] + 1) <= Wad * Limb
    BY <2>1, ProductMonotone
  <2>3. Wad * (x[i] + 1) = x[i] * Wad + Wad /\ Wad * Limb = Limb * Wad
    BY <2>1
  <2>4. x[i] * Wad \in Nat /\ Limb * Wad \in Nat
    BY <2>1, ProductsInNat
  <2>5. x[i] * Wad < Word
    BY <2>1, <2>2, <2>3, <2>4, WordAssumption
  <2>6. QED
    BY <2>4, <2>5, NoWrap DEF WMul
<1> DEFINE q == Scaled(x)
<1>2. [i \in Index |-> WMul(x[i], Wad) \div Total(x)] = q
  BY <1>1 DEF Scaled
<1>3. Derive(x) = [i \in Index |-> IF i = 1 THEN q[1] + (Wad - Total(q)) ELSE q[i]]
  BY DEF Derive
<1>4. q \in [Index -> 0 .. Wad] /\ Derive(x) \in [Index -> 0 .. Wad]
  BY DerivedIsAdmissible
<1> HIDE DEF q
<1>5. /\ q[1] \in Nat /\ q[2] \in Nat /\ q[3] \in Nat
      /\ q[1] + Wad - Total(q) = q[1] + (Wad - Total(q))
  BY <1>4, WadAssumption DEF Index, Total
<1>6. q[1] + (Wad - Total(q)) \in 0 .. Wad
  BY <1>3, <1>4 DEF Index
<1>7. (q[1] + Wad - Total(q)) % Word = q[1] + (Wad - Total(q))
  <2>1. q[1] + (Wad - Total(q)) \in Nat /\ q[1] + (Wad - Total(q)) < Word
    BY <1>6, WadFitsWord, WadAssumption
  <2>2. QED
    BY <1>5, <2>1, NoWrap
<1>8. WDerive(x) = [i \in Index |-> IF i = 1 THEN (q[1] + Wad - Total(q)) % Word ELSE q[i]]
  BY <1>2 DEF WDerive
<1>9. QED
  BY <1>3, <1>7, <1>8

--------------------------------------------------------------------------------
(* What the checks that a claim has passed establish.                       *)

Pending == {"version", "derive", "listed", "count", "matrix", "input", "output"}

\* After the derivation, and from then on.
AfterInput == {"count", "matrix", "input", "output"}

PassedInput ==
  /\ VersionOf(claim) = Version
  /\ DerivationOK(claim)
  /\ ListedOK(claim)

\* The faults of a claim, one by one.
LEMMA FaultsOf ==
  ASSUME NEW c
  PROVE  /\ "version" \in Faults(c) <=> VersionOf(c) # Version
         /\ "n" \in Faults(c) <=> c.n = Absent \/ c.n \notin 0 .. NMax
         /\ "matrix" \in Faults(c) <=> c.m = Absent \/ ~MatrixOK(c.m)
         /\ "derive" \in Faults(c) <=> ~DerivationOK(c)
         /\ "listed" \in Faults(c) <=> ~ListedOK(c)
         /\ "input" \in Faults(c) <=> DerivationOK(c) /\ (NoInput(c) \/ ~InputOK(InputOf(c)))
         /\ "output" \in Faults(c) <=> c.sOut = Absent \/ ~VectorOK(c.sOut)
BY DEF Faults, GateNames

LEMMA NoFault ==
  ASSUME NEW c
  PROVE  Faults(c) = {} <=> /\ "version" \notin Faults(c) /\ "n" \notin Faults(c)
                            /\ "matrix" \notin Faults(c) /\ "derive" \notin Faults(c)
                            /\ "listed" \notin Faults(c) /\ "input" \notin Faults(c)
                            /\ "output" \notin Faults(c)
<1>1. Faults(c) \subseteq GateNames
  BY DEF Faults
<1>2. QED
  BY <1>1 DEF GateNames

ContractInv ==
  /\ claim \in Claims
  /\ Encodable(claim)
  /\ pc \in Pending \cup {"loop", "done"}
  /\ pc # "done" => verdict = "none"
  /\ pc = "done" => verdict \in {"true", "false", "error"} \cup Errors
  /\ pc \in Pending \/ verdict \in {"error"} \cup Errors => k = 0
  /\ pc \in {"derive", "listed"} => VersionOf(claim) = Version
  /\ pc = "listed" => claim.hash # Absent /\ DerivationOK(claim) /\ sIn = InputOf(claim)
  /\ pc \in AfterInput => PassedInput /\ sIn = InputOf(claim)
  /\ pc \in AfterInput \ {"count"} => claim.n <= NMax
  /\ pc \in {"input", "output"} => MatrixOK(claim.m)
  /\ pc = "output" => InputOK(InputOf(claim))
  /\ pc = "loop" =>
       /\ Faults(claim) = {}
       /\ MatrixOK(claim.m)
       /\ k \in 0 .. claim.n
       /\ state \in [Index -> 0 .. Wad]

LEMMA ClaimTypes ==
  ASSUME NEW c \in Claims, Encodable(c)
  PROVE  /\ c.n # Absent /\ c.m # Absent /\ c.sOut # Absent
         /\ c.m \in Seq(Seq(Int)) /\ Len(c.m) = 3 /\ (\A i \in Index : IsWords(c.m[i]))
         /\ c.n \in 0 .. Word - 1
         /\ c.sIn \in Seq(Int) /\ c.sIn # Absent /\ IsWords(c.sIn)
         /\ c.sOut \in Seq(Int) /\ IsWords(c.sOut)
         /\ c.hash # Absent => c.hash \in Limbs
BY ClaimsAssumption DEF Claim, Encodable

\* The vector in hand after the derivation is one of three words.
LEMMA InputWords ==
  ASSUME NEW c \in Claims, Encodable(c), DerivationOK(c)
  PROVE  IsWords(InputOf(c))
<1>1. CASE c.hash = Absent
  BY <1>1, ClaimTypes DEF InputOf
<1>2. CASE c.hash # Absent
  <2>1. InputOf(c) = Derive(c.hash) /\ c.hash \in Limbs /\ Derivable(c.hash)
    BY <1>2, ClaimTypes DEF InputOf, DerivationOK
  <2>2. Derive(c.hash) \in [Index -> 0 .. Wad]
    BY <2>1, DerivedIsAdmissible
  <2>3. Len(Derive(c.hash)) = 3
    BY <2>2 DEF Index
  <2>4. QED
    BY <2>1, <2>2, <2>3, WadFitsWord, WadAssumption DEF IsWords
<1>3. QED
  BY <1>1, <1>2

LEMMA InputVector ==
  ASSUME NEW c \in Claims, Encodable(c), DerivationOK(c), InputOK(InputOf(c))
  PROVE  InputOf(c) \in [Index -> 0 .. Wad]
<1>1. CASE c.hash = Absent
  <2>1. InputOf(c) \in Seq(Int) /\ Len(InputOf(c)) = 3
    BY <1>1, ClaimTypes DEF InputOf, InputOK, VectorOK
  <2>2. QED
    BY <2>1 DEF InputOK, VectorOK, Index
<1>2. CASE c.hash # Absent
  BY <1>2, ClaimTypes, DerivedIsAdmissible DEF InputOf, DerivationOK
<1>3. QED
  BY <1>1, <1>2

LEMMA InvInit == Init => ContractInv
BY DEF Init, ContractInv, Pending, AfterInput, Errors

\* Every check, passed or failed, keeps the invariant.
LEMMA GatesStep ==
  ASSUME ContractInv,
         VersionGate \/ DeriveState \/ ListedGate \/ PassInput \/ CountGate \/ MatrixGate \/ InputGate
  PROVE  ContractInv'
<1> USE DEF ContractInv, Pending, AfterInput, Errors, Gate
<1>1. CASE VersionGate
  BY <1>1 DEF VersionGate
<1>2. CASE DeriveState
  <2>1. claim.hash \in Limbs /\ claim.hash # Absent /\ claim' = claim
    BY <1>2, ClaimTypes DEF DeriveState
  <2>2. CASE Derivable(claim.hash)
    <3>1. sIn' = InputOf(claim) /\ DerivationOK(claim) /\ pc' = "listed" /\ verdict' = verdict /\ k' = k
      BY <1>2, <2>1, <2>2, DeriveExact DEF DeriveState, InputOf, DerivationOK
    <3>2. pc = "derive"
      BY <1>2 DEF DeriveState
    <3>3. QED
      BY <2>1, <3>1, <3>2
  <2>3. CASE ~Derivable(claim.hash)
    BY <1>2, <2>1, <2>3 DEF DeriveState
  <2>4. QED
    BY <2>2, <2>3
<1>3. CASE ListedGate
  BY <1>3 DEF ListedGate, PassedInput, ListedOK, InputOf
<1>4. CASE PassInput
  BY <1>4 DEF PassInput, PassedInput, ListedOK, InputOf, DerivationOK
<1>5. CASE CountGate
  BY <1>5 DEF CountGate, CountOK, PassedInput
<1>6. CASE MatrixGate
  <2>1. RowsOK(claim.m) <=> MatrixOK(claim.m)
    BY ClaimTypes, MatrixChecked
  <2>2. QED
    BY <1>6, <2>1 DEF MatrixGate, PassedInput
<1>7. CASE InputGate
  <2>1. /\ pc = "input" /\ claim' = claim /\ k' = k /\ sIn' = sIn /\ state' = state
        /\ sIn = InputOf(claim) /\ PassedInput
    BY <1>7 DEF InputGate
  <2>2. ComponentsOK(sIn) <=> VectorOK(sIn)
    BY <2>1, InputWords, VectorChecked DEF PassedInput
  <2>3. CASE InputError(sIn) = "none"
    <3>1. InputOK(InputOf(claim))
      BY <2>1, <2>2, <2>3 DEF InputError, InputOK, SumsToWad
    <3>2. QED
      BY <1>7, <2>1, <2>3, <3>1 DEF InputGate, PassedInput
  <2>4. CASE InputError(sIn) # "none"
    <3>1. InputError(sIn) \in Errors
      BY <2>4 DEF InputError
    <3>2. QED
      BY <1>7, <2>1, <2>4, <3>1 DEF InputGate
  <2>5. QED
    BY <2>3, <2>4
<1>8. QED
  BY <1>1, <1>2, <1>3, <1>4, <1>5, <1>6, <1>7

LEMMA OutputStep ==
  ASSUME ContractInv, OutputGate
  PROVE  /\ ContractInv'
         /\ pc' = "loop" <=> Faults(claim) = {}
         /\ pc' = "done" => "output" \in Faults(claim)
         /\ pc' \in {"loop", "done"}
<1> USE DEF ContractInv, Pending, AfterInput, Errors, Gate
<1>1. /\ pc = "output" /\ claim' = claim /\ k' = k /\ k = 0 /\ state' = InputOf(claim)
      /\ PassedInput /\ claim.n <= NMax /\ MatrixOK(claim.m) /\ InputOK(InputOf(claim))
  BY DEF OutputGate
<1>2. ComponentsOK(claim.sOut) <=> VectorOK(claim.sOut)
  BY ClaimTypes, VectorChecked
<1>3. claim.n \in 0 .. NMax
  BY <1>1, ClaimTypes, NMaxAssumption, WordAssumption
<1>4. Faults(claim) = {} <=> VectorOK(claim.sOut)
  BY <1>1, <1>3, ClaimTypes, FaultsOf, NoFault DEF PassedInput, NoInput
<1>5. state' \in [Index -> 0 .. Wad]
  BY <1>1, InputVector DEF PassedInput
<1>6. ~VectorOK(claim.sOut) => "output" \in Faults(claim)
  BY FaultsOf
<1>7. QED
  BY <1>1, <1>2, <1>3, <1>4, <1>5, <1>6 DEF OutputGate

LEMMA IterateStep ==
  ASSUME ContractInv, Iterate
  PROVE  ContractInv' /\ state' = Step(claim.m, state) /\ k' = k + 1
<1>1. /\ pc = "loop" /\ pc' = pc /\ claim' = claim /\ verdict' = verdict /\ sIn' = sIn
      /\ k < claim.n /\ k \in 0 .. claim.n /\ claim.n \in 0 .. Word - 1
      /\ MatrixOK(claim.m) /\ state \in [Index -> 0 .. Wad]
      /\ claim.m \in Seq(Seq(Int)) /\ claim \in Claims /\ Encodable(claim)
      /\ verdict = "none"
  BY ClaimTypes DEF ContractInv, Iterate
<1>2. k' = k + 1 /\ k' \in 0 .. claim.n
  <2>1. k + 1 \in Nat /\ k + 1 < Word
    BY <1>1, WordAssumption
  <2>2. QED
    BY <1>1, <2>1, NoWrap DEF Iterate
<1>3. state' = Step(claim.m, state) /\ state' \in [Index -> 0 .. Wad]
  BY <1>1, StepExact DEF Iterate
<1>4. QED
  BY <1>1, <1>2, <1>3 DEF ContractInv, Pending, AfterInput, Errors, Iterate

LEMMA InvStep == ContractInv /\ [Next]_vars => ContractInv'
<1> SUFFICES ASSUME ContractInv, [Next]_vars PROVE ContractInv'
  OBVIOUS
<1>1. CASE Compare
  BY <1>1 DEF Compare, ContractInv, Pending, AfterInput, Errors
<1>2. CASE UNCHANGED vars
  BY <1>2 DEF vars, ContractInv, PassedInput
<1>3. QED
  BY <1>1, <1>2, GatesStep, OutputStep, IterateStep DEF Next

THEOREM ContractInvariant == Spec => []ContractInv
BY InvInit, InvStep, PTL DEF Spec

--------------------------------------------------------------------------------
(* Theorems.                                                                *)

\* No product and no sum of the unchecked loop of verifyWork wraps, whatever the
\* matrix, the input and the number of iterations that its checks let through.
THEOREM NeverOverflows == Spec => []NoOverflow
<1>1. ContractInv => NoOverflow
  <2> SUFFICES ASSUME ContractInv, pc = "loop", NEW i \in Index
               PROVE  /\ \A j \in Index : claim.m[i][j] * state[j] < Word
                      /\ Total([j \in Index |-> (claim.m[i][j] * state[j]) \div Wad]) < Word
    BY DEF NoOverflow
  <2>1. /\ MatrixOK(claim.m) /\ claim.m \in Seq(Seq(Int)) /\ state \in [Index -> 0 .. Wad]
    BY ClaimTypes DEF ContractInv
  <2>2. \A j \in Index : claim.m[i][j] * state[j] < Word
    <3> SUFFICES ASSUME NEW j \in Index PROVE claim.m[i][j] * state[j] < Word
      OBVIOUS
    <3>1. claim.m[i][j] \in 0 .. Wad /\ state[j] \in 0 .. Wad
      BY <2>1, EntriesBounded
    <3>2. QED
      BY <3>1, ProductFits
  <2>3. Step(claim.m, state)[i] \in 0 .. Wad
    BY <2>1, StepExact
  <2>4. Total([j \in Index |-> (claim.m[i][j] * state[j]) \div Wad]) = Step(claim.m, state)[i]
    BY DEF Step, Total, MulDown, Index
  <2>5. QED
    BY <2>2, <2>3, <2>4, WadFitsWord, WadAssumption
<1>2. QED
  BY <1>1, ContractInvariant, PTL

\* The profile, read through the refinement mapping, refuses and computes what the
\* operators of this module do.
LEMMA SameOperators ==
  ASSUME NEW c
  PROVE  /\ Loop!Faults(c) = Faults(c)
         /\ \A g : Loop!Answer(g, c) = Answer(g, c)
         /\ Loop!InputOf(c) = InputOf(c)
         /\ \A s : Loop!Step(c.m, s) = Step(c.m, s)
BY DEF Loop!Faults, Faults, Loop!GateNames, GateNames, Loop!Answer, Answer, Loop!Missing, Missing,
  Loop!NoInput, NoInput, Loop!ListedOK, ListedOK, Loop!InputOf, InputOf,
  Loop!Step, Step, Loop!MulDown, MulDown, Loop!VersionOf, VersionOf, Loop!MatrixOK, MatrixOK,
  Loop!DerivationOK, DerivationOK, Loop!InputOK, InputOK, Loop!VectorOK, VectorOK,
  Loop!SumsToWad, SumsToWad, Loop!Total, Total, Loop!Derivable, Derivable, Loop!Derive, Derive,
  Loop!Scaled, Scaled, Loop!Index, Index

LEMMA RefinesInit == Init => Loop!Init
BY DEF Init, Loop!Init, Loop!Zero, Zero, Loop!Index, Index, Errors

\* The gate i is the first of the test's order that refuses the claim.
First(i) ==
  /\ DriverOrder[i] \in Faults(claim)
  /\ \A j \in 1 .. i - 1 : DriverOrder[j] \notin Faults(claim)

\* It is so if the gates before it, one by one, do not.
LEMMA FirstOf ==
  /\ "version" \in Faults(claim) => First(1)
  /\ "version" \notin Faults(claim) =>
       /\ "derive" \in Faults(claim) => First(2)
       /\ "derive" \notin Faults(claim) =>
            /\ "listed" \in Faults(claim) => First(3)
            /\ "listed" \notin Faults(claim) =>
                 /\ "n" \in Faults(claim) => First(4)
                 /\ "n" \notin Faults(claim) =>
                      /\ "matrix" \in Faults(claim) => First(5)
                      /\ "matrix" \notin Faults(claim) =>
                           /\ "input" \in Faults(claim) => First(6)
                           /\ "input" \notin Faults(claim) /\ "output" \in Faults(claim) => First(7)
<1>1. /\ DriverOrder[1] = "version" /\ DriverOrder[2] = "derive" /\ DriverOrder[3] = "listed"
      /\ DriverOrder[4] = "n" /\ DriverOrder[5] = "matrix" /\ DriverOrder[6] = "input"
      /\ DriverOrder[7] = "output"
  BY DEF DriverOrder
<1>2. QED
  BY <1>1 DEF First

\* A refusal by the first gate that refuses is the profile's.
LEMMA FirstRefuses ==
  ASSUME ContractInv, NEW i \in 1 .. 7, First(i), pc \in Pending, pc' = "done",
         claim' = claim, k' = k, verdict' \in Errors \cup {"error"},
         (IF verdict' \in Errors THEN "reject" ELSE verdict') = Answer(DriverOrder[i], claim)
  PROVE  Loop!Refuse
<1>1. Loop!Refuses(i, claim) /\ i \in DOMAIN DriverOrder
  BY SameOperators DEF Loop!Refuses, First, DriverOrder
<1>2. (IF verdict' \in Errors THEN "reject" ELSE verdict') = Loop!Answer(DriverOrder[i], claim)
  BY SameOperators
<1>3. verdict = "none" /\ "true" \notin Errors /\ "false" \notin Errors /\ "none" \notin Errors
  BY DEF ContractInv, Errors, Pending
<1>4. QED
  BY <1>1, <1>2, <1>3 DEF Loop!Refuse, Pending, Errors

\* The answer to a claim with all its fields.
LEMMA AnswerOf ==
  ASSUME ContractInv, NEW g \in GateNames
  PROVE  Answer(g, claim) = IF g = "listed" THEN "error" ELSE "reject"
BY ClaimTypes DEF ContractInv, Answer, Missing, NoInput, GateNames

\* What the checks so far establish, said of the faults.
LEMMA PassedGates ==
  ASSUME ContractInv
  PROVE  /\ pc \in Pending \ {"version"} => "version" \notin Faults(claim)
         /\ pc \in AfterInput \cup {"listed"} => "derive" \notin Faults(claim)
         /\ pc \in AfterInput => "listed" \notin Faults(claim)
         /\ pc \in AfterInput \ {"count"} => "n" \notin Faults(claim)
         /\ pc \in {"input", "output"} => "matrix" \notin Faults(claim)
         /\ pc = "output" => "input" \notin Faults(claim)
<1> USE DEF ContractInv, Pending, AfterInput, PassedInput
<1>1. /\ pc \in Pending \ {"version"} => "version" \notin Faults(claim)
      /\ pc \in AfterInput \cup {"listed"} => "derive" \notin Faults(claim)
      /\ pc \in AfterInput => "listed" \notin Faults(claim)
  BY FaultsOf
<1>2. pc \in AfterInput \ {"count"} => "n" \notin Faults(claim)
  <2>1. claim.n \in Nat /\ claim.n # Absent
    BY ClaimTypes, WordAssumption
  <2>2. QED
    BY <2>1, FaultsOf, NMaxAssumption
<1>3. pc \in {"input", "output"} => "matrix" \notin Faults(claim)
  BY ClaimTypes, FaultsOf
<1>4. pc = "output" => "input" \notin Faults(claim)
  BY ClaimTypes, FaultsOf DEF NoInput
<1>5. QED
  BY <1>1, <1>2, <1>3, <1>4

\* A check that fails refuses the claim, as the first that has a reason to; one that
\* passes is no step of the iteration.
LEMMA GatesRefine ==
  ASSUME ContractInv,
         VersionGate \/ DeriveState \/ ListedGate \/ PassInput \/ CountGate \/ MatrixGate \/ InputGate
  PROVE  Loop!Refuse \/ UNCHANGED Loop!loopVars
<1>1. /\ claim' = claim /\ k' = k /\ pc \in Pending /\ verdict = "none"
      /\ pc' \in Pending \cup {"done"}
      /\ pc' # "done" => verdict' = "none"
      /\ pc' = "done" => verdict' \in Errors \cup {"error"}
      /\ "none" \notin Errors /\ "true" \notin Errors /\ "false" \notin Errors /\ "error" \notin Errors
  BY DEF ContractInv, Pending, Errors, Gate, VersionGate, DeriveState, ListedGate, PassInput,
     CountGate, MatrixGate, InputGate, InputError
<1>2. CASE pc' # "done"
  BY <1>1, <1>2 DEF Loop!loopVars, Pending
<1>3. CASE pc' = "done"
  <2>0. /\ DriverOrder[1] = "version" /\ DriverOrder[2] = "derive" /\ DriverOrder[3] = "listed"
        /\ DriverOrder[4] = "n" /\ DriverOrder[5] = "matrix" /\ DriverOrder[6] = "input"
        /\ \A g \in GateNames : Answer(g, claim) = IF g = "listed" THEN "error" ELSE "reject"
    BY AnswerOf DEF DriverOrder
  <2> DEFINE Wrong(i) == First(i) /\ (IF verdict' \in Errors THEN "reject" ELSE verdict')
                                       = Answer(DriverOrder[i], claim)
  <2>1. CASE VersionGate
    <3>1. "version" \in Faults(claim) /\ verdict' \in Errors
      BY <1>3, <2>1, FaultsOf DEF VersionGate, Gate, Errors
    <3>2. Wrong(1)
      BY <2>0, <3>1, FirstOf DEF GateNames
    <3>3. QED
      BY <1>1, <1>3, <3>2, FirstRefuses
  <2>2. CASE DeriveState
    <3>1. "derive" \in Faults(claim) /\ verdict' \in Errors /\ pc = "derive"
      BY <1>3, <2>2, FaultsOf DEF DeriveState, Gate, Errors, DerivationOK
    <3>2. "version" \notin Faults(claim)
      BY <3>1, PassedGates DEF Pending
    <3>3. Wrong(2)
      BY <2>0, <3>1, <3>2, FirstOf DEF GateNames
    <3>4. QED
      BY <1>1, <1>3, <3>3, FirstRefuses
  <2>3. CASE ListedGate
    <3>1. /\ claim.hash # Absent /\ DerivationOK(claim) /\ claim.sIn # InputOf(claim) /\ pc = "listed"
          /\ verdict' = "error"
      BY <1>1, <1>3, <2>3 DEF ListedGate, Gate, ContractInv, Pending
    <3>2. "listed" \in Faults(claim)
      BY <3>1, FaultsOf, ClaimTypes DEF ContractInv, ListedOK, InputOf, DerivationOK
    <3>3. "version" \notin Faults(claim) /\ "derive" \notin Faults(claim)
      BY <3>1, PassedGates DEF Pending
    <3>4. Wrong(3)
      BY <1>1, <2>0, <3>1, <3>2, <3>3, FirstOf DEF GateNames
    <3>5. QED
      BY <1>1, <1>3, <3>4, FirstRefuses
  <2>4. CASE PassInput
    BY <1>1, <1>3, <2>4 DEF PassInput, Gate, Pending
  <2>5. CASE CountGate
    <3>1. ~(claim.n <= NMax) /\ pc = "count" /\ verdict' \in Errors
      BY <1>3, <2>5 DEF CountGate, Gate, CountOK, Errors
    <3>2. "n" \in Faults(claim)
      BY <3>1, FaultsOf, ClaimTypes, NMaxAssumption, WordAssumption DEF ContractInv
    <3>3. "version" \notin Faults(claim) /\ "derive" \notin Faults(claim) /\ "listed" \notin Faults(claim)
      BY <3>1, PassedGates DEF Pending, AfterInput
    <3>4. Wrong(4)
      BY <2>0, <3>1, <3>2, <3>3, FirstOf DEF GateNames
    <3>5. QED
      BY <1>1, <1>3, <3>4, FirstRefuses
  <2>6. CASE MatrixGate
    <3>1. ~RowsOK(claim.m) /\ pc = "matrix" /\ verdict' \in Errors
      BY <1>3, <2>6 DEF MatrixGate, Gate, Errors
    <3>2. "matrix" \in Faults(claim)
      BY <3>1, FaultsOf, ClaimTypes, MatrixChecked DEF ContractInv
    <3>3. /\ "version" \notin Faults(claim) /\ "derive" \notin Faults(claim)
          /\ "listed" \notin Faults(claim) /\ "n" \notin Faults(claim)
      BY <3>1, PassedGates DEF Pending, AfterInput
    <3>4. Wrong(5)
      BY <2>0, <3>1, <3>2, <3>3, FirstOf DEF GateNames
    <3>5. QED
      BY <1>1, <1>3, <3>4, FirstRefuses
  <2>7. CASE InputGate
    <3>1. /\ InputError(sIn) # "none" /\ pc = "input" /\ verdict' \in Errors
          /\ sIn = InputOf(claim) /\ DerivationOK(claim)
      BY <1>1, <1>3, <2>7 DEF InputGate, Gate, ContractInv, AfterInput, PassedInput, InputError, Errors
    <3>2. ~InputOK(InputOf(claim))
      BY <3>1, InputWords, VectorChecked DEF ContractInv, InputError, InputOK, SumsToWad
    <3>3. "input" \in Faults(claim)
      BY <3>1, <3>2, FaultsOf
    <3>4. /\ "version" \notin Faults(claim) /\ "derive" \notin Faults(claim)
          /\ "listed" \notin Faults(claim) /\ "n" \notin Faults(claim) /\ "matrix" \notin Faults(claim)
      BY <3>1, PassedGates DEF Pending, AfterInput
    <3>5. Wrong(6)
      BY <2>0, <3>1, <3>3, <3>4, FirstOf DEF GateNames
    <3>6. QED
      BY <1>1, <1>3, <3>5, FirstRefuses
  <2>8. QED
    BY <2>1, <2>2, <2>3, <2>4, <2>5, <2>6, <2>7
<1>4. QED
  BY <1>2, <1>3

LEMMA StepRefines == ContractInv /\ [Next]_vars => [Loop!Next]_Loop!loopVars
<1> SUFFICES ASSUME ContractInv, [Next]_vars PROVE [Loop!Next]_Loop!loopVars
  OBVIOUS
<1>0. "none" \notin Errors /\ "true" \notin Errors /\ "false" \notin Errors
  BY DEF Errors
<1>1. CASE OutputGate
  <2>1. /\ pc = "output" /\ claim' = claim /\ k' = k /\ verdict = "none" /\ state' = InputOf(claim)
        /\ pc' = "loop" => verdict' = verdict
        /\ pc' = "done" => verdict' = "StateComponentTooLarge"
    BY <1>1 DEF OutputGate, Gate, ContractInv, Pending, AfterInput, PassedInput
  <2>2. CASE pc' = "loop"
    <3>1. Faults(claim) = {}
      BY <1>1, <2>2, OutputStep
    <3>2. Loop!Admit
      BY <1>0, <2>1, <2>2, <3>1, SameOperators DEF Loop!Admit
    <3>3. QED
      BY <3>2 DEF Loop!Next
  <2>3. CASE pc' = "done"
    <3>1. "output" \in Faults(claim) /\ verdict' \in Errors
      BY <1>1, <2>1, <2>3, OutputStep DEF Errors
    <3>2. /\ "version" \notin Faults(claim) /\ "derive" \notin Faults(claim)
          /\ "listed" \notin Faults(claim) /\ "n" \notin Faults(claim) /\ "matrix" \notin Faults(claim)
          /\ "input" \notin Faults(claim)
      BY <2>1, PassedGates DEF Pending, AfterInput
    <3>3. First(7) /\ DriverOrder[7] = "output" /\ Answer("output", claim) = "reject"
      BY <3>1, <3>2, FirstOf, AnswerOf DEF DriverOrder, GateNames
    <3>4. Loop!Refuse
      BY <2>1, <2>3, <3>1, <3>3, FirstRefuses DEF Pending
    <3>5. QED
      BY <3>4 DEF Loop!Next
  <2>4. QED
    BY <1>1, <2>2, <2>3, OutputStep
<1>2. CASE Iterate
  <2>1. /\ pc = "loop" /\ pc' = pc /\ claim' = claim /\ verdict' = verdict /\ k < claim.n
        /\ k' = k + 1 /\ state' = Step(claim.m, state)
    BY <1>2, IterateStep DEF Iterate
  <2>2. Loop!Iterate
    BY <2>1, SameOperators DEF Loop!Iterate, Loop!MoreToDo
  <2>3. QED
    BY <2>2 DEF Loop!Next
<1>3. CASE Compare
  <2>1. /\ pc = "loop" /\ pc' = "done" /\ claim' = claim /\ k' = k /\ state' = state
        /\ ~(k < claim.n) /\ verdict = "none"
        /\ verdict' = IF \A i \in Index : state[i] = claim.sOut[i] THEN "true" ELSE "false"
    BY <1>3 DEF Compare, ContractInv
  <2>2. state = claim.sOut <=> \A i \in Index : state[i] = claim.sOut[i]
    <3>1. claim.sOut \in Seq(Int) /\ Len(claim.sOut) = 3
      BY ClaimTypes DEF ContractInv, IsWords
    <3>2. DOMAIN claim.sOut = Index
      BY <3>1 DEF Index
    <3>3. claim.sOut = [i \in Index |-> claim.sOut[i]]
      BY <3>1, <3>2
    <3>4. state \in [Index -> 0 .. Wad]
      BY <2>1 DEF ContractInv
    <3>5. QED
      BY <3>3, <3>4
  <2>3. Loop!Decide
    BY <1>0, <2>1, <2>2 DEF Loop!Decide, Loop!MoreToDo
  <2>4. QED
    BY <2>3 DEF Loop!Next
<1>4. CASE UNCHANGED vars
  BY <1>4 DEF vars, Loop!loopVars
<1>5. QED
  BY <1>1, <1>2, <1>3, <1>4, GatesRefine DEF Next, Loop!Next

\* Whatever the claim, the contract refuses, iterates and decides as the definition
\* over exact integers does, with checks in between that do nothing.
THEOREM ImplementsIteration == Spec => Loop!Spec
<1>1. Init => Loop!Init
  BY RefinesInit
<1>2. ContractInv /\ [Next]_vars => [Loop!Next]_Loop!loopVars
  BY StepRefines
<1>3. QED
  BY <1>1, <1>2, ContractInvariant, PTL DEF Spec, Loop!Spec

\* The two readings of the iteration are one.
LEMMA OneTheory ==
  /\ Loop!Init => Theory!Init
  /\ [Loop!Next]_Loop!loopVars => [Theory!Next]_Theory!loopVars
  /\ Theory!VerdictExact => Loop!VerdictExact
<1> USE DEF Loop!Faults, Theory!Faults, Loop!GateNames, Theory!GateNames, Loop!Answer, Theory!Answer,
     Loop!Missing, Theory!Missing, Loop!NoInput, Theory!NoInput, Loop!ListedOK, Theory!ListedOK,
     Loop!Refuses, Theory!Refuses,
     Loop!InputOf, Theory!InputOf, Loop!Step, Theory!Step, Loop!MulDown, Theory!MulDown,
     Loop!VersionOf, Theory!VersionOf, Loop!MatrixOK, Theory!MatrixOK,
     Loop!DerivationOK, Theory!DerivationOK, Loop!InputOK, Theory!InputOK,
     Loop!VectorOK, Theory!VectorOK, Loop!SumsToWad, Theory!SumsToWad,
     Loop!Total, Theory!Total, Loop!Derivable, Theory!Derivable, Loop!Derive, Theory!Derive,
     Loop!Scaled, Theory!Scaled, Loop!Index, Theory!Index
<1>1. Loop!Init => Theory!Init
  BY DEF Loop!Init, Theory!Init, Loop!Zero, Theory!Zero
<1>2. Loop!Next => Theory!Next
  BY DEF Loop!Next, Theory!Next, Loop!Refuse, Theory!Refuse, Loop!Admit, Theory!Admit, Loop!Iterate, Theory!Iterate,
     Loop!MoreToDo, Theory!MoreToDo, Loop!Decide, Theory!Decide
<1>3. Theory!VerdictExact => Loop!VerdictExact
  BY DEF Theory!VerdictExact, Loop!VerdictExact, Theory!Classify, Loop!Classify,
     Theory!UnitStep, Loop!UnitStep, Theory!Units, Loop!Units
<1>4. QED
  BY <1>1, <1>2, <1>3 DEF Loop!loopVars, Theory!loopVars

\* What is proved of the iteration holds of the contract: whatever the EVM decides about a
\* claim is the verdict of N plain iterations over exact integers, and what it refuses gets
\* the answer to its first fault in the order of the conformance test.
THEOREM VerdictsOfTheProfile == Spec => []Loop!VerdictExact
<1>1. Theory!Spec => []Theory!VerdictExact
  BY Theory!VerdictsAreExact, WadAssumption, NMaxAssumption, LimbAssumption, VersionAssumption,
     AbsentAssumption, ClaimsAssumption, OrderIsComplete
     DEF Theory!Claim, Claim, Theory!Limbs, Limbs, Theory!BadHashes, BadHashes,
     Theory!Index, Index, Theory!GateNames, GateNames
<1>2. Loop!Spec => Theory!Spec
  BY OneTheory, PTL DEF Loop!Spec, Theory!Spec
<1>3. QED
  BY <1>1, <1>2, OneTheory, ImplementsIteration, PTL

================================================================================
