----------------------------- MODULE WorkLoopProofs -----------------------------
(****************************************************************************)
(* The work function, for every scale, limit on iterations and set of       *)
(* claims: bounds, verdicts and drift.                                      *)
(****************************************************************************)
EXTENDS WorkLoop, WellFoundedInduction, TLAPS

\* A set of numbers has a least one.
LEMMA LeastNumber ==
  ASSUME NEW T, T \subseteq Nat, T # {}
  PROVE  \E n \in T : \A m \in T : n <= m
<1> DEFINE R == OpToRel(<, Nat)
<1>1. IsWellFoundedOn(R, Nat)
  BY NatLessThanWellFounded
<1>2. \A m, n \in Nat : m < n => <<m, n>> \in R
  BY DEF OpToRel
<1> HIDE DEF R
<1>3. \E n \in T : \A m \in T : <<m, n>> \notin R
  BY <1>1, WFMin
<1>4. \A n, m \in T : <<m, n>> \notin R => n <= m
  <2> SUFFICES ASSUME NEW n \in T, NEW m \in T, <<m, n>> \notin R PROVE n <= m
    OBVIOUS
  <2>1. n \in Nat /\ m \in Nat /\ ~(m < n)
    BY <1>2
  <2>2. QED
    BY <2>1
<1>5. QED
  BY <1>3, <1>4

\* Induction over the numbers, for a property given by the set that has it.
LEMMA SetInduction ==
  ASSUME NEW S, 0 \in S, \A n \in Nat : n \in S => n + 1 \in S
  PROVE  \A n \in Nat : n \in S
<1> SUFFICES ASSUME Nat \ S # {} PROVE FALSE
  OBVIOUS
<1>1. PICK n \in Nat \ S : \A m \in Nat \ S : n <= m
  BY LeastNumber
<1>2. n # 0 /\ n - 1 \in Nat /\ ~(n <= n - 1)
  OBVIOUS
<1>3. n - 1 \in S
  BY <1>1, <1>2
<1>4. QED
  BY <1>2, <1>3

\* The first n + 1 values of the iteration of F from s.
Run(s, F, A, n) ==
  {g \in [0 .. n -> A] : g[0] = s /\ \A i \in 0 .. n : i > 0 => g[i] = F[g[i - 1]]}

\* There is one for every n, and the longer one extends the shorter.
LEMMA RunsAgree ==
  ASSUME NEW A, NEW s, NEW F, NEW n \in Nat, NEW g \in Run(s, F, A, n),
         NEW l \in Nat, n <= l, NEW h \in Run(s, F, A, l)
  PROVE  \A i \in 0 .. n : g[i] = h[i]
<1> DEFINE S == {i \in Nat : i <= n => g[i] = h[i]}
<1>1. 0 \in S
  BY DEF Run
<1>2. ASSUME NEW i \in Nat, i \in S PROVE i + 1 \in S
  <2> SUFFICES ASSUME i + 1 <= n PROVE g[i + 1] = h[i + 1]
    OBVIOUS
  <2>1. i + 1 \in 0 .. n /\ i + 1 \in 0 .. l /\ i + 1 > 0 /\ i + 1 - 1 = i /\ i <= n
    OBVIOUS
  <2>2. g[i] = h[i]
    BY <1>2, <2>1
  <2>3. QED
    BY <2>1, <2>2 DEF Run
<1> HIDE DEF S
<1>3. \A i \in Nat : i \in S
  BY <1>1, <1>2, SetInduction
<1>4. QED
  BY <1>3 DEF S

LEMMA RunsExist ==
  ASSUME NEW A, NEW s \in A, NEW F \in [A -> A], NEW n \in Nat
  PROVE  Run(s, F, A, n) # {}
<1> DEFINE S == {i \in Nat : Run(s, F, A, i) # {}}
<1>1. 0 \in S
  <2>1. [i \in 0 .. 0 |-> s] \in Run(s, F, A, 0)
    BY DEF Run
  <2>2. QED
    BY <2>1
<1>2. ASSUME NEW i \in Nat, i \in S PROVE i + 1 \in S
  <2>1. PICK g : g \in Run(s, F, A, i)
    BY <1>2
  <2> DEFINE h == [j \in 0 .. i + 1 |-> IF j = i + 1 THEN F[g[i]] ELSE g[j]]
  <2>2. g \in [0 .. i -> A] /\ g[0] = s /\ \A j \in 0 .. i : j > 0 => g[j] = F[g[j - 1]]
    BY <2>1 DEF Run
  <2>3. h \in [0 .. i + 1 -> A] /\ h[0] = s
    BY <2>2
  <2>4. ASSUME NEW j \in 0 .. i + 1, j > 0 PROVE h[j] = F[h[j - 1]]
    <3>1. j - 1 \in 0 .. i + 1 /\ j - 1 # i + 1
      BY <2>4
    <3>2. CASE j = i + 1
      BY <3>1, <3>2
    <3>3. CASE j # i + 1
      <4>1. j \in 0 .. i
        BY <3>3
      <4>2. QED
        BY <2>2, <2>4, <3>1, <3>3, <4>1
    <3>4. QED
      BY <3>2, <3>3
  <2> HIDE DEF h
  <2>5. h \in Run(s, F, A, i + 1)
    BY <2>3, <2>4 DEF Run
  <2>6. QED
    BY <2>5
<1> HIDE DEF S
<1>3. \A i \in Nat : i \in S
  BY <1>1, <1>2, SetInduction
<1>4. QED
  BY <1>3 DEF S

\* A function on the numbers may be defined by iteration.
LEMMA Iteration ==
  ASSUME NEW A, NEW s \in A, NEW F \in [A -> A]
  PROVE  \E f \in [Nat -> A] : f = [n \in Nat |-> IF n = 0 THEN s ELSE F[f[n - 1]]]
<1> DEFINE R(n) == CHOOSE g : g \in Run(s, F, A, n)
           f == [n \in Nat |-> R(n)[n]]
<1>1. \A n \in Nat : R(n) \in Run(s, F, A, n)
  BY RunsExist
<1> HIDE DEF R
<1>2. \A n \in Nat : f[n] \in A
  BY <1>1 DEF Run
<1>3. f \in [Nat -> A]
  BY <1>2
<1>4. ASSUME NEW n \in Nat PROVE f[n] = IF n = 0 THEN s ELSE F[f[n - 1]]
  <2>1. CASE n = 0
    BY <1>1, <2>1 DEF Run
  <2>2. CASE n # 0
    <3>1. n - 1 \in Nat /\ n - 1 <= n /\ n - 1 \in 0 .. n - 1 /\ n \in 0 .. n /\ n > 0
      BY <2>2
    <3>2. R(n - 1)[n - 1] = R(n)[n - 1]
      BY <1>1, <3>1, RunsAgree
    <3>3. R(n)[n] = F[R(n)[n - 1]]
      BY <1>1, <3>1 DEF Run
    <3>4. QED
      BY <2>2, <3>1, <3>2, <3>3
  <2>3. QED
    BY <2>1, <2>2
<1> HIDE DEF f
<1>5. f = [n \in Nat |-> f[n]]
  BY <1>3
<1>6. f = [n \in Nat |-> IF n = 0 THEN s ELSE F[f[n - 1]]]
  BY <1>4, <1>5
<1>7. QED
  BY <1>3, <1>6

--------------------------------------------------------------------------------
(* Floored products and derived inputs.                                      *)

\* Division with remainder.
LEMMA DivBounds ==
  ASSUME NEW a \in Nat, NEW b \in Nat \ {0}
  PROVE  /\ a \div b \in Nat
         /\ b * (a \div b) <= a
         /\ a < b * (a \div b) + b
OBVIOUS

\* Products keep the order of their factors, and show it.
LEMMA ProductMonotone ==
  ASSUME NEW x \in Nat, NEW y \in Nat, NEW z \in Nat, y <= z
  PROVE  x * y \in Nat /\ x * y <= x * z
OBVIOUS

LEMMA ProductCancels ==
  ASSUME NEW a \in Int, NEW b \in Int, NEW w \in Nat \ {0}, w * a <= w * b
  PROVE  a <= b
OBVIOUS

LEMMA ProductCancelsStrictly ==
  ASSUME NEW a \in Int, NEW b \in Int, NEW w \in Nat \ {0}, w * a < w * b
  PROVE  a < b
OBVIOUS

LEMMA ProductsInNat ==
  ASSUME NEW x \in Nat, NEW y \in Nat
  PROVE  x * y \in Nat
OBVIOUS

\* A product is floored: what is lost is less than one unit.
LEMMA MulDownBounds ==
  ASSUME NEW x \in Nat, NEW y \in Nat
  PROVE  /\ MulDown(x, y) \in Nat
         /\ Wad * MulDown(x, y) <= x * y
         /\ x * y < Wad * MulDown(x, y) + Wad
BY WadAssumption, ProductsInNat, DivBounds DEF MulDown

\* The weighted mean of three components, floored, is none greater than they are.
LEMMA MeanBounded ==
  ASSUME NEW r \in [Index -> Nat], Total(r) = Wad,
         NEW s \in [Index -> Nat], NEW L \in Nat, \A i \in Index : s[i] <= L
  PROVE  MulDown(r[1], s[1]) + MulDown(r[2], s[2]) + MulDown(r[3], s[3]) \in 0 .. L
<1> DEFINE d == [i \in Index |-> MulDown(r[i], s[i])]
<1>1. \A i \in Index : d[i] \in Nat /\ Wad * d[i] <= r[i] * L
  <2> SUFFICES ASSUME NEW i \in Index PROVE d[i] \in Nat /\ Wad * d[i] <= r[i] * L
    OBVIOUS
  <2>1. r[i] \in Nat /\ s[i] \in Nat /\ s[i] <= L
    OBVIOUS
  <2>2. r[i] * s[i] <= r[i] * L /\ r[i] * s[i] \in Nat
    BY <2>1, ProductMonotone
  <2>3. MulDown(r[i], s[i]) \in Nat /\ Wad * MulDown(r[i], s[i]) <= r[i] * s[i]
    BY <2>1, MulDownBounds
  <2>4. r[i] * L \in Nat /\ Wad * MulDown(r[i], s[i]) \in Nat
    BY <2>1, <2>3, ProductsInNat, WadAssumption
  <2>5. QED
    BY <2>2, <2>3, <2>4
<1>2. /\ r[1] \in Nat /\ r[2] \in Nat /\ r[3] \in Nat
      /\ d[1] \in Nat /\ d[2] \in Nat /\ d[3] \in Nat
      /\ Wad * d[1] <= r[1] * L /\ Wad * d[2] <= r[2] * L /\ Wad * d[3] <= r[3] * L
      /\ r[1] + r[2] + r[3] = Wad
  BY <1>1 DEF Index, Total
<1> HIDE DEF d
<1>3. Wad * (d[1] + d[2] + d[3]) <= Wad * L
  <2>1. Wad * (d[1] + d[2] + d[3]) = Wad * d[1] + Wad * d[2] + Wad * d[3]
    BY <1>2, WadAssumption
  <2>2. (r[1] + r[2] + r[3]) * L = r[1] * L + r[2] * L + r[3] * L
    BY <1>2
  <2>3. QED
    BY <1>2, <2>1, <2>2, WadAssumption
<1>4. d[1] + d[2] + d[3] <= L
  BY <1>2, <1>3, ProductCancels, WadAssumption
<1>5. d[1] = MulDown(r[1], s[1]) /\ d[2] = MulDown(r[2], s[2]) /\ d[3] = MulDown(r[3], s[3])
  BY DEF d, Index
<1>6. QED
  BY <1>2, <1>4, <1>5

\* One iteration of an admissible matrix lets no component exceed what all were.
LEMMA StepBounded ==
  ASSUME NEW m \in Seq(Seq(Int)), MatrixOK(m),
         NEW s \in [Index -> Nat], NEW L \in Nat, \A i \in Index : s[i] <= L
  PROVE  Step(m, s) \in [Index -> 0 .. L]
<1> SUFFICES ASSUME NEW i \in Index
             PROVE  MulDown(m[i][1], s[1]) + MulDown(m[i][2], s[2]) + MulDown(m[i][3], s[3])
                      \in 0 .. L
  BY DEF Step
<1> DEFINE r == [j \in Index |-> m[i][j]]
<1>1. r \in [Index -> Nat] /\ Total(r) = Wad
  <2>1. VectorOK(m[i]) /\ Total(m[i]) = Wad
    BY DEF MatrixOK, SumsToWad
  <2>2. \A j \in Index : m[i][j] \in Nat
    BY <2>1, WadAssumption DEF VectorOK
  <2>3. Total(r) = Total(m[i])
    BY DEF Total, Index
  <2>4. QED
    BY <2>1, <2>2, <2>3
<1>2. r[1] = m[i][1] /\ r[2] = m[i][2] /\ r[3] = m[i][3]
  BY DEF Index
<1> HIDE DEF r
<1>3. QED
  BY <1>1, <1>2, MeanBounded

\* What a hash is turned into is admissible: it sums to Wad, no component exceeds
\* Wad, and flooring loses at most two units.
LEMMA DerivedIsAdmissible ==
  ASSUME NEW x \in Limbs, Derivable(x)
  PROVE  /\ Scaled(x) \in [Index -> 0 .. Wad]
         /\ Wad - Total(Scaled(x)) \in 0 .. 2
         /\ Derive(x) \in [Index -> 0 .. Wad]
         /\ Total(Derive(x)) = Wad
<1> DEFINE T == Total(x)
           q == Scaled(x)
<1>1. x[1] \in Nat /\ x[2] \in Nat /\ x[3] \in Nat /\ T = x[1] + x[2] + x[3] /\ T \in Nat \ {0}
  BY LimbAssumption DEF Limbs, Index, Total, Derivable
<1>2. \A i \in Index : q[i] = (x[i] * Wad) \div T
  BY DEF Scaled
<1> HIDE DEF T, q
<1>3. \A i \in Index : /\ q[i] \in Nat
                       /\ T * q[i] <= x[i] * Wad
                       /\ x[i] * Wad < T * q[i] + T
  <2> SUFFICES ASSUME NEW i \in Index
               PROVE  q[i] \in Nat /\ T * q[i] <= x[i] * Wad /\ x[i] * Wad < T * q[i] + T
    OBVIOUS
  <2>1. x[i] \in Nat
    BY <1>1 DEF Index
  <2>2. x[i] * Wad \in Nat
    BY <2>1, ProductsInNat, WadAssumption
  <2>3. QED
    BY <1>1, <1>2, <2>2, DivBounds
<1>4. /\ q[1] \in Nat /\ T * q[1] <= x[1] * Wad /\ x[1] * Wad < T * q[1] + T
      /\ q[2] \in Nat /\ T * q[2] <= x[2] * Wad /\ x[2] * Wad < T * q[2] + T
      /\ q[3] \in Nat /\ T * q[3] <= x[3] * Wad /\ x[3] * Wad < T * q[3] + T
  BY <1>3 DEF Index
<1> DEFINE sum == q[1] + q[2] + q[3]
<1>5. sum \in Nat
  BY <1>4
<1>6. T * sum <= T * Wad /\ T * Wad < T * (sum + 3)
  <2>1. T * sum = T * q[1] + T * q[2] + T * q[3]
    BY <1>1, <1>4
  <2>2. T * Wad = x[1] * Wad + x[2] * Wad + x[3] * Wad
    BY <1>1, WadAssumption
  <2>3. T * (sum + 3) = T * sum + T + T + T
    BY <1>1, <1>5
  <2> HIDE DEF sum
  <2>4. QED
    BY <1>1, <1>4, <1>5, <2>1, <2>2, <2>3, WadAssumption
<1>7. sum <= Wad /\ Wad < sum + 3
  <2> HIDE DEF sum
  <2>1. sum <= Wad
    BY <1>1, <1>5, <1>6, ProductCancels, WadAssumption
  <2>2. Wad < sum + 3
    BY <1>1, <1>5, <1>6, ProductCancelsStrictly, WadAssumption
  <2>3. QED
    BY <2>1, <2>2
<1>8. Scaled(x) = [i \in Index |-> q[i]] /\ Total(Scaled(x)) = sum
  BY DEF q, Scaled, Total
<1>9. \A i \in Index : q[i] \in 0 .. Wad
  BY <1>4, <1>7, WadAssumption DEF Index
<1>10. Derive(x) = [i \in Index |-> IF i = 1 THEN q[1] + (Wad - sum) ELSE q[i]]
  BY <1>8 DEF Derive, q
<1>11. /\ Derive(x)[1] = Wad - q[2] - q[3] /\ Derive(x)[2] = q[2] /\ Derive(x)[3] = q[3]
  BY <1>4, <1>10, WadAssumption DEF Index
<1>12. \A i \in Index : Derive(x)[i] \in 0 .. Wad
  BY <1>4, <1>7, <1>9, <1>11, WadAssumption DEF Index
<1>13. Total(Derive(x)) = Wad
  BY <1>4, <1>11, WadAssumption DEF Total
<1>14. QED
  BY <1>5, <1>7, <1>8, <1>9, <1>10, <1>12, <1>13, WadAssumption

\* The largest of three numbers is one of them.
LEMMA LargestIsMaximum ==
  ASSUME NEW s, \A i \in Index : s[i] \in Nat
  PROVE  /\ Largest(s) \in Nat
         /\ \E j \in Index : Largest(s) = s[j]
         /\ \A i \in Index : s[i] <= Largest(s)
<1>1. \E x \in {s[i] : i \in Index} : \A i \in Index : s[i] <= x
  BY DEF Index
<1>2. Largest(s) \in {s[i] : i \in Index} /\ \A i \in Index : s[i] <= Largest(s)
  BY <1>1 DEF Largest
<1>3. QED
  BY <1>2

\* A list of three is a vector of the model.
LEMMA VectorIsFunction ==
  ASSUME NEW s \in Seq(Int), VectorOK(s)
  PROVE  s \in [Index -> 0 .. Wad]
BY DEF VectorOK, Index

\* What a claim without a fault is.
LEMMA NoFault ==
  ASSUME NEW c, Faults(c) = {}
  PROVE  /\ VersionOf(c) = Version
         /\ c.n \in 0 .. NMax
         /\ MatrixOK(c.m) /\ c.m # Absent
         /\ DerivationOK(c) /\ ListedOK(c)
         /\ ~NoInput(c) /\ InputOK(InputOf(c))
         /\ VectorOK(c.sOut) /\ c.sOut # Absent
<1>1. \A g \in GateNames : g \notin Faults(c)
  OBVIOUS
<1>2. /\ "version" \notin Faults(c) /\ "n" \notin Faults(c) /\ "matrix" \notin Faults(c)
      /\ "derive" \notin Faults(c) /\ "listed" \notin Faults(c) /\ "input" \notin Faults(c)
      /\ "output" \notin Faults(c)
  BY <1>1 DEF GateNames
<1>3. QED
  BY <1>2 DEF Faults, GateNames

\* The input of a claim that is not refused is admissible, derived or listed.
LEMMA InputIsAdmissible ==
  ASSUME NEW c \in Claims, Faults(c) = {}
  PROVE  /\ InputOf(c) \in [Index -> 0 .. Wad]
         /\ Total(InputOf(c)) = Wad
         /\ MatrixOK(c.m)
         /\ c.n \in 0 .. NMax
<1>1. c \in Claim /\ (c.hash = Absent => c.sIn # Absent)
  BY ClaimsAssumption, NoFault DEF NoInput
<1>2. MatrixOK(c.m) /\ c.n \in 0 .. NMax /\ DerivationOK(c) /\ InputOK(InputOf(c))
  BY NoFault
<1>3. CASE c.hash = Absent
  <2>1. InputOf(c) = c.sIn /\ c.sIn \in Seq(Int)
    BY <1>1, <1>3 DEF InputOf, Claim
  <2>2. QED
    BY <1>2, <2>1, VectorIsFunction DEF InputOK, SumsToWad
<1>4. CASE c.hash # Absent
  <2>1. InputOf(c) = Derive(c.hash) /\ Derivable(c.hash)
    BY <1>2, <1>4 DEF InputOf, DerivationOK
  <2>2. c.hash \in Limbs
    <3>1. c.hash \in Limbs \cup BadHashes
      BY <1>1, <1>4 DEF Claim
    <3>2. c.hash \notin BadHashes
      BY <2>1 DEF BadHashes, Derivable
    <3>3. QED
      BY <3>1, <3>2
  <2>3. QED
    BY <1>2, <2>1, <2>2, DerivedIsAdmissible
<1>5. QED
  BY <1>3, <1>4

\* A claim is admitted before the loop, and no vector of the loop has a component
\* above the largest of the input.
LoopInv ==
  /\ claim \in Claims
  /\ TypeOK
  /\ phase = "gates" => k = 0
  /\ phase = "loop" =>
       /\ Faults(claim) = {}
       /\ k <= claim.n
       /\ out \in [Index -> Nat]
       /\ \A i \in Index : out[i] <= Largest(InputOf(claim))

LEMMA LoopInit == Init => LoopInv
<1> SUFFICES ASSUME Init PROVE LoopInv
  OBVIOUS
<1>1. claim \in Claim
  BY ClaimsAssumption DEF Init
<1>2. out \in [Index -> Int]
  BY DEF Init, Zero
<1>3. QED
  BY <1>1, <1>2, NMaxAssumption DEF Init, LoopInv, TypeOK

LEMMA LoopStep == LoopInv /\ [Next]_loopVars => LoopInv'
<1> SUFFICES ASSUME LoopInv, [Next]_loopVars PROVE LoopInv'
  OBVIOUS
<1> USE DEF LoopInv, TypeOK
<1>1. CASE Refuse
  <2>1. verdict' \in {"reject", "error"}
    BY <1>1 DEF Refuse, Answer
  <2>2. QED
    BY <1>1, <2>1 DEF Refuse
<1>2. CASE Admit
  <2>1. /\ Faults(claim) = {} /\ claim' = claim /\ k' = k /\ phase' = "loop"
        /\ out' = InputOf(claim) /\ verdict' = verdict /\ k = 0
    BY <1>2 DEF Admit
  <2>2. /\ InputOf(claim) \in [Index -> 0 .. Wad]
        /\ claim.n \in 0 .. NMax
    BY <2>1, InputIsAdmissible
  <2>3. \A i \in Index : InputOf(claim)[i] <= Largest(InputOf(claim))
    BY <2>2, LargestIsMaximum
  <2>4. InputOf(claim) \in [Index -> Nat] /\ InputOf(claim) \in [Index -> Int]
    BY <2>2
  <2>5. QED
    BY <2>1, <2>2, <2>3, <2>4
<1>3. CASE Iterate
  <2>1. /\ claim' = claim /\ k' = k + 1 /\ phase = "loop" /\ phase' = "loop"
        /\ out' = Step(claim.m, out) /\ verdict' = verdict /\ k < claim.n
    BY <1>3 DEF Iterate, MoreToDo
  <2>2. /\ InputOf(claim) \in [Index -> 0 .. Wad]
        /\ MatrixOK(claim.m)
        /\ claim.n \in 0 .. NMax
    BY <2>1, InputIsAdmissible
  <2>3. claim.m \in Seq(Seq(Int))
    BY <2>1, NoFault DEF Claim
  <2>4. Largest(InputOf(claim)) \in Nat
    BY <2>2, LargestIsMaximum
  <2>5. Step(claim.m, out) \in [Index -> 0 .. Largest(InputOf(claim))]
    BY <2>1, <2>2, <2>3, <2>4, StepBounded
  <2>6. /\ out' \in [Index -> Nat] /\ out' \in [Index -> Int]
        /\ \A i \in Index : out'[i] <= Largest(InputOf(claim))
    BY <2>1, <2>4, <2>5
  <2>7. k' \in 0 .. NMax /\ k' <= claim.n
    BY <2>1, <2>2, NMaxAssumption
  <2>8. QED
    BY <2>1, <2>6, <2>7
<1>4. CASE Decide
  BY <1>4 DEF Decide
<1>5. CASE UNCHANGED loopVars
  BY <1>5 DEF loopVars
<1>6. QED
  BY <1>1, <1>2, <1>3, <1>4, <1>5 DEF Next

THEOREM LoopInvariant == Spec => []LoopInv
BY LoopInit, LoopStep, PTL DEF Spec

\* Every variable of the iteration keeps its type; in particular no claim is
\* iterated more often than the profile's limit allows.
THEOREM TypeCorrect == Spec => []TypeOK
<1>1. LoopInv => TypeOK
  BY DEF LoopInv
<1>2. QED
  BY <1>1, LoopInvariant, PTL

\* No component of a vector exceeds the largest component of the input, the bound
\* that the unchecked loop of MarkovianWorkV2.sol rests on.
THEOREM BoundsHold == Spec => []ComponentsBounded
<1>1. LoopInv => ComponentsBounded
  <2> SUFFICES ASSUME LoopInv, phase = "loop", NEW i \in Index
               PROVE  out[i] \in 0 .. Largest(InputOf(claim))
    BY DEF ComponentsBounded
  <2>1. InputOf(claim) \in [Index -> 0 .. Wad]
    BY InputIsAdmissible DEF LoopInv
  <2>2. Largest(InputOf(claim)) \in Nat
    BY <2>1, LargestIsMaximum
  <2>3. QED
    BY <2>2 DEF LoopInv
<1>2. QED
  BY <1>1, LoopInvariant, PTL

\* No iteration makes the largest component grow.
THEOREM NeverGrows == Spec => MaxNeverGrows
<1> DEFINE Shrinks == phase = "loop" => \A i \in Index : \E j \in Index : out'[i] <= out[j]
<1>1. LoopInv /\ [Next]_loopVars => [Shrinks]_loopVars
  <2> SUFFICES ASSUME LoopInv, Next, phase = "loop" PROVE Shrinks
    OBVIOUS
  <2>1. CASE Iterate
    <3>1. /\ out \in [Index -> Nat] /\ MatrixOK(claim.m) /\ claim.m \in Seq(Seq(Int))
      BY InputIsAdmissible, NoFault DEF LoopInv, TypeOK, Claim
    <3>2. Largest(out) \in Nat /\ \A i \in Index : out[i] <= Largest(out)
      BY <3>1, LargestIsMaximum
    <3>3. PICK j \in Index : Largest(out) = out[j]
      BY <3>1, LargestIsMaximum
    <3>4. out' \in [Index -> 0 .. Largest(out)]
      BY <2>1, <3>1, <3>2, StepBounded DEF Iterate
    <3>5. \A i \in Index : out'[i] <= out[j]
      BY <3>2, <3>3, <3>4
    <3>6. QED
      BY <3>5
  <2>2. CASE Decide
    BY <2>2 DEF Decide, LoopInv
  <2>3. QED
    BY <2>1, <2>2 DEF Next, Refuse, Admit
<1>2. QED
  BY <1>1, LoopInvariant, PTL DEF Spec, MaxNeverGrows

\* The input that deriveState makes of a hash passes the checks of a listed one, and
\* the remainder that goes to its first component is at most two.
THEOREM DerivedInputs == Spec => []DerivedInputOK
<1>1. LoopInv => DerivedInputOK
  <2> SUFFICES ASSUME LoopInv, claim.hash # Absent, Derivable(claim.hash)
               PROVE  /\ InputOK(Derive(claim.hash))
                      /\ Wad - Total(Scaled(claim.hash)) \in 0 .. 2
    BY DEF DerivedInputOK
  <2>1. claim.hash \in Limbs
    <3>1. claim.hash \in Limbs \cup BadHashes
      BY DEF LoopInv, TypeOK, Claim
    <3>2. claim.hash \notin BadHashes
      BY DEF BadHashes, Derivable
    <3>3. QED
      BY <3>1, <3>2
  <2>2. /\ Derive(claim.hash) \in [Index -> 0 .. Wad] /\ Total(Derive(claim.hash)) = Wad
        /\ Wad - Total(Scaled(claim.hash)) \in 0 .. 2
    BY <2>1, DerivedIsAdmissible
  <2>3. Len(Derive(claim.hash)) = 3
    BY <2>2 DEF Index
  <2>4. QED
    BY <2>2, <2>3 DEF InputOK, VectorOK, SumsToWad
<1>2. QED
  BY <1>1, LoopInvariant, PTL

--------------------------------------------------------------------------------
(* The verdict by the definition of the profile.                            *)

\* The vectors of the definition of the profile, from the input of a claim on.
Powers(c) ==
  LET power[n \in Nat] == IF n = 0 THEN InputOf(c) ELSE UnitStep(c.m, power[n - 1]) IN power

\* The units that fit into a product are its floor.
LEMMA UnitsAreFloor ==
  ASSUME NEW x \in 0 .. Wad, NEW y \in 0 .. Wad
  PROVE  Units(x, y) = MulDown(x, y)
<1> DEFINE q == MulDown(x, y)
           p == x * y
<1>1. x \in Nat /\ y \in Nat /\ Wad \in Nat /\ y <= Wad /\ x <= Wad
  BY WadAssumption
<1>2. q \in Nat /\ Wad * q <= p /\ p < Wad * q + Wad /\ p \in Nat
  BY <1>1, MulDownBounds, ProductsInNat
<1>3. q \in 0 .. Wad
  <2>1. p <= x * Wad /\ Wad * x <= Wad * Wad /\ x * Wad = Wad * x
    BY <1>1, ProductMonotone
  <2>2. Wad * q <= Wad * Wad
    BY <1>1, <1>2, <2>1, ProductsInNat
  <2>3. q <= Wad
    BY <1>1, <1>2, <2>2, ProductCancels, WadAssumption
  <2>4. QED
    BY <1>1, <1>2, <2>3
<1> HIDE DEF q, p
<1>4. ASSUME NEW a \in 0 .. Wad
      PROVE  a * Wad = Wad * a /\ (a + 1) * Wad = Wad * a + Wad /\ Wad * (a + 1) = Wad * a + Wad
  BY <1>1
<1>5. q * Wad <= p /\ p < (q + 1) * Wad
  BY <1>2, <1>3, <1>4
<1>6. ASSUME NEW a \in 0 .. Wad, a * Wad <= p, p < (a + 1) * Wad
      PROVE  a = q
  <2>1. Wad * a < Wad * (q + 1) /\ Wad * q < Wad * (a + 1)
    <3>1. Wad * a \in Nat /\ Wad * q \in Nat
      BY <1>1, <1>2, ProductsInNat
    <3>2. QED
      BY <1>1, <1>2, <1>3, <1>4, <1>6, <3>1
  <2>2. a < q + 1 /\ q < a + 1
    BY <1>2, <2>1, ProductCancelsStrictly, WadAssumption
  <2>3. QED
    BY <1>2, <2>2
<1>7. Units(x, y) = q
  BY <1>3, <1>5, <1>6 DEF Units, p
<1>8. QED
  BY <1>7 DEF q

\* So the definition's iteration is the loop's.
LEMMA UnitStepIsStep ==
  ASSUME NEW m, MatrixOK(m), NEW s \in [Index -> 0 .. Wad]
  PROVE  UnitStep(m, s) = Step(m, s)
<1> SUFFICES ASSUME NEW i \in Index
             PROVE  Units(m[i][1], s[1]) + Units(m[i][2], s[2]) + Units(m[i][3], s[3])
                      = MulDown(m[i][1], s[1]) + MulDown(m[i][2], s[2]) + MulDown(m[i][3], s[3])
  BY DEF UnitStep, Step
<1>1. \A j \in Index : m[i][j] \in 0 .. Wad /\ s[j] \in 0 .. Wad
  BY DEF MatrixOK, VectorOK
<1>2. \A j \in Index : Units(m[i][j], s[j]) = MulDown(m[i][j], s[j])
  BY <1>1, UnitsAreFloor
<1>3. QED
  BY <1>2 DEF Index

\* An iteration of an admissible matrix takes vectors to vectors, and those within
\* the scale to such.
LEMMA StepIsVector ==
  ASSUME NEW m \in Seq(Seq(Int)), MatrixOK(m), NEW s \in [Index -> Nat]
  PROVE  Step(m, s) \in [Index -> Nat]
<1>1. /\ Largest(s) \in Nat /\ \A i \in Index : s[i] <= Largest(s)
  BY LargestIsMaximum
<1>2. Step(m, s) \in [Index -> 0 .. Largest(s)]
  BY <1>1, StepBounded
<1>3. QED
  BY <1>1, <1>2

LEMMA StepIsScaled ==
  ASSUME NEW m \in Seq(Seq(Int)), MatrixOK(m), NEW s \in [Index -> 0 .. Wad]
  PROVE  Step(m, s) \in [Index -> 0 .. Wad]
<1>1. Wad \in Nat /\ s \in [Index -> Nat] /\ \A i \in Index : s[i] <= Wad
  BY WadAssumption
<1>2. QED
  BY <1>1, StepBounded

\* They are what they are by iteration.
LEMMA PowersIterate ==
  ASSUME NEW c \in Claims, Faults(c) = {}
  PROVE  /\ Powers(c)[0] = InputOf(c)
         /\ \A n \in Nat : Powers(c)[n + 1] = Step(c.m, Powers(c)[n])
<1> DEFINE A == [Index -> 0 .. Wad]
           F == [s \in A |-> UnitStep(c.m, s)]
           P == Powers(c)
<1>1. InputOf(c) \in A /\ MatrixOK(c.m) /\ c.m \in Seq(Seq(Int))
  BY InputIsAdmissible, NoFault, ClaimsAssumption DEF Claim
<1>2. \A s \in A : UnitStep(c.m, s) = Step(c.m, s) /\ Step(c.m, s) \in A
  BY <1>1, StepIsScaled, UnitStepIsStep
<1>3. F \in [A -> A]
  BY <1>2
<1>4. PICK f \in [Nat -> A] : f = [n \in Nat |-> IF n = 0 THEN InputOf(c) ELSE F[f[n - 1]]]
  <2> HIDE DEF A, F
  <2>1. QED
    BY <1>1, <1>3, Iteration
<1>5. f = [n \in Nat |-> IF n = 0 THEN InputOf(c) ELSE UnitStep(c.m, f[n - 1])]
  <2>1. \A n \in Nat : n # 0 => F[f[n - 1]] = UnitStep(c.m, f[n - 1])
    OBVIOUS
  <2> HIDE DEF F
  <2>2. QED
    BY <1>4, <2>1
<1>6. P = [n \in Nat |-> IF n = 0 THEN InputOf(c) ELSE UnitStep(c.m, P[n - 1])]
  BY <1>5 DEF Powers
<1> HIDE DEF P
<1>7. P[0] = InputOf(c) /\ \A n \in Nat : P[n + 1] = UnitStep(c.m, P[n])
  <2>1. \A n \in Nat : n + 1 \in Nat /\ n + 1 # 0 /\ n + 1 - 1 = n
    OBVIOUS
  <2>2. QED
    BY <1>6, <2>1
<1> HIDE DEF A, F
<1>8. \A n \in Nat : P[n] \in A
  <2>1. P[0] \in A
    BY <1>1, <1>7
  <2>2. \A n \in Nat : P[n] \in A => P[n + 1] \in A
    BY <1>2, <1>7
  <2> DEFINE S == {n \in Nat : P[n] \in A}
  <2>3. 0 \in S /\ \A n \in Nat : n \in S => n + 1 \in S
    BY <2>1, <2>2
  <2> HIDE DEF S
  <2>4. \A n \in Nat : n \in S
    BY <2>3, SetInduction
  <2>5. QED
    BY <2>4 DEF S
<1>9. QED
  BY <1>2, <1>7, <1>8 DEF P

\* The loop is at the power of the iteration it has done.
VerdictInv ==
  /\ phase = "loop" => out = Powers(claim)[k]
  /\ VerdictExact

\* It holds in the beginning, and every step keeps it.
LEMMA VerdictInit == Init => VerdictInv
BY DEF Init, VerdictInv, VerdictExact

LEMMA VerdictStep == LoopInv /\ VerdictInv /\ [Next]_loopVars => VerdictInv'
<1> SUFFICES ASSUME LoopInv, VerdictInv, [Next]_loopVars PROVE VerdictInv'
  OBVIOUS
<1>1. CASE Refuse
  <2>1. claim' = claim /\ phase' = "done"
    BY <1>1 DEF Refuse
  <2>2. PICK i \in DOMAIN Order : Refuses(i, claim) /\ verdict' = Answer(Order[i], claim)
    BY <1>1 DEF Refuse
  <2>3. Faults(claim) # {}
    BY <2>2 DEF Refuses
  <2>4. VerdictExact'
    <3>1. Faults(claim') # {} /\ Refuses(i, claim') /\ verdict' = Answer(Order[i], claim')
      BY <2>1, <2>2, <2>3
    <3>2. QED
      BY <3>1 DEF VerdictExact
  <2>5. QED
    BY <2>1, <2>4 DEF VerdictInv
<1>2. CASE Admit
  <2>1. /\ Faults(claim) = {} /\ claim' = claim /\ k' = 0 /\ phase' = "loop"
        /\ out' = InputOf(claim) /\ claim \in Claims
    BY <1>2 DEF Admit, LoopInv
  <2>2. out' = Powers(claim)[k']
    BY <2>1, PowersIterate
  <2>3. QED
    BY <2>1, <2>2 DEF VerdictInv, VerdictExact
<1>3. CASE Iterate
  <2>1. /\ claim' = claim /\ k' = k + 1 /\ phase = "loop" /\ phase' = "loop"
        /\ out' = Step(claim.m, out)
    BY <1>3 DEF Iterate
  <2>2. claim \in Claims /\ Faults(claim) = {} /\ k \in Nat /\ out = Powers(claim)[k]
    BY <2>1, NMaxAssumption DEF LoopInv, TypeOK, VerdictInv
  <2>3. out' = Powers(claim)[k']
    BY <2>1, <2>2, PowersIterate
  <2>4. QED
    BY <2>1, <2>3 DEF VerdictInv, VerdictExact
<1>4. CASE Decide
  <2>1. /\ claim' = claim /\ phase = "loop" /\ phase' = "done"
        /\ verdict' = IF out = claim.sOut THEN "true" ELSE "false"
        /\ ~(k < claim.n)
    BY <1>4 DEF Decide, MoreToDo
  <2>2. claim \in Claims /\ Faults(claim) = {} /\ k \in Nat /\ k <= claim.n /\ out = Powers(claim)[k]
    BY <2>1, NMaxAssumption DEF LoopInv, TypeOK, VerdictInv
  <2>3. k = claim.n
    BY <2>1, <2>2, InputIsAdmissible
  <2>4. verdict' = Classify(claim)
    BY <2>1, <2>2, <2>3 DEF Classify, Powers
  <2>5. QED
    BY <2>1, <2>2, <2>4 DEF VerdictInv, VerdictExact
<1>5. CASE UNCHANGED loopVars
  BY <1>5 DEF loopVars, VerdictInv, VerdictExact
<1>6. QED
  BY <1>1, <1>2, <1>3, <1>4, <1>5 DEF Next

\* A claim with faults gets the answer to the first of them, in whatever order the
\* gates are asked; any other gets the verdict of the definition, by rounding stated
\* apart from the loop's, for every number of iterations.
THEOREM VerdictsAreExact == Spec => []VerdictExact
<1>1. VerdictInv => VerdictExact
  BY DEF VerdictInv
<1>2. QED
  BY <1>1, LoopInvariant, VerdictInit, VerdictStep, PTL DEF Spec

--------------------------------------------------------------------------------
(* What flooring loses.                                                      *)

\* The powers of the scale, by iteration.
LEMMA ScaleIterates ==
  /\ Scale[0] = 1
  /\ \A n \in Nat : Scale[n] \in Nat \ {0} /\ Scale[n + 1] = Wad * Scale[n]
<1> DEFINE A == Nat
           F == [x \in A |-> Wad * x]
           P == Scale
<1>1. F \in [A -> A] /\ 1 \in A
  BY WadAssumption, ProductsInNat
<1>2. PICK f \in [Nat -> A] : f = [n \in Nat |-> IF n = 0 THEN 1 ELSE F[f[n - 1]]]
  <2> HIDE DEF A, F
  <2>1. QED
    BY <1>1, Iteration
<1>3. f = [n \in Nat |-> IF n = 0 THEN 1 ELSE Wad * f[n - 1]]
  <2>1. \A n \in Nat : n # 0 => F[f[n - 1]] = Wad * f[n - 1]
    OBVIOUS
  <2> HIDE DEF F
  <2>2. QED
    BY <1>2, <2>1
<1>4. P = [n \in Nat |-> IF n = 0 THEN 1 ELSE Wad * P[n - 1]]
  BY <1>3 DEF Scale
<1> HIDE DEF P, F
<1>5. \A n \in Nat : n + 1 \in Nat /\ n + 1 # 0 /\ n + 1 - 1 = n
  OBVIOUS
<1>6. P[0] = 1 /\ \A n \in Nat : P[n + 1] = Wad * P[n]
  <2>1. \A n \in Nat : P[n] = IF n = 0 THEN 1 ELSE Wad * P[n - 1]
    BY <1>4, Zenon
  <2>2. QED
    BY <1>5, <2>1
<1> DEFINE S == {n \in Nat : P[n] \in Nat \ {0}}
<1>7. 0 \in S
  BY <1>6
<1>8. \A n \in Nat : n \in S => n + 1 \in S
  <2> SUFFICES ASSUME NEW n \in Nat, P[n] \in Nat \ {0} PROVE Wad * P[n] \in Nat \ {0}
    BY <1>6
  <2>1. QED
    BY WadAssumption
<1>9. \A n \in Nat : n \in S
  <2> HIDE DEF S
  <2>1. QED
    BY <1>7, <1>8, SetInduction
<1>10. QED
  BY <1>6, <1>9 DEF P

\* So are the exact powers of a matrix.
LEMMA ExactPowersIterate ==
  ASSUME NEW c \in Claims, Faults(c) = {}
  PROVE  /\ ExactPower(c.m, InputOf(c))[0] = InputOf(c)
         /\ \A n \in Nat : /\ ExactPower(c.m, InputOf(c))[n] \in [Index -> Nat]
                           /\ ExactPower(c.m, InputOf(c))[n + 1]
                                = Product(c.m, ExactPower(c.m, InputOf(c))[n])
<1> DEFINE A == [Index -> Nat]
           F == [s \in A |-> Product(c.m, s)]
           P == ExactPower(c.m, InputOf(c))
<1>1. InputOf(c) \in A /\ MatrixOK(c.m)
  BY InputIsAdmissible, WadAssumption
<1>2. F \in [A -> A]
  <2> SUFFICES ASSUME NEW s \in A PROVE Product(c.m, s) \in A
    OBVIOUS
  <2>1. \A i, j \in Index : c.m[i][j] \in Nat /\ s[j] \in Nat /\ c.m[i][j] * s[j] \in Nat
    BY <1>1, ProductsInNat DEF MatrixOK, VectorOK
  <2>2. QED
    BY <2>1 DEF Product, Index
<1>3. PICK f \in [Nat -> A] : f = [n \in Nat |-> IF n = 0 THEN InputOf(c) ELSE F[f[n - 1]]]
  <2> HIDE DEF A, F
  <2>1. QED
    BY <1>1, <1>2, Iteration
<1>4. f = [n \in Nat |-> IF n = 0 THEN InputOf(c) ELSE Product(c.m, f[n - 1])]
  <2>1. \A n \in Nat : n # 0 => F[f[n - 1]] = Product(c.m, f[n - 1])
    OBVIOUS
  <2> HIDE DEF F
  <2>2. QED
    BY <1>3, <2>1
<1>5. P = [n \in Nat |-> IF n = 0 THEN InputOf(c) ELSE Product(c.m, P[n - 1])]
  BY <1>4 DEF ExactPower
<1> HIDE DEF P
<1>6. \A n \in Nat : n + 1 \in Nat /\ n + 1 # 0 /\ n + 1 - 1 = n
  OBVIOUS
<1>7. P[0] = InputOf(c) /\ \A n \in Nat : P[n + 1] = Product(c.m, P[n])
  BY <1>5, <1>6
<1> DEFINE S == {n \in Nat : P[n] \in A}
<1>8. 0 \in S
  BY <1>1, <1>7
<1>9. ASSUME NEW n \in Nat, n \in S PROVE n + 1 \in S
  <2>1. P[n] \in A
    BY <1>9
  <2>2. F[P[n]] \in A /\ F[P[n]] = Product(c.m, P[n])
    <3> HIDE DEF A
    <3>1. F[P[n]] = Product(c.m, P[n])
      BY <2>1
    <3> HIDE DEF F
    <3>2. QED
      BY <1>2, <2>1, <3>1
  <2>3. P[n + 1] = Product(c.m, P[n]) /\ n + 1 \in Nat
    BY <1>7
  <2>4. QED
    BY <2>2, <2>3
<1>10. \A n \in Nat : n \in S
  <2> HIDE DEF S
  <2>1. QED
    BY <1>8, <1>9, SetInduction
<1>11. QED
  BY <1>7, <1>10 DEF P

\* One iteration floors three products: the loss of a component, in units of the scale
\* W of the vectors, grows by less than three.
LEMMA DriftOfOne ==
  ASSUME NEW r \in [Index -> Nat], Total(r) = Wad, NEW s \in [Index -> Nat],
         NEW e \in [Index -> Nat], NEW W \in Nat \ {0}, NEW n \in Nat,
         \A j \in Index : s[j] * W <= e[j] /\ e[j] <= (s[j] + 3 * n) * W,
         NEW o, o = MulDown(r[1], s[1]) + MulDown(r[2], s[2]) + MulDown(r[3], s[3]),
         NEW E, E = r[1] * e[1] + r[2] * e[2] + r[3] * e[3]
  PROVE  o * (Wad * W) <= E /\ E < (o + 3 * (n + 1)) * (Wad * W)
<1> DEFINE d == [j \in Index |-> MulDown(r[j], s[j])]
           p == [j \in Index |-> r[j] * s[j]]
           t == [j \in Index |-> r[j] * e[j]]
           P == p[1] + p[2] + p[3]
<1>1. \A j \in Index : /\ d[j] \in Nat /\ p[j] \in Nat /\ t[j] \in Nat
                       /\ Wad * d[j] <= p[j] /\ p[j] < Wad * d[j] + Wad
                       /\ p[j] * W <= t[j] /\ t[j] <= p[j] * W + r[j] * ((3 * n) * W)
  <2> SUFFICES ASSUME NEW j \in Index
               PROVE  /\ d[j] \in Nat /\ p[j] \in Nat /\ t[j] \in Nat
                      /\ Wad * d[j] <= p[j] /\ p[j] < Wad * d[j] + Wad
                      /\ p[j] * W <= t[j] /\ t[j] <= p[j] * W + r[j] * ((3 * n) * W)
    OBVIOUS
  <2>1. /\ r[j] \in Nat /\ s[j] \in Nat /\ e[j] \in Nat
        /\ s[j] * W <= e[j] /\ e[j] <= (s[j] + 3 * n) * W
    OBVIOUS
  <2>2. d[j] = MulDown(r[j], s[j]) /\ p[j] = r[j] * s[j] /\ t[j] = r[j] * e[j]
    OBVIOUS
  <2> HIDE DEF d, p, t
  <2>3. /\ s[j] * W \in Nat /\ (s[j] + 3 * n) * W \in Nat
        /\ p[j] \in Nat /\ t[j] \in Nat
    BY <2>1, <2>2, ProductsInNat
  <2>4. r[j] * (s[j] * W) <= t[j] /\ t[j] <= r[j] * ((s[j] + 3 * n) * W)
    BY <2>1, <2>2, <2>3, ProductMonotone
  <2>5. r[j] * (s[j] * W) = p[j] * W
    BY <2>1, <2>2
  <2>6. r[j] * ((s[j] + 3 * n) * W) = p[j] * W + r[j] * ((3 * n) * W)
    BY <2>1, <2>2
  <2>7. d[j] \in Nat /\ Wad * d[j] <= p[j] /\ p[j] < Wad * d[j] + Wad
    BY <2>1, <2>2, MulDownBounds
  <2>8. QED
    BY <2>3, <2>4, <2>5, <2>6, <2>7
<1>2. /\ r[1] \in Nat /\ r[2] \in Nat /\ r[3] \in Nat /\ r[1] + r[2] + r[3] = Wad
      /\ o = d[1] + d[2] + d[3] /\ E = t[1] + t[2] + t[3]
  BY DEF Index, Total
<1> HIDE DEF d, p, t
<1>3. /\ d[1] \in Nat /\ d[2] \in Nat /\ d[3] \in Nat
      /\ p[1] \in Nat /\ p[2] \in Nat /\ p[3] \in Nat
      /\ t[1] \in Nat /\ t[2] \in Nat /\ t[3] \in Nat
      /\ Wad * d[1] <= p[1] /\ Wad * d[2] <= p[2] /\ Wad * d[3] <= p[3]
      /\ p[1] < Wad * d[1] + Wad /\ p[2] < Wad * d[2] + Wad /\ p[3] < Wad * d[3] + Wad
      /\ p[1] * W <= t[1] /\ p[2] * W <= t[2] /\ p[3] * W <= t[3]
  BY <1>1 DEF Index
<1>4. /\ t[1] <= p[1] * W + r[1] * ((3 * n) * W)
      /\ t[2] <= p[2] * W + r[2] * ((3 * n) * W)
      /\ t[3] <= p[3] * W + r[3] * ((3 * n) * W)
  BY <1>1 DEF Index
<1>5. o \in Nat /\ P \in Nat /\ E \in Nat
  BY <1>2, <1>3
<1>6. Wad * o = Wad * d[1] + Wad * d[2] + Wad * d[3] /\ Wad * o \in Nat
  BY <1>2, <1>3, WadAssumption
<1>7. Wad * o <= P /\ P + 1 <= Wad * o + 3 * Wad
  BY <1>3, <1>6, WadAssumption
<1>8. P * W = p[1] * W + p[2] * W + p[3] * W
  BY <1>3
<1>9. Wad * ((3 * n) * W) = r[1] * ((3 * n) * W) + r[2] * ((3 * n) * W) + r[3] * ((3 * n) * W)
  <2> DEFINE c == (3 * n) * W
  <2>1. c \in Nat
    BY ProductsInNat
  <2> HIDE DEF c
  <2>2. (r[1] + r[2] + r[3]) * c = r[1] * c + r[2] * c + r[3] * c
    BY <1>2, <2>1
  <2>3. QED
    BY <1>2, <2>2 DEF c
<1> HIDE DEF P
<1>10. P * W <= E /\ E <= P * W + Wad * ((3 * n) * W)
  <2>1. /\ p[1] * W \in Nat /\ p[2] * W \in Nat /\ p[3] * W \in Nat
        /\ r[1] * ((3 * n) * W) \in Nat /\ r[2] * ((3 * n) * W) \in Nat
        /\ r[3] * ((3 * n) * W) \in Nat
    BY <1>2, <1>3, ProductsInNat
  <2>2. QED
    BY <1>2, <1>3, <1>4, <1>8, <1>9, <2>1
<1>11. o * (Wad * W) <= P * W
  <2>1. W * (Wad * o) <= W * P
    BY <1>5, <1>6, <1>7, ProductMonotone
  <2>2. W * (Wad * o) = o * (Wad * W) /\ W * P = P * W
    BY <1>5, WadAssumption
  <2>3. QED
    BY <2>1, <2>2
<1>12. P * W + W <= o * (Wad * W) + 3 * (Wad * W)
  <2> DEFINE x == P + 1
             y == Wad * o + 3 * Wad
  <2>0. x \in Nat /\ y \in Nat /\ x <= y
    BY <1>5, <1>6, <1>7, WadAssumption
  <2> HIDE DEF x, y
  <2>1. W * x <= W * y
    BY <2>0, ProductMonotone
  <2>2. W * x = P * W + W
    BY <1>5 DEF x
  <2>3. W * y = o * (Wad * W) + 3 * (Wad * W)
    BY <1>5, WadAssumption DEF y
  <2>4. QED
    BY <2>1, <2>2, <2>3
<1>13. (o + 3 * (n + 1)) * (Wad * W) = o * (Wad * W) + 3 * (Wad * W) + Wad * ((3 * n) * W)
  BY <1>5, WadAssumption
<1>14. P * W \in Nat /\ o * (Wad * W) \in Nat /\ 3 * (Wad * W) \in Nat /\ Wad * ((3 * n) * W) \in Nat
  BY <1>5, ProductsInNat, WadAssumption
<1>15. QED
  BY <1>5, <1>10, <1>11, <1>12, <1>13, <1>14

\* What the loop has and what exact arithmetic would have; the upper bound also where
\* nothing has been floored yet.
DriftInv ==
  phase = "loop" =>
    \A i \in Index :
      LET exact == ExactPower(claim.m, InputOf(claim))[k][i] IN
      /\ out[i] * Scale[k] <= exact
      /\ exact <= (out[i] + 3 * k) * Scale[k]

\* With the strict bound of the iterations.
Drift == DriftInv /\ DriftBounded

\* An iteration keeps both, and so does every other step.
LEMMA DriftIterate == LoopInv /\ DriftInv /\ Iterate => Drift'
<1> SUFFICES ASSUME LoopInv, DriftInv, Iterate PROVE Drift'
  OBVIOUS
<1> DEFINE m == claim.m
           e == ExactPower(m, InputOf(claim))[k]
           f == ExactPower(m, InputOf(claim))[k + 1]
           W == Scale[k]
<1>1. /\ claim' = claim /\ k' = k + 1 /\ phase = "loop" /\ phase' = "loop"
      /\ out' = Step(m, out)
  BY DEF Iterate
<1>2. /\ claim \in Claims /\ Faults(claim) = {} /\ k \in Nat /\ out \in [Index -> Nat]
      /\ MatrixOK(m) /\ m \in Seq(Seq(Int))
  BY <1>1, NMaxAssumption, InputIsAdmissible, NoFault DEF LoopInv, TypeOK, Claim
<1>3. /\ e \in [Index -> Nat] /\ f \in [Index -> Nat] /\ f = Product(m, e)
      /\ W \in Nat \ {0} /\ Scale[k + 1] \in Nat /\ Scale[k + 1] = Wad * W
  <2>1. k + 1 \in Nat
    BY <1>2
  <2>2. W \in Nat \ {0} /\ Scale[k + 1] \in Nat /\ Scale[k + 1] = Wad * W
    BY <1>2, <2>1, ScaleIterates
  <2>3. e \in [Index -> Nat] /\ f \in [Index -> Nat] /\ f = Product(m, e)
    BY <1>2, <2>1, ExactPowersIterate
  <2>4. QED
    BY <2>2, <2>3
<1>4. \A j \in Index : out[j] * W <= e[j] /\ e[j] <= (out[j] + 3 * k) * W
  BY <1>1 DEF DriftInv
<1>5. ASSUME NEW i \in Index
      PROVE  /\ out'[i] \in Nat
             /\ out'[i] * (Wad * W) <= f[i]
             /\ f[i] < (out'[i] + 3 * (k + 1)) * (Wad * W)
  <2> DEFINE r == [j \in Index |-> m[i][j]]
  <2>1. r \in [Index -> Nat] /\ Total(r) = Wad
    <3>1. VectorOK(m[i]) /\ Total(m[i]) = Wad
      BY <1>2 DEF MatrixOK, SumsToWad
    <3>2. \A j \in Index : m[i][j] \in Nat
      BY <3>1, WadAssumption DEF VectorOK
    <3>3. Total(r) = Total(m[i])
      BY DEF Total, Index
    <3>4. QED
      BY <3>1, <3>2, <3>3
  <2>2. r[1] = m[i][1] /\ r[2] = m[i][2] /\ r[3] = m[i][3]
    BY DEF Index
  <2>3. out'[i] = MulDown(r[1], out[1]) + MulDown(r[2], out[2]) + MulDown(r[3], out[3])
    BY <1>1, <2>2 DEF Step
  <2>4. f[i] = r[1] * e[1] + r[2] * e[2] + r[3] * e[3]
    BY <1>3, <2>2 DEF Product
  <2>5. out'[i] \in Nat
    BY <1>1, <1>2, StepIsVector
  <2> HIDE DEF r, e, f, W
  <2>6. QED
    BY <1>2, <1>3, <1>4, <2>1, <2>3, <2>4, <2>5, DriftOfOne
<1>6. ExactPower(claim'.m, InputOf(claim'))[k'] = f
  BY <1>1
<1>7. ASSUME NEW i \in Index
      PROVE  /\ out'[i] * Scale[k + 1] <= f[i]
             /\ f[i] < (out'[i] + 3 * (k + 1)) * Scale[k + 1]
             /\ f[i] <= (out'[i] + 3 * (k + 1)) * Scale[k + 1]
  <2> HIDE DEF f, W
  <2>1. f[i] \in Nat /\ Scale[k + 1] \in Nat /\ Scale[k + 1] = Wad * W
    BY <1>3
  <2>2. (out'[i] + 3 * (k + 1)) * Scale[k + 1] \in Nat
    BY <1>2, <1>5, <2>1, ProductsInNat
  <2>3. QED
    BY <1>5, <2>1, <2>2
<1> HIDE DEF f
<1>8. QED
  BY <1>1, <1>6, <1>7 DEF Drift, DriftInv, DriftBounded

LEMMA DriftStep == LoopInv /\ Drift /\ [Next]_loopVars => Drift'
<1> SUFFICES ASSUME LoopInv, Drift, [Next]_loopVars PROVE Drift'
  OBVIOUS
<1>1. CASE Refuse \/ Decide
  BY <1>1 DEF Refuse, Decide, Drift, DriftInv, DriftBounded
<1>2. CASE Admit
  <2>1. /\ Faults(claim) = {} /\ claim' = claim /\ k' = 0 /\ out' = InputOf(claim)
        /\ claim \in Claims
    BY <1>2 DEF Admit, LoopInv
  <2>2. InputOf(claim) \in [Index -> Nat]
    BY <2>1, InputIsAdmissible, WadAssumption
  <2>3. ExactPower(claim'.m, InputOf(claim'))[k'] = InputOf(claim)
    BY <2>1, ExactPowersIterate
  <2>4. \A i \in Index : /\ out'[i] * Scale[k'] = InputOf(claim)[i]
                         /\ (out'[i] + 3 * k') * Scale[k'] = InputOf(claim)[i]
                         /\ InputOf(claim)[i] \in Nat
    BY <2>1, <2>2, ScaleIterates
  <2>5. \A i \in Index : InputOf(claim)[i] <= InputOf(claim)[i]
    BY <2>2
  <2>6. ~(k' > 0)
    BY <2>1
  <2>7. QED
    BY <2>3, <2>4, <2>5, <2>6 DEF Drift, DriftInv, DriftBounded
<1>3. CASE Iterate
  BY <1>3, DriftIterate DEF Drift
<1>4. CASE UNCHANGED loopVars
  BY <1>4 DEF loopVars, Drift, DriftInv, DriftBounded
<1>5. QED
  BY <1>1, <1>2, <1>3, <1>4 DEF Next

\* The loop is never above the exact power of the matrix, and after k iterations less
\* than 3k units of a component below it, however many iterations there are.
THEOREM DriftIsBounded == Spec => []DriftBounded
<1>1. Init => Drift
  BY DEF Init, Drift, DriftInv, DriftBounded
<1>2. Drift => DriftBounded
  BY DEF Drift
<1>3. QED
  BY <1>1, <1>2, LoopInvariant, DriftStep, PTL DEF Spec

================================================================================
