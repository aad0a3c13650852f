-------------------------------- MODULE AltBn128 --------------------------------
(****************************************************************************)
(* The curve y^2 = x^3 + 3 over the field of P elements, whose points form  *)
(* a group of prime order N generated by (1, 2): the affine arithmetic that *)
(* goverify/main.go implements over math/big, and the derivation of the     *)
(* second generator H.  P and N are parameters, for the arithmetic does not *)
(* depend on their size, except that the square root of derive_H is a power *)
(* because P % 4 = 3; P = 19 has such a group, of order 13.  That chords    *)
(* and tangents make a group of prime order is assumed of the parameters.   *)
(****************************************************************************)
EXTENDS Integers, Sequences

CONSTANTS
  P,   \* field_modulus
  N    \* curve_order

ASSUME FieldAssumption ==
  /\ P \in Nat /\ P > 3 /\ P % 4 = 3
  /\ \A d \in 2 .. P - 1 : P % d # 0

Field == 0 .. P - 1

G == <<1, 2>>

\* The flag of the point at infinity.
Inf == <<>>

Cubic(x) == (x * x * x + 3) % P

\* The coordinates <<x, y>> are reduced and on the curve.
OnCurve(pt) ==
  pt[1] \in Field /\ pt[2] \in Field /\ (pt[2] * pt[2]) % P = Cubic(pt[1])

Point == {pt \in Field \X Field : OnCurve(pt)} \cup {Inf}

ModInverse(d) == CHOOSE i \in Field : (i * d) % P = 1

\* The third point of the line through a with slope lam that meets x, reflected.
Third(a, x, lam) ==
  LET x3 == (lam * lam - a[1] - x) % P
  IN  <<x3, (lam * (a[1] - x3) - a[2]) % P>>

Double(a) ==
  IF a = Inf \/ a[2] = 0 THEN Inf
  ELSE Third(a, a[1], 3 * a[1] * a[1] * ModInverse((2 * a[2]) % P))

Chord(a, b) == Third(a, b[1], (b[2] - a[2]) * ModInverse((b[1] - a[1]) % P))

Add(a, b) ==
  IF a = Inf THEN b
  ELSE IF b = Inf THEN a
  ELSE IF a[1] = b[1] THEN IF (a[2] + b[2]) % P = 0 THEN Inf ELSE Double(a)
  ELSE Chord(a, b)

\* What addition is applied to, also off the curve.
Affine == (Field \X Field) \cup {Inf}

\* Double and add, the lowest bit first.
Mul[j \in Nat] ==
  [a \in Affine |->
     IF j = 0 THEN Inf
     ELSE LET rest == Mul[j \div 2][Double(a)]
          IN  IF j % 2 = 1 THEN Add(rest, a) ELSE rest]

ScalarMul(k, pt) == Mul[k][pt]

\* The multiples of G with their discrete logarithms, by counting.
Multiple[k \in Nat] == IF k = 0 THEN Inf ELSE Add(Multiple[k - 1], G)
Multiples == {<<Multiple[k], k>> : k \in 0 .. N - 1}

\* Addition is a group of prime order on the points, and G generates it.
ASSUME GroupAssumption ==
  /\ N \in Nat /\ N > 1 /\ \A d \in 2 .. N - 1 : N % d # 0
  /\ \A a, b \in Point : Add(a, b) \in Point
  /\ \A a, b, c \in Point : Add(Add(a, b), c) = Add(a, Add(b, c))
  /\ \A pt \in Point : \E k \in 0 .. N - 1 : Multiple[k] = pt
  /\ \A j, k \in 0 .. N - 1 : Multiple[j] = Multiple[k] => j = k

--------------------------------------------------------------------------------
(* The second generator: the first hash that is the x of a point, with the  *)
(* even y.  hashes[i] is keccak(seed, i - 1) % P.                           *)

Power(b) ==
  LET pow[n \in Nat] == IF n = 0 THEN 1 ELSE (b * pow[n - 1]) % P IN pow

IsResidue(a) == Power(a)[(P - 1) \div 2] = 1

\* Mutant: the root is not made canonical.
EvenRoot_any(a) == Power(a)[(P + 1) \div 4]

EvenRoot(a) ==
  LET y == Power(a)[(P + 1) \div 4] IN IF y % 2 = 0 THEN y ELSE P - y

Accepted(hashes) == {i \in DOMAIN hashes : IsResidue(Cubic(hashes[i]))}

\* Defined if one of the hashes is accepted; the code gives up after 1024.
DeriveH(hashes) ==
  LET first == CHOOSE i \in Accepted(hashes) : \A j \in Accepted(hashes) : i <= j
  IN  <<hashes[first], EvenRoot(Cubic(hashes[first]))>>

================================================================================
