----------------------- MODULE ResolutionVerifiersProofs -----------------------
(****************************************************************************)
(* The verifiers of a v1 proof, for every field and group of prime order,   *)
(* every oracle, prover and submission: what they say is the equation in    *)
(* the exponents, they agree where they are meant to, what the prover makes *)
(* passes, no proof passes for two challenges, and H is the canonical point *)
(* of its seed.  Recursive functions are unfolded, and facts about them     *)
(* proved, by taking the least number for which they would fail.            *)
(****************************************************************************)
EXTENDS ResolutionVerifiers, WellFoundedInduction, TLAPS

--------------------------------------------------------------------------------
(* Remainders, and what is divided by a prime.                              *)

\* Every set of numbers has a least one: the induction of all the proofs below.
LEMMA LeastNumber ==
  ASSUME NEW T, T \subseteq Nat, T # {}
  PROVE  \E n \in T : \A m \in T : n <= m
<1> DEFINE R == OpToRel(<, Nat)
<1>1. IsWellFoundedOn(R, Nat)
  BY NatLessThanWellFounded
<1>2. \A m, n \in Nat : m < n => <<m, n>> \in R
  BY DEF OpToRel
<1> HIDE DEF R
<1>3. \E n \in T : \A m \in T : <<m, n>> \notin R
  BY <1>1, WFMin
<1>4. \A n, m \in T : <<m, n>> \notin R => n <= m
  <2> SUFFICES ASSUME NEW n \in T, NEW m \in T, <<m, n>> \notin R PROVE n <= m
    OBVIOUS
  <2>1. n \in Nat /\ m \in Nat /\ ~(m < n)
    BY <1>2
  <2>2. QED
    BY <2>1
<1>5. QED
  BY <1>3, <1>4

\* Division with remainder.
LEMMA Remainder ==
  ASSUME NEW a \in Int, NEW Q \in Nat \ {0}
  PROVE  a \div Q \in Int /\ a % Q \in 0 .. Q - 1 /\ a = Q * (a \div Q) + (a % Q)
OBVIOUS

\* A multiple of Q that is less than Q either way is 0.
LEMMA ProductSmall ==
  ASSUME NEW Q \in Nat \ {0}, NEW k \in Int, 0 - Q < Q * k, Q * k < Q
  PROVE  k = 0
<1>1. CASE k >= 1
  <2>1. Q * k >= Q
    BY <1>1
  <2>2. QED
    BY <2>1
<1>2. CASE k <= -1
  <2>1. Q * k <= Q * (-1)
    BY <1>2
  <2>2. QED
    BY <2>1
<1>3. QED
  BY <1>1, <1>2

\* There is one remainder in range.
LEMMA RemainderUnique ==
  ASSUME NEW a \in Int, NEW Q \in Nat \ {0}, NEW k \in Int, NEW r \in 0 .. Q - 1, a = Q * k + r
  PROVE  a % Q = r
<1> DEFINE d == a \div Q
           s == a % Q
<1>1. d \in Int /\ s \in 0 .. Q - 1 /\ a = Q * d + s
  BY Remainder
<1> HIDE DEF d, s
<1>2. Q * (d - k) = r - s
  <2>1. Q * (d - k) = Q * d - Q * k
    BY <1>1
  <2>2. Q * d \in Int /\ Q * k \in Int
    BY <1>1
  <2>3. QED
    BY <1>1, <2>1, <2>2
<1>3. d - k = 0
  <2>1. 0 - Q < r - s /\ r - s < Q
    BY <1>1
  <2>2. QED
    BY <1>1, <1>2, <2>1, ProductSmall
<1>4. d = k
  BY <1>1, <1>3
<1>5. Q * k \in Int
  OBVIOUS
<1>6. s = r
  BY <1>1, <1>4, <1>5
<1>7. QED
  BY <1>6 DEF s

\* Two numbers leave the same remainder when they differ by a multiple.
LEMMA SameRemainder ==
  ASSUME NEW a \in Int, NEW b \in Int, NEW Q \in Nat \ {0}, NEW k \in Int, a = b + Q * k
  PROVE  a % Q = b % Q
<1> DEFINE d == b \div Q
           s == b % Q
<1>1. d \in Int /\ s \in 0 .. Q - 1 /\ b = Q * d + s
  BY Remainder
<1> HIDE DEF s, d
<1>2. Q * (d + k) = Q * d + Q * k /\ d + k \in Int /\ Q * d \in Int /\ Q * k \in Int
  BY <1>1
<1>3. a = Q * (d + k) + s
  BY <1>1, <1>2
<1>4. a % Q = s
  BY <1>1, <1>2, <1>3, RemainderUnique
<1>5. QED
  BY <1>4 DEF s

\* Numbers with the same remainder differ by a multiple.
LEMMA MultipleApart ==
  ASSUME NEW a \in Int, NEW b \in Int, NEW Q \in Nat \ {0}, a % Q = b % Q
  PROVE  \E k \in Int : a = b + Q * k
<1> DEFINE c == a \div Q
           d == b \div Q
           r == a % Q
           s == b % Q
<1>1. c \in Int /\ r \in 0 .. Q - 1 /\ a = Q * c + r
  BY Remainder
<1>2. d \in Int /\ s \in 0 .. Q - 1 /\ b = Q * d + s
  BY Remainder
<1>3. r = s
  OBVIOUS
<1> HIDE DEF c, d, r, s
<1>4. Q * (c - d) = Q * c - Q * d /\ c - d \in Int /\ Q * c \in Int /\ Q * d \in Int
  BY <1>1, <1>2
<1>5. a = b + Q * (c - d)
  BY <1>1, <1>2, <1>3, <1>4
<1>6. QED
  BY <1>4, <1>5

\* What is in range is its own remainder.
LEMMA SmallIsItself ==
  ASSUME NEW Q \in Nat \ {0}, NEW a \in 0 .. Q - 1
  PROVE  a % Q = a
<1>1. a = Q * 0 + a
  OBVIOUS
<1>2. QED
  BY <1>1, RemainderUnique

--------------------------------------------------------------------------------
(* Congruence, and remainders that are congruent.                           *)

Cong(a, b, Q) == \E k \in Int : a = b + Q * k

Rem(a, Q) == a % Q

\* To be congruent is to leave the same remainder.
LEMMA CongIff ==
  ASSUME NEW a \in Int, NEW b \in Int, NEW Q \in Nat \ {0}
  PROVE  Cong(a, b, Q) <=> Rem(a, Q) = Rem(b, Q)
<1>1. ASSUME Cong(a, b, Q) PROVE a % Q = b % Q
  <2>1. PICK k \in Int : a = b + Q * k
    BY <1>1 DEF Cong
  <2>2. QED
    BY <2>1, SameRemainder
<1>2. ASSUME a % Q = b % Q PROVE Cong(a, b, Q)
  BY <1>2, MultipleApart DEF Cong
<1>3. QED
  BY <1>1, <1>2 DEF Rem

\* A remainder is in range.
LEMMA RemRange ==
  ASSUME NEW a \in Int, NEW Q \in Nat \ {0}
  PROVE  Rem(a, Q) \in 0 .. Q - 1
BY Remainder DEF Rem

\* A number is congruent to its remainder.
LEMMA RemCong ==
  ASSUME NEW a \in Int, NEW Q \in Nat \ {0}
  PROVE  Cong(Rem(a, Q), a, Q)
<1>1. a \div Q \in Int /\ a % Q \in 0 .. Q - 1 /\ a = Q * (a \div Q) + (a % Q)
  BY Remainder
<1> DEFINE d == a \div Q
           r == a % Q
<1>2. d \in Int /\ r \in Int /\ a = Q * d + r
  BY <1>1
<1> HIDE DEF d, r
<1>3. r = a + Q * (0 - d) /\ 0 - d \in Int
  BY <1>2
<1>4. QED
  BY <1>3 DEF Cong, Rem, r

\* What is in range is its own remainder, for the opaque operator.
LEMMA RemSmall ==
  ASSUME NEW Q \in Nat \ {0}, NEW a \in 0 .. Q - 1
  PROVE  Rem(a, Q) = a
<1>1. a = Q * 0 + a
  OBVIOUS
<1>2. QED
  BY <1>1, RemainderUnique DEF Rem

\* Congruence is reflexive,
LEMMA CongRefl ==
  ASSUME NEW a \in Int, NEW Q \in Nat
  PROVE  Cong(a, a, Q)
<1>1. a = a + Q * 0
  OBVIOUS
<1>2. QED
  BY <1>1 DEF Cong

\* symmetric
LEMMA CongSym ==
  ASSUME NEW a \in Int, NEW b \in Int, NEW Q \in Nat, Cong(a, b, Q)
  PROVE  Cong(b, a, Q)
<1>1. PICK k \in Int : a = b + Q * k
  BY DEF Cong
<1>2. b = a + Q * (0 - k) /\ 0 - k \in Int
  BY <1>1
<1>3. QED
  BY <1>2 DEF Cong

\* and transitive.
LEMMA CongTrans ==
  ASSUME NEW a \in Int, NEW b \in Int, NEW c \in Int, NEW Q \in Nat, Cong(a, b, Q), Cong(b, c, Q)
  PROVE  Cong(a, c, Q)
<1>1. PICK k \in Int : a = b + Q * k
  BY DEF Cong
<1>2. PICK l \in Int : b = c + Q * l
  BY DEF Cong
<1>3. a = c + Q * (k + l) /\ k + l \in Int
  BY <1>1, <1>2
<1>4. QED
  BY <1>3 DEF Cong

\* Sums, differences and products may be reduced before or after.
LEMMA CongOps ==
  ASSUME NEW a \in Int, NEW b \in Int, NEW c \in Int, NEW d \in Int, NEW Q \in Nat,
         Cong(a, b, Q), Cong(c, d, Q)
  PROVE  Cong(a + c, b + d, Q) /\ Cong(a - c, b - d, Q) /\ Cong(a * c, b * d, Q)
<1>1. PICK k \in Int : a = b + Q * k
  BY DEF Cong
<1>2. PICK l \in Int : c = d + Q * l
  BY DEF Cong
<1>3. a + c = (b + d) + Q * (k + l) /\ k + l \in Int
  BY <1>1, <1>2
<1>4. a - c = (b - d) + Q * (k - l) /\ k - l \in Int
  BY <1>1, <1>2
<1>5. a * c = b * d + Q * (b * l + k * d + k * l * Q) /\ b * l + k * d + k * l * Q \in Int
  BY <1>1, <1>2
<1>6. Cong(a + c, b + d, Q)
  BY <1>3 DEF Cong
<1>7. Cong(a - c, b - d, Q)
  BY <1>4 DEF Cong
<1>8. Cong(a * c, b * d, Q)
  BY <1>5 DEF Cong
<1>9. QED
  BY <1>6, <1>7, <1>8

\* Congruent numbers have congruent multiples.
LEMMA CongProduct ==
  ASSUME NEW a \in Int, NEW b \in Int, NEW c \in Int, NEW Q \in Nat, Cong(a, b, Q)
  PROVE  Cong(a * c, b * c, Q)
BY CongRefl, CongOps

\* A factor that is congruent to 1 may be dropped.
LEMMA CongOne ==
  ASSUME NEW a \in Int, NEW c \in Int, NEW Q \in Nat, Cong(a, 1, Q)
  PROVE  Cong(a * c, c, Q)
<1>1. PICK k \in Int : a = 1 + Q * k
  BY DEF Cong
<1>2. a * c = c + Q * (k * c) /\ k * c \in Int
  BY <1>1
<1>3. QED
  BY <1>2 DEF Cong

\* A multiple of what is congruent to 0 is congruent to 0.
LEMMA CongZero ==
  ASSUME NEW a \in Int, NEW c \in Int, NEW Q \in Nat, Cong(a, 0, Q)
  PROVE  Cong(a * c, 0, Q)
<1>1. PICK k \in Int : a = 0 + Q * k
  BY DEF Cong
<1>2. a * c = 0 + Q * (k * c) /\ k * c \in Int
  BY <1>1
<1>3. QED
  BY <1>2 DEF Cong

IsPrime(Q) == Q \in Nat /\ Q > 1 /\ \A d \in 2 .. Q - 1 : Q % d # 0

\* What is not 0 modulo a prime has an inverse: the least remainder that a multiple
\* of it leaves is 1, for another would divide the prime.
LEMMA InverseExists ==
  ASSUME NEW Q \in Nat, IsPrime(Q), NEW d \in 1 .. Q - 1
  PROVE  \E i \in 0 .. Q - 1 : Cong(i * d, 1, Q)
<1> DEFINE T == {n \in 1 .. Q - 1 : \E i \in Int, k \in Int : n = i * d + Q * k}
<1>1. d \in T
  <2>1. d = 1 * d + Q * 0 /\ 1 \in Int /\ 0 \in Int
    OBVIOUS
  <2>2. QED
    BY <2>1
<1>2. PICK m \in T : \A n \in T : m <= n
  <2>0. T \subseteq 1 .. Q - 1
    OBVIOUS
  <2> HIDE DEF T
  <2>1. T \subseteq Nat /\ T # {}
    BY <1>1, <2>0
  <2>2. QED
    BY <2>1, LeastNumber
<1>3. PICK i \in Int, k \in Int : m = i * d + Q * k
  BY <1>2
<1>4. m \in 1 .. Q - 1
  BY <1>2
<1>5. m = 1
  <2> SUFFICES ASSUME m # 1 PROVE FALSE
    OBVIOUS
  <2> DEFINE q == Q \div m
             r == Q % m
  <2>1. q \in Int /\ r \in 0 .. m - 1 /\ Q = m * q + r
    BY <1>4, Remainder
  <2>2. r # 0
    BY <1>4 DEF IsPrime
  <2> HIDE DEF q, r
  <2>3. m * q = (i * q) * d + Q * (k * q)
    BY <1>3, <2>1
  <2>4. r = (0 - i * q) * d + Q * (1 - k * q) /\ 0 - i * q \in Int /\ 1 - k * q \in Int
    BY <1>3, <2>1, <2>3
  <2>5. r \in 1 .. Q - 1 /\ r < m
    BY <1>4, <2>1, <2>2
  <2>6. r \in T
    BY <2>4, <2>5
  <2> HIDE DEF T
  <2>7. m <= r
    BY <1>2, <2>6
  <2>8. QED
    BY <1>4, <2>5, <2>7
<1> HIDE DEF T
<1>6. Q \in Nat \ {0}
  OBVIOUS
<1> DEFINE j == Rem(i, Q)
<1>7. j \in 0 .. Q - 1 /\ Cong(j, i, Q)
  BY <1>6, RemRange, RemCong
<1> HIDE DEF j
<1>8. Cong(i * d, 1, Q)
  <2>1. i * d = 1 + Q * (0 - k) /\ 0 - k \in Int
    BY <1>3, <1>5
  <2>2. QED
    BY <2>1 DEF Cong
<1>9. Cong(j * d, 1, Q)
  <2>1. Cong(j * d, i * d, Q)
    <3>1. j \in Int /\ d \in Int
      BY <1>7
    <3>2. QED
      BY <1>7, <3>1, CongProduct
  <2>2. j * d \in Int /\ i * d \in Int
    BY <1>7
  <2>3. QED
    BY <1>8, <2>1, <2>2, CongTrans
<1>10. QED
  BY <1>7, <1>9

\* A product is 0 modulo a prime only if a factor is.
LEMMA Cancel ==
  ASSUME NEW Q \in Nat \ {0}, IsPrime(Q), NEW a \in Int, NEW b \in Int, Cong(a * b, 0, Q), ~Cong(b, 0, Q)
  PROVE  Cong(a, 0, Q)
<1> DEFINE d == Rem(b, Q)
<1>1. d \in 0 .. Q - 1 /\ Cong(d, b, Q)
  BY RemRange, RemCong
<1> HIDE DEF d
<1>2. d # 0
  BY <1>1, CongSym
<1>3. d \in 1 .. Q - 1 /\ Q \in Nat
  BY <1>1, <1>2
<1>4. PICK i \in 0 .. Q - 1 : Cong(i * d, 1, Q)
  BY <1>3, InverseExists
<1> DEFINE y == i * d
           z == d * a
<1>5. i \in Int /\ d \in Int /\ y \in Int /\ z \in Int /\ z = a * d /\ y * a = z * i
  BY <1>1
<1>6. Cong(y, 1, Q)
  BY <1>4
<1>7. Cong(z, 0, Q)
  <2>1. Cong(d * a, b * a, Q)
    BY <1>1, <1>5, CongProduct
  <2>2. b * a = a * b /\ a * b \in Int
    OBVIOUS
  <2>3. QED
    BY <1>5, <2>1, <2>2, CongTrans
<1> HIDE DEF y, z
<1>8. Cong(y * a, a, Q)
  BY <1>5, <1>6, CongOne
<1>9. Cong(z * i, 0, Q)
  BY <1>5, <1>7, CongZero
<1> DEFINE x == y * a
<1>10. x \in Int /\ Cong(x, 0, Q) /\ Cong(x, a, Q)
  BY <1>5, <1>8, <1>9
<1> HIDE DEF x
<1>11. QED
  BY <1>10, CongSym, CongTrans

--------------------------------------------------------------------------------
(* Recursion over the numbers.                                              *)

\* The first n + 1 values of what is defined by F from the value at a number below.
Run(A, s, q, F, n) ==
  {g \in [0 .. n -> A] : \A i \in 0 .. n : g[i] = IF i = 0 THEN s ELSE F[i][g[q[i]]]}

\* Two runs of a recursion agree where both are defined.
LEMMA RunsAgree ==
  ASSUME NEW A, NEW s, NEW q \in [Nat -> Nat], \A n \in Nat \ {0} : q[n] < n, NEW F,
         NEW n \in Nat, NEW l \in Nat, NEW g \in Run(A, s, q, F, n), NEW h \in Run(A, s, q, F, l)
  PROVE  \A i \in Nat : i <= n /\ i <= l => g[i] = h[i]
<1> DEFINE T == {i \in Nat : i <= n /\ i <= l /\ g[i] # h[i]}
<1> SUFFICES ASSUME T # {} PROVE FALSE
  OBVIOUS
<1>1. PICK i \in T : \A j \in T : i <= j
  <2>1. T \subseteq Nat /\ T # {}
    OBVIOUS
  <2> HIDE DEF T
  <2>2. QED
    BY <2>1, LeastNumber
<1>2. i \in 0 .. n /\ i \in 0 .. l /\ g[i] # h[i]
  OBVIOUS
<1>3. i # 0
  BY <1>2 DEF Run
<1>4. q[i] \in Nat /\ q[i] < i
  BY <1>3
<1>5. q[i] \notin T
  BY <1>1, <1>4
<1>6. g[q[i]] = h[q[i]]
  BY <1>2, <1>4, <1>5
<1>7. g[i] = F[i][g[q[i]]] /\ h[i] = F[i][h[q[i]]]
  BY <1>2, <1>3 DEF Run
<1>8. QED
  BY <1>2, <1>6, <1>7

\* A recursion can be run as far as one likes.
LEMMA RunsExist ==
  ASSUME NEW A, NEW s \in A, NEW q \in [Nat -> Nat], \A n \in Nat \ {0} : q[n] < n,
         NEW F \in [Nat -> [A -> A]], NEW n \in Nat
  PROVE  Run(A, s, q, F, n) # {}
<1> DEFINE T == {i \in Nat : Run(A, s, q, F, i) = {}}
<1> SUFFICES ASSUME T # {} PROVE FALSE
  OBVIOUS
<1>1. PICK m \in T : \A j \in T : m <= j
  <2>1. T \subseteq Nat /\ T # {}
    OBVIOUS
  <2> HIDE DEF T
  <2>2. QED
    BY <2>1, LeastNumber
<1>2. m \in Nat /\ Run(A, s, q, F, m) = {}
  OBVIOUS
<1>3. CASE m = 0
  <2>1. [i \in 0 .. 0 |-> s] \in Run(A, s, q, F, 0)
    BY DEF Run
  <2>2. QED
    BY <1>2, <1>3, <2>1
<1>4. CASE m # 0
  <2>1. m - 1 \in Nat /\ ~(m <= m - 1)
    BY <1>2, <1>4
  <2>2. PICK g : g \in Run(A, s, q, F, m - 1)
    BY <1>1, <2>1
  <2>3. g \in [0 .. m - 1 -> A] /\ \A i \in 0 .. m - 1 : g[i] = IF i = 0 THEN s ELSE F[i][g[q[i]]]
    BY <2>2 DEF Run
  <2>4. q[m] \in 0 .. m - 1
    BY <1>2, <1>4
  <2> DEFINE h == [i \in 0 .. m |-> IF i = m THEN F[m][g[q[m]]] ELSE g[i]]
  <2>5. h \in [0 .. m -> A]
    <3>1. F[m][g[q[m]]] \in A
      BY <1>2, <2>3, <2>4
    <3>2. \A i \in 0 .. m : i # m => i \in 0 .. m - 1
      BY <1>2
    <3>3. QED
      BY <2>3, <3>1, <3>2
  <2>6. ASSUME NEW i \in 0 .. m PROVE h[i] = IF i = 0 THEN s ELSE F[i][h[q[i]]]
    <3>1. CASE i = m
      <4>1. h[q[m]] = g[q[m]]
        BY <1>2, <2>4
      <4>2. QED
        BY <1>4, <3>1, <4>1
    <3>2. CASE i # m
      <4>1. i \in 0 .. m - 1 /\ h[i] = g[i]
        BY <1>2, <3>2
      <4>2. CASE i = 0
        BY <2>3, <4>1, <4>2
      <4>3. CASE i # 0
        <5>1. q[i] \in 0 .. m - 1 /\ q[i] # m /\ q[i] \in 0 .. m
          BY <1>2, <4>1, <4>3
        <5>2. h[q[i]] = g[q[i]]
          BY <5>1
        <5> HIDE DEF h
        <5>3. QED
          BY <2>3, <4>1, <4>3, <5>2
      <4>4. QED
        BY <4>2, <4>3
    <3>3. QED
      BY <3>1, <3>2
  <2> HIDE DEF h
  <2>7. h \in Run(A, s, q, F, m)
    BY <2>5, <2>6 DEF Run
  <2>8. QED
    BY <1>2, <2>7
<1>5. QED
  BY <1>3, <1>4

Solutions(A, s, q, F) ==
  {f \in [Nat -> A] : \A n \in Nat : f[n] = IF n = 0 THEN s ELSE F[n][f[q[n]]]}

\* A function on the numbers may be defined from its value at a number below.
LEMMA Recursion ==
  ASSUME NEW A, NEW s \in A, NEW q \in [Nat -> Nat], \A n \in Nat \ {0} : q[n] < n,
         NEW F \in [Nat -> [A -> A]]
  PROVE  Solutions(A, s, q, F) # {}
<1> DEFINE R(n) == CHOOSE g : g \in Run(A, s, q, F, n)
           f == [n \in Nat |-> R(n)[n]]
<1>1. \A n \in Nat : R(n) \in Run(A, s, q, F, n)
  <2>1. \A n \in Nat : Run(A, s, q, F, n) # {}
    BY RunsExist
  <2>2. QED
    BY <2>1
<1> HIDE DEF R
<1>2. \A n \in Nat : f[n] \in A
  BY <1>1 DEF Run
<1>3. f \in [Nat -> A]
  BY <1>2
<1>4. ASSUME NEW n \in Nat PROVE f[n] = IF n = 0 THEN s ELSE F[n][f[q[n]]]
  <2>1. CASE n = 0
    <3>1. R(n) \in Run(A, s, q, F, n) /\ n \in 0 .. n
      BY <1>1
    <3>2. QED
      BY <2>1, <3>1 DEF Run
  <2>2. CASE n # 0
    <3>1. q[n] \in Nat /\ q[n] <= n /\ n \in 0 .. n
      BY <2>2
    <3>2. R(q[n])[q[n]] = R(n)[q[n]]
      <4> DEFINE l == q[n]
                 g == R(l)
                 h == R(n)
      <4>1. l \in Nat /\ l <= n /\ g \in Run(A, s, q, F, l) /\ h \in Run(A, s, q, F, n)
        BY <1>1, <3>1
      <4> HIDE DEF l, g, h
      <4>2. \A i \in Nat : i <= l /\ i <= n => g[i] = h[i]
        BY <4>1, RunsAgree
      <4>3. g[l] = h[l]
        BY <4>1, <4>2
      <4>4. QED
        BY <4>3 DEF g, h, l
    <3>3. R(n)[n] = F[n][R(n)[q[n]]]
      BY <1>1, <2>2, <3>1 DEF Run
    <3>4. QED
      BY <2>2, <3>1, <3>2, <3>3
  <2>3. QED
    BY <2>1, <2>2
<1> HIDE DEF f
<1>5. f \in Solutions(A, s, q, F)
  BY <1>3, <1>4 DEF Solutions
<1>6. QED
  BY <1>5

--------------------------------------------------------------------------------
(* The arithmetic of points.                                                *)

\* What the proofs use of the field: its modulus is an odd prime above 3.
LEMMA FieldFacts ==
  /\ P \in Nat \ {0} /\ P >= 7 /\ IsPrime(P)
  /\ \A y \in Field : 2 * y # P
  /\ 0 \in Field /\ 1 \in Field /\ 2 \in Field
<1>1. P >= 7
  <2>1. P # 4 /\ P # 5 /\ P # 6
    BY FieldAssumption
  <2>2. QED
    BY <2>1, FieldAssumption
<1>2. \A y \in Nat : 2 * y # P
  BY FieldAssumption
<1>3. QED
  BY <1>1, <1>2, FieldAssumption DEF IsPrime, Field

\* ModInverse finds an inverse of whatever is not 0.
LEMMA InverseInField ==
  ASSUME NEW d \in Field, d # 0
  PROVE  ModInverse(d) \in Field /\ (ModInverse(d) * d) % P = 1
<1>1. \E i \in Field : (i * d) % P = 1
  <2>1. d \in 1 .. P - 1 /\ d \in Int /\ 1 \in 0 .. P - 1
    BY FieldFacts DEF Field
  <2>2. PICK i \in 0 .. P - 1 : Cong(i * d, 1, P)
    BY <2>1, InverseExists, FieldFacts
  <2>3. i * d \in Int
    BY <2>1
  <2>4. Rem(i * d, P) = 1
    BY <2>1, <2>2, <2>3, CongIff, RemSmall, FieldFacts
  <2>5. QED
    BY <2>4 DEF Rem, Field
<1>2. QED
  BY <1>1 DEF ModInverse

\* A reduced number is in the field.
LEMMA InField ==
  ASSUME NEW a \in Int
  PROVE  a % P \in Field
BY Remainder, FieldFacts DEF Field

\* The third point of a line has reduced coordinates.
LEMMA ThirdInField ==
  ASSUME NEW a \in Field \X Field, NEW x \in Field, NEW lam \in Int
  PROVE  Third(a, x, lam) \in Field \X Field
<1>1. a[1] \in Int /\ a[2] \in Int /\ x \in Int
  BY FieldFacts DEF Field
<1> DEFINE x3 == (lam * lam - a[1] - x) % P
<1>2. lam * lam \in Int /\ lam * lam - a[1] - x \in Int
  BY <1>1
<1>3. x3 \in Field
  BY <1>2, InField
<1>4. x3 \in Int
  BY <1>3, FieldFacts DEF Field
<1> HIDE DEF x3
<1>5. lam * (a[1] - x3) - a[2] \in Int
  BY <1>1, <1>4
<1>6. (lam * (a[1] - x3) - a[2]) % P \in Field
  BY <1>5, InField
<1>7. QED
  BY <1>3, <1>6 DEF Third, x3

\* The flag of the identity is not a pair of coordinates.
LEMMA InfIsNoPair == Inf \notin Field \X Field
BY DEF Inf

\* The denominator of a tangent is not 0.
LEMMA NonZero ==
  ASSUME NEW y \in Field, y # 0
  PROVE  (2 * y) % P \in Field \ {0}
<1>1. y \in 1 .. P - 1 /\ 2 * y # P /\ 2 * y \in Int
  BY FieldFacts DEF Field
<1>2. CASE 2 * y < P
  <2> DEFINE x == 2 * y
  <2>1. x \in 0 .. P - 1 /\ x # 0
    BY <1>1, <1>2, FieldFacts
  <2> HIDE DEF x
  <2>2. x % P = x
    BY <2>1, FieldFacts, SmallIsItself
  <2>3. x % P \in Field \ {0}
    BY <2>1, <2>2 DEF Field
  <2>4. QED
    BY <2>3 DEF x
<1>3. CASE 2 * y > P
  <2>1. 2 * y = P * 1 + (2 * y - P) /\ 2 * y - P \in 0 .. P - 1 /\ 2 * y - P # 0
    BY <1>1, <1>3, FieldFacts
  <2>2. (2 * y) % P = 2 * y - P
    BY <1>1, <2>1, FieldFacts, RemainderUnique
  <2>3. QED
    BY <2>1, <2>2 DEF Field
<1>4. QED
  BY <1>1, <1>2, <1>3, FieldFacts

\* The denominator of a chord is not 0.
LEMMA NonZeroDifference ==
  ASSUME NEW x \in Field, NEW y \in Field, x # y
  PROVE  (x - y) % P \in Field \ {0}
<1>1. x \in 0 .. P - 1 /\ y \in 0 .. P - 1 /\ x - y \in Int
  BY FieldFacts DEF Field
<1>2. CASE x > y
  <2>1. x - y \in 0 .. P - 1 /\ x - y # 0
    BY <1>1, <1>2, FieldFacts
  <2>2. QED
    BY <2>1, FieldFacts, SmallIsItself DEF Field
<1>3. CASE x < y
  <2>1. x - y = P * (-1) + (x - y + P) /\ x - y + P \in 0 .. P - 1 /\ x - y + P # 0
    BY <1>1, <1>3, FieldFacts
  <2>2. (x - y) % P = x - y + P
    BY <1>1, <2>1, FieldFacts, RemainderUnique
  <2>3. QED
    BY <2>1, <2>2 DEF Field
<1>4. QED
  BY <1>1, <1>2, <1>3

\* Doubling stays within the reduced pairs and the identity.
LEMMA DoubleIsAffine ==
  ASSUME NEW a \in Affine
  PROVE  Double(a) \in Affine
<1>1. CASE a = Inf \/ a[2] = 0
  BY <1>1 DEF Double, Affine
<1>2. CASE a # Inf /\ a[2] # 0
  <2>1. a \in Field \X Field /\ a[1] \in Field /\ a[2] \in Field
    BY <1>2 DEF Affine
  <2> DEFINE i == ModInverse((2 * a[2]) % P)
  <2>2. i \in Int
    <3>1. (2 * a[2]) % P \in Field \ {0}
      BY <1>2, <2>1, NonZero
    <3>2. QED
      BY <3>1, InverseInField, FieldFacts DEF Field
  <2> HIDE DEF i
  <2>3. 3 * a[1] * a[1] * i \in Int
    <3>1. a[1] \in Int
      BY <2>1, FieldFacts DEF Field
    <3>2. QED
      BY <2>2, <3>1
  <2>4. Third(a, a[1], 3 * a[1] * a[1] * i) \in Field \X Field
    BY <2>1, <2>3, ThirdInField
  <2>5. QED
    BY <1>2, <2>4 DEF Double, Affine, i
<1>3. QED
  BY <1>1, <1>2

\* So does addition, even off the curve.
LEMMA AddIsAffine ==
  ASSUME NEW a \in Affine, NEW b \in Affine
  PROVE  Add(a, b) \in Affine
<1>1. CASE a = Inf \/ b = Inf
  BY <1>1 DEF Add
<1>2. CASE a # Inf /\ b # Inf /\ a[1] = b[1]
  <2>1. Inf \in Affine /\ Double(a) \in Affine
    BY DoubleIsAffine DEF Affine
  <2>2. QED
    BY <1>2, <2>1 DEF Add
<1>3. CASE a # Inf /\ b # Inf /\ a[1] # b[1]
  <2>1. /\ a \in Field \X Field /\ a[1] \in Field /\ a[2] \in Field
        /\ b \in Field \X Field /\ b[1] \in Field /\ b[2] \in Field
    BY <1>3 DEF Affine
  <2> DEFINE i == ModInverse((b[1] - a[1]) % P)
  <2>2. i \in Int
    <3>1. (b[1] - a[1]) % P \in Field \ {0}
      BY <1>3, <2>1, NonZeroDifference
    <3>2. QED
      BY <3>1, InverseInField, FieldFacts DEF Field
  <2> HIDE DEF i
  <2>3. (b[2] - a[2]) * i \in Int
    <3>1. a[2] \in Int /\ b[2] \in Int
      BY <2>1, FieldFacts DEF Field
    <3>2. QED
      BY <2>2, <3>1
  <2>4. Third(a, b[1], (b[2] - a[2]) * i) \in Field \X Field
    BY <2>1, <2>3, ThirdInField
  <2>5. QED
    BY <1>3, <2>4 DEF Add, Chord, Affine, i
<1>4. QED
  BY <1>1, <1>2, <1>3

\* Adding a point to itself is doubling it.
LEMMA DoubleIsSum ==
  ASSUME NEW a \in Affine
  PROVE  Double(a) = Add(a, a)
<1>1. CASE a = Inf
  BY <1>1 DEF Double, Add
<1>2. CASE a # Inf /\ a[2] = 0
  <2>1. (a[2] + a[2]) % P = 0
    BY <1>2, FieldFacts, SmallIsItself
  <2>2. QED
    BY <1>2, <2>1 DEF Double, Add
<1>3. CASE a # Inf /\ a[2] # 0
  <2>1. a[2] \in Field /\ a[2] \in Int
    BY <1>3, FieldFacts DEF Affine, Field
  <2>2. (2 * a[2]) % P # 0
    BY <1>3, <2>1, NonZero
  <2>3. a[2] + a[2] = 2 * a[2]
    BY <2>1
  <2>4. QED
    BY <1>3, <2>2, <2>3 DEF Add
<1>4. QED
  BY <1>1, <1>2, <1>3

--------------------------------------------------------------------------------
(* Double and add, and the multiples of the generator.                      *)

\* The recursion of double and add reaches its end.
LEMMA MulUnfolds ==
  ASSUME NEW j \in Nat, NEW a \in Affine
  PROVE  /\ Mul[j][a] \in Affine
         /\ j = 0 => Mul[j][a] = Inf
         /\ j # 0 => Mul[j][a] = IF j % 2 = 1 THEN Add(Mul[j \div 2][Double(a)], a)
                                 ELSE Mul[j \div 2][Double(a)]
<1> DEFINE A == [Affine -> Affine]
           s == [x \in Affine |-> Inf]
           q == [n \in Nat |-> n \div 2]
           Above(n, g) == [x \in Affine |-> IF n % 2 = 1 THEN Add(g[Double(x)], x) ELSE g[Double(x)]]
           F == [n \in Nat |-> [g \in A |-> Above(n, g)]]
           M == Mul
<1>1. s \in A
  BY DEF Affine
<1>2. q \in [Nat -> Nat] /\ \A n \in Nat \ {0} : q[n] < n
  OBVIOUS
<1>3. ASSUME NEW n \in Nat, NEW g \in A PROVE Above(n, g) \in A
  <2> SUFFICES ASSUME NEW x \in Affine
               PROVE  (IF n % 2 = 1 THEN Add(g[Double(x)], x) ELSE g[Double(x)]) \in Affine
    OBVIOUS
  <2>1. g[Double(x)] \in Affine
    BY DoubleIsAffine
  <2>2. QED
    BY <2>1, AddIsAffine
<1>4. F \in [Nat -> [A -> A]] /\ \A n \in Nat, g \in A : F[n][g] = Above(n, g)
  <2> HIDE DEF Above, A
  <2>1. QED
    BY <1>3
<1>5. PICK f \in [Nat -> A] : \A n \in Nat : f[n] = IF n = 0 THEN s ELSE F[n][f[q[n]]]
  <2> HIDE DEF A, F, q, s
  <2>1. s \in A
    BY <1>1
  <2>2. q \in [Nat -> Nat]
    BY <1>2
  <2>3. \A n \in Nat \ {0} : q[n] < n
    BY <1>2
  <2>4. F \in [Nat -> [A -> A]]
    BY <1>4
  <2>5. Solutions(A, s, q, F) # {}
    BY <2>1, <2>2, <2>3, <2>4, Recursion
  <2>6. QED
    BY <2>5 DEF Solutions
<1>6. ASSUME NEW n \in Nat
      PROVE  f[n] = [x \in Affine |->
               IF n = 0 THEN Inf
               ELSE IF n % 2 = 1 THEN Add(f[n \div 2][Double(x)], x) ELSE f[n \div 2][Double(x)]]
  <2>1. CASE n = 0
    <3>1. f[n] = s
      BY <1>5, <2>1
    <3>2. QED
      BY <2>1, <3>1
  <2>2. CASE n # 0
    <3>1. n \div 2 \in Nat /\ f[n \div 2] \in A /\ q[n] = n \div 2
      OBVIOUS
    <3>2. f[n] = Above(n, f[n \div 2])
      <4> HIDE DEF Above, F, A, q
      <4>1. QED
        BY <1>4, <1>5, <2>2, <3>1
    <3>3. QED
      BY <2>2, <3>2
  <2>3. QED
    BY <2>1, <2>2
<1>7. f = [n \in Nat |-> [x \in Affine |->
               IF n = 0 THEN Inf
               ELSE IF n % 2 = 1 THEN Add(f[n \div 2][Double(x)], x) ELSE f[n \div 2][Double(x)]]]
  <2>1. f = [n \in Nat |-> f[n]]
    OBVIOUS
  <2>2. QED
    BY <1>6, <2>1
<1>8. M = [n \in Nat |-> [x \in Affine |->
               IF n = 0 THEN Inf
               ELSE IF n % 2 = 1 THEN Add(M[n \div 2][Double(x)], x) ELSE M[n \div 2][Double(x)]]]
  BY <1>7, Zenon DEF Mul
<1> HIDE DEF M
<1>9. ASSUME NEW n \in Nat, NEW x \in Affine
      PROVE  M[n][x] = IF n = 0 THEN Inf
               ELSE IF n % 2 = 1 THEN Add(M[n \div 2][Double(x)], x) ELSE M[n \div 2][Double(x)]
  <2>1. M[n] = [y \in Affine |->
               IF n = 0 THEN Inf
               ELSE IF n % 2 = 1 THEN Add(M[n \div 2][Double(y)], y) ELSE M[n \div 2][Double(y)]]
    BY <1>8, Zenon
  <2>2. QED
    BY <2>1, Zenon
<1> DEFINE T == {n \in Nat : \E x \in Affine : M[n][x] \notin Affine}
<1>10. T = {}
  <2> SUFFICES ASSUME T # {} PROVE FALSE
    OBVIOUS
  <2>1. PICK n \in T : \A m \in T : n <= m
    <3>1. T \subseteq Nat
      OBVIOUS
    <3> HIDE DEF T
    <3>2. QED
      BY <3>1, LeastNumber
  <2>2. PICK x \in Affine : M[n][x] \notin Affine
    OBVIOUS
  <2>3. n # 0
    BY <1>9, <2>2 DEF Affine
  <2>4. n \div 2 \in Nat /\ ~(n <= n \div 2)
    BY <2>3
  <2>5. M[n \div 2][Double(x)] \in Affine
    BY <2>1, <2>4, DoubleIsAffine
  <2>6. QED
    BY <1>9, <2>2, <2>3, <2>5, AddIsAffine
<1>11. M[j][a] \in Affine
  BY <1>10
<1>12. QED
  BY <1>9, <1>11 DEF M

\* The generator is on the curve.
LEMMA GeneratorIsPoint == G \in Point /\ Inf \in Point /\ Point \subseteq Affine
<1>1. 4 % P = 4 /\ 1 \in Field /\ 2 \in Field
  BY FieldFacts, SmallIsItself
<1>2. OnCurve(<<1, 2>>)
  BY <1>1 DEF OnCurve, Cubic
<1>3. QED
  BY <1>1, <1>2 DEF Point, G, Affine

\* Sums of points are points.
LEMMA AddIsPoint ==
  ASSUME NEW a \in Point, NEW b \in Point
  PROVE  Add(a, b) \in Point
BY GroupAssumption, Zenon

\* Addition of points is associative.
LEMMA AddAssociates ==
  ASSUME NEW a \in Point, NEW b \in Point, NEW c \in Point
  PROVE  Add(Add(a, b), c) = Add(a, Add(b, c))
BY GroupAssumption, Zenon

\* The recursion of the multiples reaches its end.
LEMMA MultipleUnfolds ==
  /\ Multiple[0] = Inf
  /\ \A k \in Nat : Multiple[k] \in Point /\ Multiple[k + 1] = Add(Multiple[k], G)
<1> DEFINE A == Point
           q == [n \in Nat |-> IF n = 0 THEN 0 ELSE n - 1]
           F == [n \in Nat |-> [g \in A |-> Add(g, G)]]
           M == Multiple
<1>1. Inf \in A
  BY GeneratorIsPoint
<1>2. q \in [Nat -> Nat] /\ \A n \in Nat \ {0} : q[n] < n
  OBVIOUS
<1>3. F \in [Nat -> [A -> A]] /\ \A n \in Nat, g \in A : F[n][g] = Add(g, G)
  BY GeneratorIsPoint, AddIsPoint
<1>4. PICK f \in [Nat -> A] : \A n \in Nat : f[n] = IF n = 0 THEN Inf ELSE F[n][f[q[n]]]
  <2> HIDE DEF A, F, q
  <2>1. Inf \in A
    BY <1>1
  <2>2. q \in [Nat -> Nat]
    BY <1>2
  <2>3. \A n \in Nat \ {0} : q[n] < n
    BY <1>2
  <2>4. F \in [Nat -> [A -> A]]
    BY <1>3
  <2>5. Solutions(A, Inf, q, F) # {}
    BY <2>1, <2>2, <2>3, <2>4, Recursion
  <2>6. QED
    BY <2>5 DEF Solutions
<1>5. ASSUME NEW n \in Nat PROVE f[n] = IF n = 0 THEN Inf ELSE Add(f[n - 1], G)
  <2>1. CASE n = 0
    BY <1>4, <2>1
  <2>2. CASE n # 0
    <3>1. n - 1 \in Nat /\ f[n - 1] \in A /\ q[n] = n - 1
      BY <2>2
    <3> HIDE DEF F, A, q
    <3>2. QED
      BY <1>3, <1>4, <2>2, <3>1
  <2>3. QED
    BY <2>1, <2>2
<1>6. f = [n \in Nat |-> IF n = 0 THEN Inf ELSE Add(f[n - 1], G)]
  <2>1. f = [n \in Nat |-> f[n]]
    OBVIOUS
  <2>2. QED
    BY <1>5, <2>1
<1>7. M = [n \in Nat |-> IF n = 0 THEN Inf ELSE Add(M[n - 1], G)]
  BY <1>6, Zenon DEF Multiple
<1> HIDE DEF M
<1>8. ASSUME NEW n \in Nat PROVE M[n] = IF n = 0 THEN Inf ELSE Add(M[n - 1], G)
  BY <1>7, Zenon
<1> DEFINE T == {n \in Nat : M[n] \notin Point}
<1>9. T = {}
  <2> SUFFICES ASSUME T # {} PROVE FALSE
    OBVIOUS
  <2>1. PICK n \in T : \A m \in T : n <= m
    <3>1. T \subseteq Nat
      OBVIOUS
    <3> HIDE DEF T
    <3>2. QED
      BY <3>1, LeastNumber
  <2>2. n # 0
    BY <1>8, GeneratorIsPoint
  <2>3. n - 1 \in Nat /\ ~(n <= n - 1)
    BY <2>2
  <2>4. M[n - 1] \in Point
    BY <2>1, <2>3
  <2>5. QED
    BY <1>8, <2>2, <2>4, GeneratorIsPoint, AddIsPoint
<1>10. ASSUME NEW k \in Nat PROVE M[k] \in Point /\ M[k + 1] = Add(M[k], G)
  <2>1. M[k] \in Point
    BY <1>9
  <2>2. k + 1 \in Nat /\ k + 1 # 0 /\ k + 1 - 1 = k
    OBVIOUS
  <2>3. QED
    BY <1>8, <2>1, <2>2
<1>11. M[0] = Inf
  BY <1>8
<1>12. QED
  BY <1>10, <1>11 DEF M

\* Sums of multiples.
LEMMA MultiplesAdd ==
  ASSUME NEW j \in Nat, NEW k \in Nat
  PROVE  Add(Multiple[j], Multiple[k]) = Multiple[j + k]
<1> DEFINE T == {n \in Nat : Add(Multiple[j], Multiple[n]) # Multiple[j + n]}
<1>1. T = {}
  <2> SUFFICES ASSUME T # {} PROVE FALSE
    OBVIOUS
  <2>1. PICK n \in T : \A m \in T : n <= m
    <3>1. T \subseteq Nat
      OBVIOUS
    <3> HIDE DEF T
    <3>2. QED
      BY <3>1, LeastNumber
  <2>2. n # 0
    BY MultipleUnfolds, GeneratorIsPoint DEF Add
  <2>3. n - 1 \in Nat /\ ~(n <= n - 1) /\ (n - 1) + 1 = n /\ (j + (n - 1)) + 1 = j + n /\ j + (n - 1) \in Nat
    BY <2>2
  <2> DEFINE m == n - 1
             l == j + m
  <2>4. Add(Multiple[j], Multiple[m]) = Multiple[l]
    BY <2>1, <2>3
  <2>5. m \in Nat /\ m + 1 = n /\ l + 1 = j + n /\ l \in Nat
    BY <2>3
  <2> HIDE DEF m, l
  <2>6. Multiple[n] = Add(Multiple[m], G) /\ Multiple[j + n] = Add(Multiple[l], G)
    BY <2>5, MultipleUnfolds
  <2>7. Add(Multiple[j], Add(Multiple[m], G)) = Add(Add(Multiple[j], Multiple[m]), G)
    BY <2>5, MultipleUnfolds, GeneratorIsPoint, AddAssociates
  <2>8. QED
    BY <2>4, <2>6, <2>7
<1>2. QED
  BY <1>1

\* Double and add computes the multiples.
LEMMA ScalarMulIsMultiple ==
  ASSUME NEW k \in Nat, NEW j \in Nat
  PROVE  ScalarMul(k, Multiple[j]) = Multiple[k * j]
<1> DEFINE T == {n \in Nat : \E i \in Nat : Mul[n][Multiple[i]] # Multiple[n * i]}
<1>1. T = {}
  <2> SUFFICES ASSUME T # {} PROVE FALSE
    OBVIOUS
  <2>1. PICK n \in T : \A m \in T : n <= m
    <3>1. T \subseteq Nat
      OBVIOUS
    <3> HIDE DEF T
    <3>2. QED
      BY <3>1, LeastNumber
  <2>2. PICK i \in Nat : Mul[n][Multiple[i]] # Multiple[n * i]
    OBVIOUS
  <2>3. Multiple[i] \in Affine /\ Double(Multiple[i]) = Multiple[i + i]
    BY MultipleUnfolds, GeneratorIsPoint, DoubleIsSum, MultiplesAdd
  <2>4. n # 0
    <3>1. 0 * i = 0
      OBVIOUS
    <3>2. QED
      BY <2>2, <2>3, <3>1, MulUnfolds, MultipleUnfolds
  <2> DEFINE h == n \div 2
             d == i + i
  <2>5. h \in Nat /\ ~(n <= h) /\ d \in Nat
    BY <2>4
  <2>6. Mul[h][Multiple[d]] = Multiple[h * d]
    BY <2>1, <2>5
  <2>7. CASE n % 2 = 1
    <3>1. n = h + h + 1
      BY <2>7
    <3> HIDE DEF h
    <3>2. h * d + i = n * i /\ h * d \in Nat
      BY <2>5, <3>1
    <3> HIDE DEF d
    <3>3. Mul[n][Multiple[i]] = Add(Multiple[h * d], Multiple[i])
      BY <2>3, <2>4, <2>6, <2>7, MulUnfolds DEF h, d
    <3>4. QED
      BY <2>2, <3>2, <3>3, MultiplesAdd
  <2>8. CASE n % 2 # 1
    <3>1. n = h + h
      BY <2>8
    <3> HIDE DEF h
    <3>2. h * d = n * i
      BY <2>5, <3>1
    <3> HIDE DEF d
    <3>3. Mul[n][Multiple[i]] = Multiple[h * d]
      BY <2>3, <2>4, <2>6, <2>8, MulUnfolds DEF h, d
    <3>4. QED
      BY <2>2, <3>2, <3>3
  <2>9. QED
    BY <2>7, <2>8
<1>2. QED
  BY <1>1 DEF ScalarMul

--------------------------------------------------------------------------------
(* The group of the points, by the logarithms.                              *)

\* The order of the group is a prime.
LEMMA OrderFacts == N \in Nat \ {0} /\ N \in Nat /\ N > 1 /\ IsPrime(N)
BY GroupAssumption DEF IsPrime

\* The identity may be added on either side.
LEMMA AddIdentity ==
  ASSUME NEW pt
  PROVE  Add(pt, Inf) = pt /\ Add(Inf, pt) = pt
BY DEF Add

\* As many times the generator as the group has points is the identity.
LEMMA OrderOfGenerator == Multiple[N] = Inf
<1> DEFINE opposite == <<1, P - 2>>
<1>1. opposite \in Point
  <2>1. P - 2 \in Field /\ 1 \in Field
    BY FieldFacts DEF Field
  <2>2. (P - 2) * (P - 2) = 4 + P * (P - 4) /\ P - 4 \in Int /\ (P - 2) * (P - 2) \in Int
    BY FieldFacts
  <2>3. ((P - 2) * (P - 2)) % P = 4 % P
    BY <2>2, FieldFacts, SameRemainder
  <2>4. OnCurve(opposite)
    BY <2>1, <2>3 DEF OnCurve, Cubic
  <2>5. QED
    BY <2>1, <2>4 DEF Point
<1>2. Add(G, opposite) = Inf
  <2>1. 2 + (P - 2) = P * 1 + 0 /\ 0 \in 0 .. P - 1
    BY FieldFacts
  <2>2. (2 + (P - 2)) % P = 0
    BY <2>1, FieldFacts, RemainderUnique
  <2>3. G # Inf /\ opposite # Inf
    BY DEF G, Inf
  <2>4. QED
    BY <2>2, <2>3 DEF Add, G
<1> HIDE DEF opposite
<1>3. \A m \in Nat : Add(Multiple[m + 1], opposite) = Multiple[m]
  <2>1. SUFFICES ASSUME NEW m \in Nat PROVE Add(Multiple[m + 1], opposite) = Multiple[m]
    OBVIOUS
  <2>2. Multiple[m] \in Point /\ Multiple[m + 1] = Add(Multiple[m], G)
    BY MultipleUnfolds
  <2>3. Add(Add(Multiple[m], G), opposite) = Add(Multiple[m], Add(G, opposite))
    BY <1>1, <2>2, GeneratorIsPoint, AddAssociates
  <2>4. QED
    BY <1>2, <2>2, <2>3, AddIdentity
<1>4. PICK k \in 0 .. N - 1 : Multiple[k] = Multiple[N]
  <2>1. Multiple[N] \in Point
    BY MultipleUnfolds, OrderFacts
  <2>2. QED
    BY <2>1, GroupAssumption, Zenon
<1>5. CASE k = 0
  BY <1>4, <1>5, MultipleUnfolds
<1>6. CASE k # 0
  <2>1. k - 1 \in Nat /\ N - 1 \in Nat /\ k - 1 \in 0 .. N - 1 /\ N - 1 \in 0 .. N - 1
    BY <1>6, OrderFacts
  <2>2. (k - 1) + 1 = k /\ (N - 1) + 1 = N
    BY OrderFacts
  <2>3. Multiple[k - 1] = Multiple[N - 1]
    BY <1>3, <1>4, <2>1, <2>2
  <2>4. k - 1 = N - 1
    BY <2>1, <2>3, GroupAssumption, Zenon
  <2>5. QED
    BY <2>4, OrderFacts
<1>7. QED
  BY <1>5, <1>6

\* Multiples repeat with the order of the group.
LEMMA MultipleIsPeriodic ==
  ASSUME NEW k \in Nat
  PROVE  Multiple[k] = Multiple[k % N]
<1> DEFINE T == {n \in Nat : Multiple[n] # Multiple[n % N]}
<1> SUFFICES ASSUME T # {} PROVE FALSE
  OBVIOUS
<1>1. PICK n \in T : \A m \in T : n <= m
  <2>1. T \subseteq Nat
    OBVIOUS
  <2> HIDE DEF T
  <2>2. QED
    BY <2>1, LeastNumber
<1>2. n \in Nat /\ Multiple[n] # Multiple[n % N]
  OBVIOUS
<1>3. n >= N
  <2> SUFFICES ASSUME ~(n >= N) PROVE FALSE
    OBVIOUS
  <2>1. n \in 0 .. N - 1
    BY <1>2, OrderFacts
  <2>2. n % N = n
    BY <2>1, OrderFacts, SmallIsItself
  <2>3. QED
    BY <1>2, <2>2
<1> DEFINE m == n - N
<1>4. m \in Nat /\ n = N + m /\ ~(n <= m)
  BY <1>3, OrderFacts
<1> HIDE DEF m
<1>5. Multiple[m] = Multiple[m % N]
  BY <1>1, <1>4
<1>6. m % N = n % N
  <2>1. n = m + N * 1
    BY <1>4, OrderFacts
  <2>2. n \in Int /\ m \in Int /\ 1 \in Int /\ N \in Nat \ {0}
    BY <1>2, <1>4, OrderFacts
  <2>3. QED
    BY ONLY <2>1, <2>2, SameRemainder
<1>7. Multiple[n] = Multiple[m]
  <2>1. Add(Multiple[N], Multiple[m]) = Multiple[N + m]
    BY <1>4, OrderFacts, MultiplesAdd
  <2>2. QED
    BY <1>4, <2>1, OrderOfGenerator, AddIdentity
<1>8. QED
  BY <1>2, <1>5, <1>6, <1>7

\* Two multiples are the same point when they are congruent.
LEMMA SameMultiple ==
  ASSUME NEW j \in Nat, NEW k \in Nat
  PROVE  (Multiple[j] = Multiple[k]) <=> Cong(j, k, N)
<1> DEFINE a == j % N
           b == k % N
<1>1. a \in 0 .. N - 1 /\ b \in 0 .. N - 1
  <2>1. N \in Nat \ {0} /\ j \in Int /\ k \in Int
    BY OrderFacts
  <2>2. Rem(j, N) \in 0 .. N - 1 /\ Rem(k, N) \in 0 .. N - 1
    BY <2>1, RemRange
  <2>3. QED
    BY <2>2 DEF Rem
<1>2. Multiple[j] = Multiple[a] /\ Multiple[k] = Multiple[b]
  BY MultipleIsPeriodic
<1>3. Cong(j, k, N) <=> a = b
  BY CongIff, OrderFacts DEF Rem
<1> HIDE DEF a, b
<1>4. (Multiple[a] = Multiple[b]) => a = b
  BY <1>1, GroupAssumption, Zenon
<1>5. QED
  BY <1>2, <1>3, <1>4

\* Every point has a logarithm.
LEMMA LogOfPoint ==
  ASSUME NEW pt \in Point
  PROVE  Log(pt) \in Nat /\ Multiple[Log(pt)] = pt
<1>1. PICK k \in 0 .. N - 1 : Multiple[k] = pt
  BY GroupAssumption, Zenon
<1>2. \E m \in Multiples : m[1] = pt
  <2>1. <<Multiple[k], k>> \in Multiples
    BY DEF Multiples
  <2>2. QED
    BY <1>1, <2>1
<1>3. PICK m \in Multiples : Log(pt) = m[2] /\ m[1] = pt
  BY <1>2 DEF Log
<1>4. PICK i \in 0 .. N - 1 : m = <<Multiple[i], i>>
  BY DEF Multiples
<1>5. QED
  BY <1>3, <1>4, OrderFacts

\* Double and add multiplies the logarithm.
LEMMA ScalarMulOfPoint ==
  ASSUME NEW pt \in Point, NEW k \in Nat
  PROVE  ScalarMul(k, pt) = Multiple[k * Log(pt)] /\ ScalarMul(k, pt) \in Point /\ k * Log(pt) \in Nat
<1>1. Log(pt) \in Nat /\ Multiple[Log(pt)] = pt
  BY LogOfPoint
<1> DEFINE l == Log(pt)
<1> HIDE DEF l
<1>2. l \in Nat /\ Multiple[l] = pt
  BY <1>1 DEF l
<1>3. k * l \in Nat
  BY <1>2
<1>4. ScalarMul(k, Multiple[l]) = Multiple[k * l]
  BY <1>2, ScalarMulIsMultiple
<1>5. QED
  BY <1>2, <1>3, <1>4, MultipleUnfolds DEF l

--------------------------------------------------------------------------------
(* Powers, and the second generator.                                        *)

\* The recursion of the powers reaches its end.
LEMMA PowerUnfolds ==
  ASSUME NEW b \in Int
  PROVE  /\ Power(b)[0] = 1
         /\ \A n \in Nat : Power(b)[n] \in Field /\ Power(b)[n + 1] = (b * Power(b)[n]) % P
<1> DEFINE A == Field
           q == [n \in Nat |-> IF n = 0 THEN 0 ELSE n - 1]
           F == [n \in Nat |-> [g \in A |-> (b * g) % P]]
           M == Power(b)
<1>1. 1 \in A
  BY FieldFacts
<1>2. q \in [Nat -> Nat] /\ \A n \in Nat \ {0} : q[n] < n
  OBVIOUS
<1>3. ASSUME NEW g \in A PROVE (b * g) % P \in A
  <2>1. b * g \in Int
    BY FieldFacts DEF Field
  <2>2. QED
    BY <2>1, InField
<1>4. F \in [Nat -> [A -> A]] /\ \A n \in Nat, g \in A : F[n][g] = (b * g) % P
  BY <1>3
<1>5. PICK f \in [Nat -> A] : \A n \in Nat : f[n] = IF n = 0 THEN 1 ELSE F[n][f[q[n]]]
  <2> HIDE DEF A, F, q
  <2>1. 1 \in A
    BY <1>1
  <2>2. q \in [Nat -> Nat]
    BY <1>2
  <2>3. \A n \in Nat \ {0} : q[n] < n
    BY <1>2
  <2>4. F \in [Nat -> [A -> A]]
    BY <1>4
  <2>5. Solutions(A, 1, q, F) # {}
    BY <2>1, <2>2, <2>3, <2>4, Recursion
  <2>6. QED
    BY <2>5 DEF Solutions
<1>6. ASSUME NEW n \in Nat PROVE f[n] = IF n = 0 THEN 1 ELSE (b * f[n - 1]) % P
  <2>1. CASE n = 0
    BY <1>5, <2>1
  <2>2. CASE n # 0
    <3>1. n - 1 \in Nat /\ f[n - 1] \in A /\ q[n] = n - 1
      BY <2>2
    <3> HIDE DEF F, A, q
    <3>2. f[n] = F[n][f[n - 1]]
      BY <1>5, <2>2, <3>1
    <3>3. F[n][f[n - 1]] = (b * f[n - 1]) % P
      BY <1>4, <3>1
    <3>4. QED
      BY <2>2, <3>2, <3>3
  <2>3. QED
    BY <2>1, <2>2
<1>7. f = [n \in Nat |-> IF n = 0 THEN 1 ELSE (b * f[n - 1]) % P]
  <2>1. f = [n \in Nat |-> f[n]]
    OBVIOUS
  <2>2. QED
    BY <1>6, <2>1
<1>8. M = [n \in Nat |-> IF n = 0 THEN 1 ELSE (b * M[n - 1]) % P]
  BY <1>7, Zenon DEF Power
<1> HIDE DEF M
<1>9. ASSUME NEW n \in Nat PROVE M[n] = IF n = 0 THEN 1 ELSE (b * M[n - 1]) % P
  BY <1>8, Zenon
<1> DEFINE T == {n \in Nat : M[n] \notin Field}
<1>10. T = {}
  <2> SUFFICES ASSUME T # {} PROVE FALSE
    OBVIOUS
  <2>1. PICK n \in T : \A m \in T : n <= m
    <3>1. T \subseteq Nat
      OBVIOUS
    <3> HIDE DEF T
    <3>2. QED
      BY <3>1, LeastNumber
  <2>2. n # 0
    BY <1>1, <1>9
  <2>3. n - 1 \in Nat /\ ~(n <= n - 1)
    BY <2>2
  <2>4. M[n - 1] \in Field
    BY <2>1, <2>3
  <2>5. (b * M[n - 1]) % P \in Field
    BY <1>3, <2>4
  <2>6. QED
    BY <1>9, <2>2, <2>5
<1>11. ASSUME NEW n \in Nat PROVE M[n] \in Field /\ M[n + 1] = (b * M[n]) % P
  <2>1. M[n] \in Field
    BY <1>10
  <2>2. n + 1 \in Nat /\ n + 1 # 0 /\ n + 1 - 1 = n
    OBVIOUS
  <2>3. QED
    BY <1>9, <2>1, <2>2
<1>12. M[0] = 1
  BY <1>9
<1>13. QED
  BY <1>11, <1>12 DEF M

\* Powers are reduced.
LEMMA PowerIsNumber ==
  ASSUME NEW b \in Int, NEW n \in Nat
  PROVE  Power(b)[n] \in Int /\ Power(b)[n] \in Field
<1>1. Power(b)[n] \in Field
  BY PowerUnfolds
<1>2. QED
  BY <1>1, FieldFacts DEF Field

\* The next power is congruent to the base times this one.
LEMMA PowerNext ==
  ASSUME NEW b \in Int, NEW n \in Nat
  PROVE  Cong(Power(b)[n + 1], b * Power(b)[n], P)
<1> DEFINE p == Power(b)[n]
<1>1. p \in Int /\ Power(b)[n + 1] = (b * p) % P
  BY PowerUnfolds, PowerIsNumber
<1> HIDE DEF p
<1>2. b * p \in Int
  BY <1>1
<1>3. Cong(Rem(b * p, P), b * p, P)
  BY <1>2, RemCong, FieldFacts
<1>4. QED
  BY <1>1, <1>3 DEF Rem, p

\* Exponents add.
LEMMA PowerSum ==
  ASSUME NEW b \in Int, NEW i \in Nat, NEW j \in Nat
  PROVE  Cong(Power(b)[i + j], Power(b)[i] * Power(b)[j], P)
<1> DEFINE T == {n \in Nat : ~Cong(Power(b)[i + n], Power(b)[i] * Power(b)[n], P)}
<1> SUFFICES ASSUME T # {} PROVE FALSE
  OBVIOUS
<1>1. PICK n \in T : \A m \in T : n <= m
  <2>1. T \subseteq Nat
    OBVIOUS
  <2> HIDE DEF T
  <2>2. QED
    BY <2>1, LeastNumber
<1>2. n \in Nat /\ ~Cong(Power(b)[i + n], Power(b)[i] * Power(b)[n], P)
  OBVIOUS
<1>3. n # 0
  <2> SUFFICES ASSUME n = 0 PROVE FALSE
    OBVIOUS
  <2>1. Power(b)[0] = 1 /\ i + 0 = i
    BY PowerUnfolds
  <2> DEFINE p == Power(b)[i]
  <2>2. p \in Int
    BY PowerIsNumber
  <2>3. p * 1 = p
    BY <2>2
  <2> HIDE DEF p
  <2>4. Cong(p, p, P)
    BY <2>2, CongRefl, FieldFacts
  <2>5. QED
    BY <1>2, <2>1, <2>3, <2>4 DEF p
<1> DEFINE m == n - 1
           l == i + m
           x == Power(b)[i]
           y == Power(b)[m]
           z == Power(b)[l]
<1>4. m \in Nat /\ n = m + 1 /\ ~(n <= m) /\ l \in Nat /\ i + n = l + 1
  BY <1>2, <1>3
<1> HIDE DEF m
<1>5. Cong(z, x * y, P)
  BY <1>1, <1>4
<1> HIDE DEF l, T
<1>6. x \in Int /\ y \in Int /\ z \in Int
  BY <1>4, PowerIsNumber
<1>7. Cong(Power(b)[l + 1], b * z, P) /\ Cong(Power(b)[m + 1], b * y, P)
  BY <1>4, PowerNext
<1> DEFINE u == Power(b)[l + 1]
           v == Power(b)[m + 1]
<1>8. u \in Int /\ v \in Int
  <2>1. l + 1 \in Nat /\ m + 1 \in Nat
    BY <1>4
  <2>2. QED
    BY <2>1, PowerIsNumber
<1>9. Cong(u, b * z, P) /\ Cong(v, b * y, P)
  BY <1>7
<1>10. ~Cong(u, x * v, P)
  BY <1>2, <1>4
<1> HIDE DEF x, y, z, u, v
<1>11. Cong(z * b, (x * y) * b, P)
  <2>1. x * y \in Int
    BY <1>6
  <2>2. QED
    BY <1>5, <1>6, <2>1, CongProduct, FieldFacts
<1>12. Cong(v * x, (b * y) * x, P)
  <2>1. b * y \in Int
    BY <1>6
  <2>2. QED
    BY <1>6, <1>8, <1>9, <2>1, CongProduct, FieldFacts
<1> DEFINE w == b * z
           t == x * v
           s == (x * y) * b
<1>13. w \in Int /\ t \in Int /\ s \in Int
  BY <1>6, <1>8
<1>14. Cong(u, w, P) /\ Cong(w, s, P) /\ Cong(t, s, P) /\ ~Cong(u, t, P)
  <2>1. z * b = w /\ v * x = t /\ (b * y) * x = s
    BY <1>6, <1>8
  <2>2. QED
    BY <1>9, <1>10, <1>11, <1>12, <2>1
<1> HIDE DEF w, t, s
<1>15. QED
  BY <1>8, <1>13, <1>14, CongSym, CongTrans, FieldFacts

\* What passes the test of Euler has its power to (P + 1) / 4 for a root.
LEMMA SquareRoot ==
  ASSUME NEW a \in Field, IsResidue(a)
  PROVE  LET y == Power(a)[(P + 1) \div 4] IN Cong(y * y, a, P)
<1> DEFINE i == (P + 1) \div 4
           j == (P - 1) \div 2
           y == Power(a)[i]
           z == Power(a)[i + i]
           w == Power(a)[j]
<1>1. a \in Int
  BY FieldFacts DEF Field
<1>2. i \in Nat /\ j \in Nat /\ i + i = j + 1
  <2>1. P \in Nat /\ P > 3 /\ P % 4 = 3
    BY FieldAssumption
  <2>2. QED
    BY <2>1
<1> HIDE DEF i, j
<1>3. i + i \in Nat /\ y \in Int /\ z \in Int /\ w \in Int
  <2>1. i + i \in Nat
    BY <1>2
  <2>2. QED
    BY <1>1, <1>2, <2>1, PowerIsNumber
<1>4. Cong(z, y * y, P)
  BY <1>1, <1>2, PowerSum
<1>5. Cong(z, a * w, P)
  BY <1>1, <1>2, PowerNext
<1>6. w = 1
  BY DEF IsResidue, j
<1> HIDE DEF y, z, w
<1>7. a * w = a
  BY <1>1, <1>6
<1> DEFINE s == y * y
<1>8. s \in Int
  BY <1>3
<1>9. Cong(z, s, P) /\ Cong(z, a, P)
  BY <1>4, <1>5, <1>7
<1> HIDE DEF s
<1>10. Cong(s, a, P)
  BY <1>1, <1>3, <1>8, <1>9, CongSym, CongTrans, FieldFacts
<1>11. QED
  BY <1>10 DEF s, y, i

\* The root derive_H takes is even, and a root.
LEMMA EvenRootIsRoot ==
  ASSUME NEW a \in Field, IsResidue(a)
  PROVE  /\ EvenRoot(a) \in Field /\ EvenRoot(a) % 2 = 0
         /\ (EvenRoot(a) * EvenRoot(a)) % P = a
<1> DEFINE y == Power(a)[(P + 1) \div 4]
           r == EvenRoot(a)
<1>1. a \in Int /\ P \in Nat \ {0} /\ (P + 1) \div 4 \in Nat /\ P % 2 = 1
  BY FieldFacts, FieldAssumption DEF Field
<1>2. y \in Field /\ y \in Int
  BY <1>1, PowerIsNumber
<1>3. Cong(y * y, a, P)
  BY SquareRoot
<1>4. r = IF y % 2 = 0 THEN y ELSE P - y
  BY DEF EvenRoot
<1> HIDE DEF y, r
<1>5. r \in Field /\ r \in Int /\ r % 2 = 0
  <2>1. y \in 0 .. P - 1
    BY <1>2 DEF Field
  <2>2. r \in 0 .. P - 1 /\ r % 2 = 0
    <3>1. CASE y % 2 = 0
      BY <1>4, <2>1, <3>1
    <3>2. CASE y % 2 # 0
      <4>1. y # 0 /\ y % 2 = 1
        BY <2>1, <3>2
      <4>2. QED
        BY <1>1, <1>4, <2>1, <4>1
    <3>3. QED
      BY <3>1, <3>2
  <2>3. QED
    BY <1>1, <2>2 DEF Field
<1>6. Cong(r * r, y * y, P)
  <2>1. CASE r = y
    <3>1. y * y \in Int
      BY <1>2
    <3>2. QED
      BY <1>1, <2>1, <3>1, CongRefl
  <2>2. CASE r = P - y
    <3>1. r * r = y * y + P * (P - 2 * y) /\ P - 2 * y \in Int
      BY <1>1, <1>2, <2>2
    <3>2. QED
      BY <3>1 DEF Cong
  <2>3. QED
    BY <1>4, <2>1, <2>2
<1> DEFINE s == r * r
           t == y * y
<1>7. s \in Int /\ t \in Int
  BY <1>2, <1>5
<1>8. Cong(s, t, P) /\ Cong(t, a, P)
  BY <1>3, <1>6
<1> HIDE DEF s, t
<1>9. Cong(s, a, P)
  BY <1>1, <1>7, <1>8, CongTrans
<1>10. Rem(s, P) = Rem(a, P)
  BY <1>1, <1>7, <1>9, CongIff
<1>11. Rem(a, P) = a
  BY <1>1, RemSmall DEF Field
<1>12. QED
  BY <1>5, <1>10, <1>11 DEF Rem, s, r

\* The right side of the curve is reduced.
LEMMA CubicInField ==
  ASSUME NEW x \in Field
  PROVE  Cubic(x) \in Field
<1>1. x \in Int
  BY FieldFacts DEF Field
<1>2. x * x * x + 3 \in Int
  BY <1>1
<1>3. QED
  BY <1>2, InField DEF Cubic

\* The first accepted hash, and what is derived from it.
LEMMA DerivedGenerator ==
  ASSUME NEW seed \in HashStream
  PROVE  \E i \in Accepted(seed) :
           /\ \A j \in Accepted(seed) : i <= j
           /\ i \in Nat /\ seed[i] \in Field /\ IsResidue(Cubic(seed[i]))
           /\ DeriveH(seed) = <<seed[i], EvenRoot(Cubic(seed[i]))>>
<1>1. seed \in Seq(Field) /\ Accepted(seed) # {}
  BY StreamAssumption
<1>2. DOMAIN seed \subseteq Nat /\ \A i \in DOMAIN seed : seed[i] \in Field
  BY <1>1
<1>3. Accepted(seed) \subseteq DOMAIN seed
  BY DEF Accepted
<1>4. \E i \in Accepted(seed) : \A j \in Accepted(seed) : i <= j
  BY <1>1, <1>2, <1>3, LeastNumber
<1> DEFINE first == CHOOSE i \in Accepted(seed) : \A j \in Accepted(seed) : i <= j
<1>5. first \in Accepted(seed) /\ \A j \in Accepted(seed) : first <= j
  BY <1>4
<1>6. DeriveH(seed) = <<seed[first], EvenRoot(Cubic(seed[first]))>>
  BY DEF DeriveH
<1> HIDE DEF first
<1>7. first \in Nat /\ seed[first] \in Field /\ IsResidue(Cubic(seed[first]))
  BY <1>2, <1>3, <1>5 DEF Accepted
<1>8. QED
  BY <1>5, <1>6, <1>7

\* The second generator is on the curve.
LEMMA GeneratorOnCurve ==
  ASSUME NEW seed \in HashStream
  PROVE  DeriveH(seed) \in Point /\ DeriveH(seed) # Inf
<1>1. PICK i \in Accepted(seed) :
           /\ seed[i] \in Field /\ IsResidue(Cubic(seed[i]))
           /\ DeriveH(seed) = <<seed[i], EvenRoot(Cubic(seed[i]))>>
  BY DerivedGenerator
<1> DEFINE x == seed[i]
           y == EvenRoot(Cubic(x))
<1>2. Cubic(x) \in Field
  BY <1>1, CubicInField
<1>3. y \in Field /\ (y * y) % P = Cubic(x)
  BY <1>1, <1>2, EvenRootIsRoot
<1> HIDE DEF y
<1>4. OnCurve(<<x, y>>) /\ <<x, y>> \in Field \X Field
  BY <1>1, <1>3 DEF OnCurve
<1>5. <<x, y>> \in Point /\ <<x, y>> # Inf
  BY <1>4, InfIsNoPair DEF Point
<1>6. QED
  BY <1>1, <1>5 DEF y

--------------------------------------------------------------------------------
(* Products.                                                                *)

\* The product of f[1], ..., f[n].
Product(f) ==
  LET product[n \in Nat] == IF n = 0 THEN 1 ELSE product[n - 1] * f[n] IN product

\* The recursion of a product reaches its end.
LEMMA ProductUnfolds ==
  ASSUME NEW f \in [Nat -> Int]
  PROVE  /\ Product(f)[0] = 1
         /\ \A n \in Nat : Product(f)[n] \in Int /\ Product(f)[n + 1] = Product(f)[n] * f[n + 1]
<1> DEFINE q == [n \in Nat |-> IF n = 0 THEN 0 ELSE n - 1]
           F == [n \in Nat |-> [g \in Int |-> g * f[n]]]
           M == Product(f)
<1>1. q \in [Nat -> Nat] /\ \A n \in Nat \ {0} : q[n] < n
  OBVIOUS
<1>2. F \in [Nat -> [Int -> Int]] /\ \A n \in Nat, g \in Int : F[n][g] = g * f[n]
  <2>1. \A n \in Nat, g \in Int : g * f[n] \in Int
    OBVIOUS
  <2>2. QED
    BY <2>1
<1>3. PICK h \in [Nat -> Int] : \A n \in Nat : h[n] = IF n = 0 THEN 1 ELSE F[n][h[q[n]]]
  <2> HIDE DEF F, q
  <2>1. 1 \in Int /\ q \in [Nat -> Nat]
    BY <1>1
  <2>2. \A n \in Nat \ {0} : q[n] < n
    BY <1>1
  <2>3. F \in [Nat -> [Int -> Int]]
    BY <1>2
  <2>4. Solutions(Int, 1, q, F) # {}
    BY <2>1, <2>2, <2>3, Recursion
  <2>5. QED
    BY <2>4 DEF Solutions
<1>4. ASSUME NEW n \in Nat PROVE h[n] = IF n = 0 THEN 1 ELSE h[n - 1] * f[n]
  <2>1. CASE n = 0
    BY <1>3, <2>1
  <2>2. CASE n # 0
    <3>1. n - 1 \in Nat /\ h[n - 1] \in Int /\ q[n] = n - 1
      BY <2>2
    <3> HIDE DEF F, q
    <3>2. h[n] = F[n][h[n - 1]]
      BY <1>3, <2>2, <3>1
    <3>3. F[n][h[n - 1]] = h[n - 1] * f[n]
      BY <1>2, <3>1
    <3>4. QED
      BY <2>2, <3>2, <3>3
  <2>3. QED
    BY <2>1, <2>2
<1>5. h = [n \in Nat |-> IF n = 0 THEN 1 ELSE h[n - 1] * f[n]]
  <2>1. h = [n \in Nat |-> h[n]]
    OBVIOUS
  <2>2. QED
    BY <1>4, <2>1
<1>6. M = [n \in Nat |-> IF n = 0 THEN 1 ELSE M[n - 1] * f[n]]
  BY <1>5, Zenon DEF Product
<1> HIDE DEF M
<1>7. ASSUME NEW n \in Nat PROVE M[n] = IF n = 0 THEN 1 ELSE M[n - 1] * f[n]
  BY <1>6, Zenon
<1> DEFINE T == {n \in Nat : M[n] \notin Int}
<1>8. T = {}
  <2> SUFFICES ASSUME T # {} PROVE FALSE
    OBVIOUS
  <2>1. PICK n \in T : \A m \in T : n <= m
    <3>1. T \subseteq Nat
      OBVIOUS
    <3> HIDE DEF T
    <3>2. QED
      BY <3>1, LeastNumber
  <2>2. n # 0
    BY <1>7
  <2>3. n - 1 \in Nat /\ ~(n <= n - 1)
    BY <2>2
  <2>4. M[n - 1] \in Int /\ f[n] \in Int
    BY <2>1, <2>3
  <2>5. M[n - 1] * f[n] \in Int
    BY <2>4
  <2>6. QED
    BY <1>7, <2>2, <2>5
<1>9. ASSUME NEW n \in Nat PROVE M[n] \in Int /\ M[n + 1] = M[n] * f[n + 1]
  <2>1. M[n] \in Int
    BY <1>8
  <2>2. n + 1 \in Nat /\ n + 1 # 0 /\ n + 1 - 1 = n
    OBVIOUS
  <2>3. QED
    BY <1>7, <2>1, <2>2
<1>10. M[0] = 1
  BY <1>7
<1>11. QED
  BY <1>9, <1>10 DEF M

\* A product depends on its factors only.
LEMMA ProductOfSame ==
  ASSUME NEW f \in [Nat -> Int], NEW g \in [Nat -> Int], NEW n \in Nat, \A i \in 1 .. n : f[i] = g[i]
  PROVE  Product(f)[n] = Product(g)[n]
<1> DEFINE T == {k \in Nat : k <= n /\ Product(f)[k] # Product(g)[k]}
<1> SUFFICES ASSUME T # {} PROVE FALSE
  OBVIOUS
<1>1. PICK k \in T : \A m \in T : k <= m
  <2>1. T \subseteq Nat
    OBVIOUS
  <2> HIDE DEF T
  <2>2. QED
    BY <2>1, LeastNumber
<1>2. k # 0
  BY ProductUnfolds
<1> DEFINE m == k - 1
<1>3. m \in Nat /\ m <= n /\ ~(k <= m) /\ k = m + 1 /\ k \in 1 .. n
  BY <1>2
<1>4. Product(f)[m] = Product(g)[m]
  BY <1>1, <1>3
<1>5. Product(f)[k] # Product(g)[k]
  OBVIOUS
<1> HIDE DEF m, T
<1>6. Product(f)[m + 1] = Product(f)[m] * f[m + 1] /\ Product(g)[m + 1] = Product(g)[m] * g[m + 1]
  BY <1>3, ProductUnfolds
<1>7. QED
  BY <1>3, <1>4, <1>5, <1>6

\* A factor may be exchanged for another.
LEMMA ProductExchange ==
  ASSUME NEW f \in [Nat -> Int], NEW m \in Nat, NEW v \in Int, NEW n \in Nat, m \in 1 .. n
  PROVE  Product(f)[n] * v = Product([f EXCEPT ![m] = v])[n] * f[m]
<1> DEFINE g == [f EXCEPT ![m] = v]
           T == {k \in Nat : m <= k /\ Product(f)[k] * v # Product(g)[k] * f[m]}
<1>1. g \in [Nat -> Int] /\ g[m] = v /\ \A i \in Nat : i # m => g[i] = f[i]
  OBVIOUS
<1> HIDE DEF g
<1> SUFFICES ASSUME T # {} PROVE FALSE
  <2>1. n \notin T /\ m <= n
    OBVIOUS
  <2>2. Product(f)[n] * v = Product(g)[n] * f[m]
    BY <2>1
  <2>3. QED
    BY <2>2 DEF g
<1>2. PICK k \in T : \A i \in T : k <= i
  <2>1. T \subseteq Nat
    OBVIOUS
  <2> HIDE DEF T
  <2>2. QED
    BY <2>1, LeastNumber
<1> DEFINE l == k - 1
           x == Product(f)[l]
           y == Product(g)[l]
<1>3. k \in Nat /\ m <= k /\ m >= 1 /\ Product(f)[k] * v # Product(g)[k] * f[m]
  OBVIOUS
<1>4. l \in Nat /\ k = l + 1 /\ ~(k <= l)
  BY <1>3
<1> HIDE DEF l
<1>5. x \in Int /\ y \in Int /\ Product(f)[k] = x * f[k] /\ Product(g)[k] = y * g[k]
  BY <1>1, <1>4, ProductUnfolds
<1>6. CASE k = m
  <2>1. \A i \in 1 .. l : f[i] = g[i]
    BY <1>1, <1>3, <1>4, <1>6
  <2>2. x = y
    BY <1>1, <1>4, <2>1, ProductOfSame
  <2> HIDE DEF x, y
  <2>3. (x * f[m]) * v = (y * v) * f[m]
    <3>1. f[m] \in Int
      OBVIOUS
    <3>2. QED
      BY <1>5, <2>2, <3>1
  <2>4. QED
    BY <1>1, <1>3, <1>5, <1>6, <2>3
<1>7. CASE k # m
  <2>1. m <= l /\ g[k] = f[k]
    BY <1>1, <1>3, <1>4, <1>7
  <2>2. x * v = y * f[m]
    BY <1>2, <1>4, <2>1
  <2> HIDE DEF x, y, T
  <2>3. (x * f[k]) * v = (y * f[k]) * f[m]
    <3>1. f[m] \in Int /\ f[k] \in Int
      BY <1>3
    <3>2. (x * f[k]) * v = (x * v) * f[k] /\ (y * f[k]) * f[m] = (y * f[m]) * f[k]
      BY <1>5, <3>1
    <3>3. QED
      BY <2>2, <3>2
  <2>4. QED
    BY <1>3, <1>5, <2>1, <2>3
<1>8. QED
  BY <1>6, <1>7

\* p reorders the first n numbers.
Permutes(p, n) ==
  /\ p \in [Nat -> Nat]
  /\ \A i \in 1 .. n : p[i] \in 1 .. n
  /\ \A i, j \in 1 .. n : p[i] = p[j] => i = j
  /\ \A j \in 1 .. n : \E i \in 1 .. n : p[i] = j

\* The order of the factors does not matter.
LEMMA ProductPermuted ==
  ASSUME NEW f \in [Nat -> Int], NEW n \in Nat, NEW p, Permutes(p, n)
  PROVE  Product([i \in Nat |-> f[p[i]]])[n] = Product(f)[n]
<1> DEFINE Of(s) == [i \in Nat |-> f[s[i]]]
           T == {k \in Nat : \E s \in [Nat -> Nat] : Permutes(s, k) /\ Product(Of(s))[k] # Product(f)[k]}
<1> SUFFICES ASSUME T # {} PROVE FALSE
  <2>1. T = {}
    OBVIOUS
  <2>2. p \in [Nat -> Nat]
    BY DEF Permutes
  <2>3. QED
    BY <2>1, <2>2
<1>1. PICK k \in T : \A i \in T : k <= i
  <2>1. T \subseteq Nat
    OBVIOUS
  <2> HIDE DEF T
  <2>2. QED
    BY <2>1, LeastNumber
<1>2. PICK s \in [Nat -> Nat] : Permutes(s, k) /\ Product(Of(s))[k] # Product(f)[k]
  OBVIOUS
<1> DEFINE l == k - 1
           g == Of(s)
<1>3. g \in [Nat -> Int] /\ \A i \in Nat : g[i] = f[s[i]]
  OBVIOUS
<1>4. k # 0
  BY <1>2, <1>3, ProductUnfolds
<1>5. k \in Nat /\ l \in Nat /\ k = l + 1 /\ ~(k <= l) /\ k \in 1 .. k
  BY <1>4
<1>6. \A t \in [Nat -> Nat] : Permutes(t, l) => Product(Of(t))[l] = Product(f)[l]
  BY <1>1, <1>5
<1>7. Product(g)[k] # Product(f)[k]
  BY <1>2
<1> HIDE DEF l, T, g
<1>8. /\ Product(g)[k] = Product(g)[l] * g[k] /\ Product(g)[l] \in Int
      /\ Product(f)[k] = Product(f)[l] * f[k] /\ Product(f)[l] \in Int
  BY <1>3, <1>5, ProductUnfolds
<1>9. /\ \A i \in 1 .. k : s[i] \in 1 .. k
      /\ \A i, j \in 1 .. k : s[i] = s[j] => i = j
      /\ \A j \in 1 .. k : \E i \in 1 .. k : s[i] = j
  BY <1>2 DEF Permutes
<1>10. CASE s[k] = k
  <2>1. Permutes(s, l)
    <3>1. \A i \in 1 .. l : i \in 1 .. k /\ i # k
      BY <1>5
    <3>2. \A i \in 1 .. k : i # k => i \in 1 .. l
      BY <1>5
    <3>3. \A i \in 1 .. l : s[i] \in 1 .. l
      BY <1>5, <1>9, <1>10, <3>1, <3>2
    <3>4. \A i, j \in 1 .. l : s[i] = s[j] => i = j
      BY <1>9, <3>1
    <3>5. \A j \in 1 .. l : \E i \in 1 .. l : s[i] = j
      BY <1>9, <1>10, <3>1, <3>2
    <3>6. QED
      BY <3>3, <3>4, <3>5 DEF Permutes
  <2>2. Product(g)[l] = Product(f)[l]
    BY <1>6, <2>1 DEF g
  <2>3. g[k] = f[k]
    BY <1>3, <1>5, <1>10
  <2>4. QED
    BY <1>7, <1>8, <2>2, <2>3
<1>11. CASE s[k] # k
  <2>1. PICK m \in 1 .. k : s[m] = k
    BY <1>5, <1>9
  <2>2. m # k /\ m \in 1 .. l /\ m \in Nat
    BY <1>5, <1>11, <2>1
  <2> DEFINE t == [s EXCEPT ![m] = s[k]]
             v == f[s[k]]
  <2>3. t \in [Nat -> Nat] /\ t[m] = s[k] /\ \A i \in Nat : i # m => t[i] = s[i]
    BY <1>5, <2>2
  <2> HIDE DEF t
  <2>4. Permutes(t, l)
    <3>1. \A i \in 1 .. l : i \in 1 .. k /\ i # k /\ i \in Nat
      BY <1>5
    <3>2. \A i \in 1 .. k : i # k => i \in 1 .. l
      BY <1>5
    <3>3. ASSUME NEW i \in 1 .. l PROVE t[i] \in 1 .. l
      <4>1. CASE i = m
        BY <1>5, <1>9, <1>11, <2>3, <3>2, <4>1
      <4>2. CASE i # m
        <5>1. s[i] # k
          BY <1>9, <2>1, <3>1, <4>2
        <5>2. s[i] \in 1 .. l
          BY <1>9, <3>1, <3>2, <5>1
        <5>3. QED
          BY <2>3, <3>1, <4>2, <5>2
      <4>3. QED
        BY <4>1, <4>2
    <3>4. ASSUME NEW i \in 1 .. l, NEW j \in 1 .. l, t[i] = t[j] PROVE i = j
      <4>1. CASE i = m /\ j # m
        <5>1. s[k] = s[j]
          BY <2>3, <3>1, <3>4, <4>1
        <5>2. QED
          BY <1>5, <1>9, <3>1, <5>1
      <4>2. CASE i # m /\ j = m
        <5>1. s[k] = s[i]
          BY <2>3, <3>1, <3>4, <4>2
        <5>2. QED
          BY <1>5, <1>9, <3>1, <5>1
      <4>3. CASE i # m /\ j # m
        <5>1. s[i] = s[j]
          BY <2>3, <3>1, <3>4, <4>3
        <5>2. QED
          BY <1>9, <3>1, <5>1
      <4>4. QED
        BY <4>1, <4>2, <4>3
    <3>5. ASSUME NEW j \in 1 .. l PROVE \E i \in 1 .. l : t[i] = j
      <4>1. PICK i \in 1 .. k : s[i] = j
        BY <1>9, <3>1
      <4>2. i # m
        BY <2>1, <3>1, <4>1
      <4>3. CASE i = k
        <5>1. t[m] = j
          BY <2>3, <4>1, <4>3
        <5>2. QED
          BY <2>2, <5>1
      <4>4. CASE i # k
        <5>1. i \in 1 .. l /\ t[i] = j
          BY <2>3, <3>1, <3>2, <4>1, <4>2, <4>4
        <5>2. QED
          BY <5>1
      <4>5. QED
        BY <4>3, <4>4
    <3>6. QED
      BY <2>3, <3>3, <3>4, <3>5 DEF Permutes
  <2>5. Product(Of(t))[l] = Product(f)[l]
    BY <1>6, <2>3, <2>4
  <2>6. Of(t) = [g EXCEPT ![m] = v]
    <3>1. \A i \in Nat : f[t[i]] = IF i = m THEN v ELSE g[i]
      BY <1>3, <2>3
    <3>2. Of(t) = [i \in Nat |-> IF i = m THEN v ELSE g[i]]
      BY <3>1
    <3>3. [g EXCEPT ![m] = v] = [i \in Nat |-> IF i = m THEN v ELSE g[i]]
      BY <1>3
    <3>4. QED
      BY <3>2, <3>3
  <2>7. v \in Int /\ v = g[k] /\ g[m] = f[k]
    BY <1>3, <1>5, <2>1, <2>2
  <2> HIDE DEF v
  <2>8. Product(g)[l] * v = Product([g EXCEPT ![m] = v])[l] * g[m]
    <3>1. g \in [Nat -> Int] /\ m \in Nat /\ v \in Int /\ l \in Nat /\ m \in 1 .. l
      BY <1>3, <1>5, <2>2, <2>7
    <3>2. QED
      BY ONLY <3>1, ProductExchange
  <2>9. QED
    BY <1>7, <1>8, <2>5, <2>6, <2>7, <2>8
<1>12. QED
  BY <1>10, <1>11

--------------------------------------------------------------------------------
(* The little theorem of Fermat, and the residues.                          *)

\* The factors of a factorial, and the same factors times b, reduced.
Identity == [i \in Nat |-> i]

ScaledBy(b) == [i \in Nat |-> (b * i) % P]

\* The multiples of b are reduced, and congruent to what they are multiples of.
LEMMA ScaledIsNumber ==
  ASSUME NEW b \in Nat
  PROVE  /\ ScaledBy(b) \in [Nat -> Nat] /\ ScaledBy(b) \in [Nat -> Int]
         /\ \A i \in Nat : ScaledBy(b)[i] \in Field /\ Cong(ScaledBy(b)[i], b * i, P)
<1>1. ASSUME NEW i \in Nat PROVE (b * i) % P \in Field /\ Cong((b * i) % P, b * i, P)
  <2> DEFINE x == b * i
  <2>1. x \in Int
    OBVIOUS
  <2> HIDE DEF x
  <2>2. Rem(x, P) \in 0 .. P - 1 /\ Cong(Rem(x, P), x, P)
    BY <2>1, RemRange, RemCong, FieldFacts
  <2>3. QED
    BY <2>2 DEF Rem, Field, x
<1>2. Field \subseteq Nat
  BY FieldFacts DEF Field
<1> DEFINE V(i) == (b * i) % P
<1>3. ScaledBy(b) = [i \in Nat |-> V(i)]
  BY DEF ScaledBy
<1>4. \A i \in Nat : V(i) \in Field /\ Cong(V(i), b * i, P)
  BY <1>1
<1> HIDE DEF V
<1>5. /\ ScaledBy(b) \in [Nat -> Nat] /\ ScaledBy(b) \in [Nat -> Int]
      /\ \A i \in Nat : ScaledBy(b)[i] = V(i)
  <2>1. \A i \in Nat : V(i) \in Field
    BY <1>4, Zenon
  <2>2. \A i \in Nat : V(i) \in Nat
    BY <1>2, <2>1, Zenon
  <2>3. ScaledBy(b) \in [Nat -> Nat] /\ \A i \in Nat : ScaledBy(b)[i] = V(i)
    BY ONLY <1>3, <2>2
  <2>4. QED
    BY ONLY <2>3
<1>6. QED
  BY <1>4, <1>5

\* The identity maps numbers to numbers.
LEMMA IdentityIsNumber == Identity \in [Nat -> Int] /\ \A i \in Nat : Identity[i] = i
BY DEF Identity

\* In the field, to be congruent is to be equal.
LEMMA CongSmall ==
  ASSUME NEW a \in Field, NEW b \in Field, Cong(a, b, P)
  PROVE  a = b
<1>1. a \in 0 .. P - 1 /\ b \in 0 .. P - 1 /\ a \in Int /\ b \in Int
  BY FieldFacts DEF Field
<1>2. QED
  BY <1>1, CongIff, RemSmall, FieldFacts

\* What is above 0 and below P is not congruent to 0.
LEMMA NotZero ==
  ASSUME NEW n \in 1 .. P - 1
  PROVE  ~Cong(n, 0, P)
<1>1. n \in Field /\ 0 \in Field
  BY FieldFacts DEF Field
<1>2. QED
  BY <1>1, CongSmall

\* Multiplication by what is not 0 permutes what is not 0.
LEMMA ScalingPermutes ==
  ASSUME NEW b \in 1 .. P - 1
  PROVE  Permutes(ScaledBy(b), P - 1)
<1> DEFINE p == ScaledBy(b)
<1>1. b \in Nat /\ P \in Nat /\ P - 1 \in Nat
  BY FieldFacts
<1>2. p \in [Nat -> Nat] /\ \A i \in Nat : p[i] \in Field /\ Cong(p[i], b * i, P)
  BY <1>1, ScaledIsNumber
<1> HIDE DEF p
<1>3. ASSUME NEW i \in Int, Cong(b * i, 0, P) PROVE Cong(i, 0, P)
  <2>1. i * b = b * i /\ b \in Int
    BY <1>1
  <2>2. QED
    BY <1>3, <2>1, NotZero, Cancel, FieldFacts
<1>4. ASSUME NEW i \in 1 .. P - 1 PROVE p[i] \in 1 .. P - 1
  <2>1. i \in Nat /\ p[i] \in 0 .. P - 1 /\ p[i] \in Int
    BY <1>1, <1>2 DEF Field
  <2>2. p[i] # 0
    <3> SUFFICES ASSUME p[i] = 0 PROVE FALSE
      OBVIOUS
    <3> DEFINE x == b * i
    <3>1. Cong(0, x, P) /\ x \in Int
      BY <1>1, <1>2, <2>1
    <3> HIDE DEF x
    <3>2. Cong(x, 0, P)
      BY <1>1, <3>1, CongSym
    <3>3. Cong(i, 0, P)
      BY <1>3, <2>1, <3>2 DEF x
    <3>4. QED
      BY <3>3, NotZero
  <2>3. QED
    BY <1>1, <2>1, <2>2
<1>5. ASSUME NEW i \in 1 .. P - 1, NEW j \in 1 .. P - 1, p[i] = p[j] PROVE i = j
  <2> DEFINE x == b * i
             y == b * j
  <2>1. i \in Nat /\ j \in Nat /\ x \in Int /\ y \in Int /\ p[i] \in Int
    BY <1>1, <1>2
  <2>2. Cong(p[i], x, P) /\ Cong(p[i], y, P)
    BY <1>2, <1>5, <2>1
  <2>3. x - y = b * (i - j) /\ i - j \in Int /\ x - x = 0
    BY <1>1, <2>1
  <2> HIDE DEF x, y
  <2>4. Cong(x, y, P)
    BY <1>1, <2>1, <2>2, CongSym, CongTrans
  <2>5. Cong(x - y, 0, P)
    <3>1. PICK k \in Int : x = y + P * k
      BY <2>4 DEF Cong
    <3>2. P * k \in Int
      BY <1>1
    <3>3. x - y = 0 + P * k
      BY <2>1, <3>1, <3>2
    <3>4. QED
      BY <3>3 DEF Cong
  <2>6. Cong(i - j, 0, P)
    BY <1>3, <2>3, <2>5
  <2>7. PICK k \in Int : i - j = 0 + P * k
    BY <2>6 DEF Cong
  <2>8. P * k \in Int /\ i = j + P * k
    BY <1>1, <2>1, <2>7
  <2>9. Cong(i, j, P)
    BY <2>8 DEF Cong
  <2>10. i \in Field /\ j \in Field
    BY <1>1 DEF Field
  <2>11. QED
    BY <2>9, <2>10, CongSmall
<1>6. ASSUME NEW j \in 1 .. P - 1 PROVE \E i \in 1 .. P - 1 : p[i] = j
  <2>1. PICK c \in 0 .. P - 1 : Cong(c * b, 1, P)
    BY <1>1, InverseExists, FieldFacts
  <2> DEFINE x == c * j
             i == Rem(x, P)
  <2>2. c \in Int /\ j \in Int /\ x \in Int
    BY <1>1
  <2> HIDE DEF x
  <2>3. i \in 0 .. P - 1 /\ Cong(i, x, P)
    BY <2>2, RemRange, RemCong, FieldFacts
  <2> HIDE DEF i
  <2>4. i \in Nat /\ i \in Int /\ b \in Int
    BY <1>1, <2>3
  <2> DEFINE y == i * b
             z == x * b
  <2>5. y \in Int /\ z \in Int /\ y = b * i /\ z = (c * b) * j
    BY <2>2, <2>4 DEF x
  <2>6. Cong(y, z, P)
    BY <2>2, <2>3, <2>4, CongProduct, FieldFacts
  <2>7. Cong((c * b) * j, j, P)
    <3> DEFINE d == c * b
    <3>1. d \in Int /\ Cong(d, 1, P)
      BY <2>1, <2>2, <2>4
    <3> HIDE DEF d
    <3>2. Cong(d * j, j, P)
      BY <1>1, <2>2, <3>1, CongOne
    <3>3. QED
      BY <3>2 DEF d
  <2>8. Cong(z, j, P)
    BY <2>5, <2>7
  <2> HIDE DEF y, z
  <2>9. Cong(y, j, P)
    BY <1>1, <2>2, <2>5, <2>6, <2>8, CongTrans
  <2>10. Cong(p[i], y, P) /\ p[i] \in Field /\ p[i] \in Int
    BY <1>2, <2>4, <2>5
  <2>11. Cong(p[i], j, P)
    BY <1>1, <2>2, <2>5, <2>9, <2>10, CongTrans
  <2>12. j \in Field
    BY <1>1 DEF Field
  <2>13. p[i] = j
    BY <2>10, <2>11, <2>12, CongSmall
  <2>14. i # 0
    <3> SUFFICES ASSUME i = 0 PROVE FALSE
      OBVIOUS
    <3>1. y = 0
      BY <2>4, <2>5
    <3>2. Cong(j, 0, P)
      BY <1>1, <2>2, <2>5, <2>9, <3>1, CongSym
    <3>3. QED
      BY <3>2, NotZero
  <2>15. i \in 1 .. P - 1
    BY <1>1, <2>3, <2>14
  <2>16. QED
    BY <2>13, <2>15
<1>7. QED
  BY <1>2, <1>4, <1>5, <1>6 DEF Permutes, p

\* The product of n multiples of b has a factor b^n.
LEMMA ProductScaled ==
  ASSUME NEW b \in Nat, NEW n \in Nat
  PROVE  Cong(Product(ScaledBy(b))[n], Power(b)[n] * Product(Identity)[n], P)
<1> DEFINE f == ScaledBy(b)
           T == {k \in Nat : ~Cong(Product(f)[k], Power(b)[k] * Product(Identity)[k], P)}
<1> SUFFICES ASSUME T # {} PROVE FALSE
  OBVIOUS
<1>1. PICK k \in T : \A i \in T : k <= i
  <2>1. T \subseteq Nat
    OBVIOUS
  <2> HIDE DEF T
  <2>2. QED
    BY <2>1, LeastNumber
<1>2. k \in Nat /\ ~Cong(Product(f)[k], Power(b)[k] * Product(Identity)[k], P)
  OBVIOUS
<1>3. /\ f \in [Nat -> Int] /\ \A i \in Nat : f[i] \in Int /\ Cong(f[i], b * i, P)
      /\ Identity \in [Nat -> Int] /\ \A i \in Nat : Identity[i] = i
  <2>1. /\ f \in [Nat -> Int] /\ \A i \in Nat : Cong(f[i], b * i, P)
    BY ScaledIsNumber
  <2> HIDE DEF f
  <2>2. \A i \in Nat : f[i] \in Int
    BY <2>1
  <2>3. QED
    BY <2>1, <2>2, IdentityIsNumber
<1> HIDE DEF f
<1>4. k # 0
  <2>1. Product(f)[0] = 1 /\ Product(Identity)[0] = 1 /\ Power(b)[0] = 1 /\ 1 * 1 = 1
    <3>1. b \in Int
      OBVIOUS
    <3>2. Power(b)[0] = 1
      BY <3>1, PowerUnfolds
    <3>3. Product(f)[0] = 1 /\ Product(Identity)[0] = 1
      BY <1>3, ProductUnfolds
    <3>4. QED
      BY <3>2, <3>3
  <2>2. Cong(1, 1, P)
    BY CongRefl, FieldFacts
  <2>3. QED
    BY <1>2, <2>1, <2>2
<1> DEFINE l == k - 1
           u == Product(f)[l]
           v == Product(Identity)[l]
           w == Power(b)[l]
           z == Power(b)[k]
<1>5. l \in Nat /\ k = l + 1 /\ ~(k <= l)
  BY <1>2, <1>4
<1>6. Cong(u, w * v, P)
  BY <1>1, <1>5
<1> HIDE DEF l, T
<1>7. /\ u \in Int /\ v \in Int /\ w \in Int /\ z \in Int
      /\ Product(f)[k] = u * f[k] /\ Product(Identity)[k] = v * k
  <2>1. k \in Nat /\ Identity[k] = k
    BY <1>2, <1>3
  <2>2. /\ u \in Int /\ v \in Int
        /\ Product(f)[l + 1] = u * f[l + 1] /\ Product(Identity)[l + 1] = v * Identity[l + 1]
    BY <1>3, <1>5, ProductUnfolds
  <2>3. w \in Int /\ z \in Int
    BY <1>5, <2>1, PowerIsNumber
  <2>4. QED
    BY <1>5, <2>1, <2>2, <2>3
<1>8. Cong(z, b * w, P)
  BY <1>5, PowerNext
<1>9. f[k] \in Int /\ Cong(f[k], b * k, P)
  BY <1>2, <1>3
<1>10. ~Cong(u * f[k], z * (v * k), P)
  BY <1>2, <1>7
<1> HIDE DEF u, v, w, z
<1> DEFINE x == w * v
           y == b * k
           t == v * k
           s == b * w
<1>11. x \in Int /\ y \in Int /\ t \in Int /\ s \in Int /\ x * y = s * t
  BY <1>2, <1>7
<1>12. Cong(u, x, P) /\ Cong(f[k], y, P) /\ Cong(z, s, P) /\ ~Cong(u * f[k], z * t, P)
  BY <1>6, <1>8, <1>9, <1>10
<1> HIDE DEF x, y, t, s
<1>13. Cong(u * f[k], x * y, P)
  BY <1>7, <1>9, <1>11, <1>12, CongOps, FieldFacts
<1>14. Cong(z * t, s * t, P)
  BY <1>7, <1>11, <1>12, CongProduct, FieldFacts
<1> DEFINE aa == u * f[k]
           bb == x * y
           cc == z * t
<1>15. aa \in Int /\ bb \in Int /\ cc \in Int
  BY <1>7, <1>9, <1>11
<1>16. Cong(aa, bb, P) /\ Cong(cc, bb, P) /\ ~Cong(aa, cc, P)
  BY <1>11, <1>12, <1>13, <1>14
<1> HIDE DEF aa, bb, cc
<1>17. QED
  BY <1>15, <1>16, CongSym, CongTrans, FieldFacts

\* P does not divide a product of numbers below it.
LEMMA FactorialNotZero ==
  ASSUME NEW n \in 0 .. P - 1
  PROVE  ~Cong(Product(Identity)[n], 0, P)
<1> DEFINE T == {k \in Nat : k <= P - 1 /\ Cong(Product(Identity)[k], 0, P)}
<1>1. Identity \in [Nat -> Int] /\ \A i \in Nat : Identity[i] = i
  BY DEF Identity
<1> SUFFICES ASSUME T # {} PROVE FALSE
  BY FieldFacts
<1>2. PICK k \in T : \A i \in T : k <= i
  <2>1. T \subseteq Nat
    OBVIOUS
  <2> HIDE DEF T
  <2>2. QED
    BY <2>1, LeastNumber
<1>3. k \in Nat /\ k <= P - 1 /\ Cong(Product(Identity)[k], 0, P)
  OBVIOUS
<1>4. k # 0
  <2>1. 1 \in 1 .. P - 1
    BY FieldFacts
  <2>2. ~Cong(1, 0, P)
    BY <2>1, NotZero
  <2>3. QED
    BY <1>1, <1>3, <2>2, ProductUnfolds
<1> DEFINE l == k - 1
           u == Product(Identity)[l]
<1>5. l \in Nat /\ k = l + 1 /\ ~(k <= l) /\ l <= P - 1 /\ k \in 1 .. P - 1
  BY <1>3, <1>4, FieldFacts
<1>6. ~Cong(u, 0, P)
  BY <1>2, <1>5
<1> HIDE DEF l, T
<1>7. u \in Int /\ Product(Identity)[k] = u * k
  BY <1>1, <1>3, <1>5, ProductUnfolds
<1> HIDE DEF u
<1>8. ~Cong(k, 0, P) /\ k \in Int /\ Cong(u * k, 0, P)
  BY <1>3, <1>5, <1>7, NotZero
<1>9. QED
  BY <1>6, <1>7, <1>8, Cancel, FieldFacts

\* The little theorem of Fermat: the product of all that is not 0 is the same after
\* scaling by b, which multiplies it by the power P - 1 of b.
LEMMA Fermat ==
  ASSUME NEW b \in 1 .. P - 1
  PROVE  Cong(Power(b)[P - 1], 1, P)
<1> DEFINE n == P - 1
           f == ScaledBy(b)
           u == Product(Identity)[n]
           z == Power(b)[n]
<1>1. n \in Nat /\ n \in 0 .. P - 1 /\ b \in Nat /\ b \in Int
  BY FieldFacts
<1>2. Permutes(f, n)
  BY ScalingPermutes
<1>3. Identity \in [Nat -> Int] /\ f \in [Nat -> Nat]
  BY <1>1, ScaledIsNumber, IdentityIsNumber
<1> HIDE DEF n
<1>4. Product([i \in Nat |-> Identity[f[i]]])[n] = u
  BY <1>1, <1>2, <1>3, ProductPermuted
<1>5. [i \in Nat |-> Identity[f[i]]] = f
  BY <1>3 DEF Identity
<1>6. Cong(Product(f)[n], z * u, P)
  BY <1>1, ProductScaled
<1>7. u \in Int /\ z \in Int /\ ~Cong(u, 0, P)
  BY <1>1, <1>3, ProductUnfolds, PowerIsNumber, FactorialNotZero
<1>8. Cong(u, z * u, P)
  BY <1>4, <1>5, <1>6
<1> HIDE DEF u, z
<1>9. Cong((z - 1) * u, 0, P)
  <2>1. PICK k \in Int : u = z * u + P * k
    BY <1>8 DEF Cong
  <2>2. (z - 1) * u = z * u - u /\ z * u \in Int /\ P * k \in Int /\ P * (0 - k) = 0 - P * k /\ 0 - k \in Int
    BY <1>7, FieldFacts
  <2>3. (z - 1) * u = 0 + P * (0 - k)
    BY <1>7, <2>1, <2>2
  <2>4. QED
    BY <2>2, <2>3 DEF Cong
<1>10. Cong(z - 1, 0, P)
  <2>1. z - 1 \in Int
    BY <1>7
  <2>2. QED
    BY <1>7, <1>9, <2>1, Cancel, FieldFacts
<1>11. Cong(z, 1, P)
  <2>1. PICK k \in Int : z - 1 = 0 + P * k
    BY <1>10 DEF Cong
  <2>2. P * k \in Int
    BY FieldFacts
  <2>3. z = 1 + P * k
    BY <1>7, <2>1, <2>2
  <2>4. QED
    BY <2>3 DEF Cong
<1>12. QED
  BY <1>11 DEF z, n

--------------------------------------------------------------------------------
(* The invariant of a submission.                                           *)

\* What a verifier may say, and what the variables hold.
Outcome == {"true", "false", "revert", "abort", "reject", "crash"}

TypeOK ==
  /\ hashes \in HashStream
  /\ proof \in Proof \cup {None}
  /\ witness \in [response : Response, with : Witness] \cup {None}
  /\ challenge \in [Response -> Challenge \cup {None}]
  /\ asked \in Response \cup {None}
  /\ outcome \in [Response -> UNION {[V -> Outcome] : V \in SUBSET Verifier}]

\* What has answered, answered for the submission under the challenge there is.
AnswersOf(resp) ==
  LET o == outcome[resp]
      e == challenge[resp]
  IN  /\ DOMAIN o \in {{}, {"evm"}, {"evm", "go"}, Verifier}
      /\ DOMAIN o # {} => proof # None /\ e # None
      /\ "evm" \in DOMAIN o => o["evm"] = EvmVerify(e)
      /\ "go" \in DOMAIN o => o["go"] = GoEvaluate(resp, e)
      /\ "python" \in DOMAIN o =>
           \E result \in PythonEquation(e) :
             o["python"] = PythonEvaluate(resp, result) /\ o["auditor"] = result

\* A submission with a witness is the one that the prover makes of it.
MadeByProver ==
  LET w == witness.with
      e == challenge[witness.response]
  IN  /\ witness.response \in Verdicts
      /\ e # None
      /\ Commit(w.m, w.r) # Inf /\ Commit(w.km, w.kr) # Inf
      /\ proof = [version |-> Version, C |-> Commit(w.m, w.r), R |-> Commit(w.km, w.kr),
                  sm |-> Answer(w.km, e, w.m), sr |-> Answer(w.kr, e, w.r)]

\* The inductive invariant of a submission.
SubmissionInv ==
  /\ TypeOK
  /\ \A resp \in Response : AnswersOf(resp)
  /\ asked # None => proof # None /\ challenge[asked] # None
  /\ witness # None => proof # None /\ MadeByProver

\* The answer of one verifier, as a function.
LEMMA OneAnswer ==
  ASSUME NEW v
  PROVE  /\ DOMAIN [evm |-> v] = {"evm"} /\ [evm |-> v]["evm"] = v
         /\ DOMAIN [go |-> v] = {"go"} /\ [go |-> v]["go"] = v
OBVIOUS

\* The answers of the two in Python.
LEMMA TwoAnswers ==
  ASSUME NEW v, NEW u
  PROVE  /\ DOMAIN [python |-> v, auditor |-> u] = {"python", "auditor"}
         /\ [python |-> v, auditor |-> u]["python"] = v
         /\ [python |-> v, auditor |-> u]["auditor"] = u
OBVIOUS

\* No verifier answers anything else.
LEMMA AnswersAreOutcomes ==
  /\ \A e : EvmVerify(e) \in Outcome
  /\ \A resp, e : GoEvaluate(resp, e) \in Outcome
  /\ \A e : PythonEquation(e) \subseteq {"true", "false", "crash"}
  /\ \A resp, result : PythonEvaluate(resp, result) \in {"reject", result}
<1>1. \A e : EvmVerify(e) \in Outcome
  BY DEF EvmVerify, Outcome
<1>2. \A resp, e : GoEvaluate(resp, e) \in Outcome
  BY DEF GoEvaluate, Outcome
<1>3. \A e : PythonEquation(e) \subseteq {"true", "false", "crash"}
  BY DEF PythonEquation
<1>4. \A resp, result : PythonEvaluate(resp, result) \in {"reject", result}
  BY DEF PythonEvaluate
<1>5. QED
  BY <1>1, <1>2, <1>3, <1>4

\* What an answer changes.
LEMMA AnsweredEffect ==
  ASSUME TypeOK, NEW results, NEW others, Answered(results, others),
         others \subseteq Verifier, DOMAIN results \subseteq Verifier \ others,
         \A w \in DOMAIN results : results[w] \in Outcome
  PROVE  /\ asked \in Response
         /\ outcome' \in [Response -> UNION {[V -> Outcome] : V \in SUBSET Verifier}]
         /\ \A resp \in Response \ {asked} : outcome'[resp] = outcome[resp]
         /\ DOMAIN outcome[asked] = others
         /\ DOMAIN outcome'[asked] = others \cup DOMAIN results
         /\ \A w \in others : outcome'[asked][w] = outcome[asked][w]
         /\ \A w \in DOMAIN results : outcome'[asked][w] = results[w]
         /\ proof' = proof /\ challenge' = challenge
<1>1. asked \in Response /\ DOMAIN outcome = Response
  BY DEF TypeOK, Answered
<1> DEFINE V == others \cup DOMAIN results
           f == [w \in V |-> IF w \in others THEN outcome[asked][w] ELSE results[w]]
<1>2. outcome' = [outcome EXCEPT ![asked] = f] /\ DOMAIN outcome[asked] = others
  BY DEF Answered
<1>3. \A w \in others : outcome[asked][w] \in Outcome
  <2>1. outcome[asked] \in UNION {[U -> Outcome] : U \in SUBSET Verifier}
    BY <1>1 DEF TypeOK
  <2>2. PICK U \in SUBSET Verifier : outcome[asked] \in [U -> Outcome]
    BY <2>1
  <2>3. QED
    BY <1>2, <2>2
<1>4. f \in [V -> Outcome] /\ V \in SUBSET Verifier
  BY <1>3
<1>5. f \in UNION {[U -> Outcome] : U \in SUBSET Verifier}
  BY <1>4
<1>6. outcome'[asked] = f /\ \A resp \in Response \ {asked} : outcome'[resp] = outcome[resp]
  BY <1>1, <1>2
<1>7. outcome' \in [Response -> UNION {[U -> Outcome] : U \in SUBSET Verifier}]
  <2> HIDE DEF f, V
  <2>1. QED
    BY <1>2, <1>5 DEF TypeOK
<1>8. proof' = proof /\ challenge' = challenge
  BY DEF Answered
<1>9. QED
  BY <1>1, <1>2, <1>6, <1>7, <1>8

\* Nothing is submitted at first.
LEMMA Initially == Init => SubmissionInv
<1> SUFFICES ASSUME Init PROVE SubmissionInv
  OBVIOUS
<1>1. /\ hashes \in HashStream /\ proof = None /\ witness = None /\ asked = None
      /\ challenge = [resp \in Response |-> None]
      /\ outcome = [resp \in Response |-> <<>>]
  BY DEF Init
<1>2. <<>> \in UNION {[V -> Outcome] : V \in SUBSET Verifier} /\ DOMAIN <<>> = {}
  <2>1. <<>> \in [{} -> Outcome] /\ {} \in SUBSET Verifier /\ DOMAIN <<>> = {}
    OBVIOUS
  <2>2. QED
    BY <2>1
<1>3. TypeOK
  BY <1>1, <1>2 DEF TypeOK
<1>4. \A resp \in Response : outcome[resp] = <<>>
  BY <1>1
<1>5. \A resp \in Response : AnswersOf(resp)
  BY <1>2, <1>4 DEF AnswersOf
<1>6. QED
  BY <1>1, <1>3, <1>5 DEF SubmissionInv

\* The verifiers read the submission and the challenge, and nothing else.
LEMMA SameAnswers ==
  ASSUME proof' = proof, hashes' = hashes, NEW resp, challenge'[resp] = challenge[resp]
  PROVE  /\ EvmVerify(challenge[resp])' = EvmVerify(challenge[resp])
         /\ GoEvaluate(resp, challenge[resp])' = GoEvaluate(resp, challenge[resp])
         /\ PythonEquation(challenge[resp])' = PythonEquation(challenge[resp])
         /\ \A result : PythonEvaluate(resp, result)' = PythonEvaluate(resp, result)
<1>1. H' = H
  BY DEF H
<1>2. \A sm, sr : LeftSide(sm, sr)' = LeftSide(sm, sr)
  BY <1>1 DEF LeftSide
<1>3. EvmVerify(challenge[resp])' = EvmVerify(challenge[resp])
  BY <1>1 DEF EvmVerify, LeftSide
<1>4. GoEvaluate(resp, challenge[resp])' = GoEvaluate(resp, challenge[resp])
  BY <1>1 DEF GoEvaluate, GoVersion, LeftSide
<1>5. PythonEquation(challenge[resp])' = PythonEquation(challenge[resp])
  BY <1>1 DEF PythonEquation, LeftSide
<1>6. \A result : PythonEvaluate(resp, result)' = PythonEvaluate(resp, result)
  BY DEF PythonEvaluate, PythonVersion
<1>7. QED
  BY <1>3, <1>4, <1>5, <1>6

\* An answer stands while the submission and its challenge do.
LEMMA AnswersKept ==
  ASSUME proof' = proof, hashes' = hashes,
         NEW resp, challenge'[resp] = challenge[resp], outcome'[resp] = outcome[resp], AnswersOf(resp)
  PROVE  AnswersOf(resp)'
<1>1. /\ EvmVerify(challenge[resp])' = EvmVerify(challenge[resp])
      /\ GoEvaluate(resp, challenge[resp])' = GoEvaluate(resp, challenge[resp])
      /\ PythonEquation(challenge[resp])' = PythonEquation(challenge[resp])
      /\ \A result : PythonEvaluate(resp, result)' = PythonEvaluate(resp, result)
  BY SameAnswers
<1>2. QED
  BY <1>1 DEF AnswersOf

\* Without a submission, nobody has answered.
LEMMA NothingAnswered ==
  ASSUME SubmissionInv, proof = None, NEW resp \in Response
  PROVE  DOMAIN outcome[resp] = {} /\ asked = None
BY DEF SubmissionInv, AnswersOf

\* No answer, nothing to hold.
LEMMA NoAnswers ==
  ASSUME NEW resp, DOMAIN outcome'[resp] = {}
  PROVE  AnswersOf(resp)'
BY DEF AnswersOf

\* The record of the prover stands while its challenge does.
LEMMA MadeKept ==
  ASSUME proof' = proof, hashes' = hashes, witness' = witness,
         challenge'[witness.response] = challenge[witness.response], MadeByProver
  PROVE  MadeByProver'
<1>1. H' = H
  BY DEF H
<1>2. QED
  BY <1>1 DEF MadeByProver, Commit

\* H is a point, and not the identity.
LEMMA HIsPoint ==
  ASSUME hashes \in HashStream
  PROVE  H \in Point /\ H # Inf /\ H = DeriveH(hashes)
<1>1. H = DeriveH(hashes)
  BY DEF H, Generator
<1>2. QED
  BY <1>1, GeneratorOnCurve

\* Commitments are points.
LEMMA CommitIsPoint ==
  ASSUME hashes \in HashStream, NEW m \in Nat, NEW r \in Nat
  PROVE  Commit(m, r) \in Point
<1>1. ScalarMul(m, G) \in Point /\ ScalarMul(r, H) \in Point
  BY HIsPoint, GeneratorIsPoint, ScalarMulOfPoint
<1>2. QED
  BY <1>1, AddIsPoint DEF Commit

\* A point that is not the identity has coordinates.
LEMMA PointIsPair ==
  ASSUME NEW pt \in Point, pt # Inf
  PROVE  pt \in Field \X Field /\ pt \in Int \X Int /\ OnCurve(pt) /\ pt = <<pt[1], pt[2]>>
<1>1. pt \in Field \X Field /\ OnCurve(pt)
  BY DEF Point
<1>2. Field \subseteq Int
  BY FieldFacts DEF Field
<1>3. PICK x \in Field, y \in Field : pt = <<x, y>>
  BY <1>1
<1>4. x \in Int /\ y \in Int
  BY <1>2
<1>5. QED
  BY <1>1, <1>3, <1>4

\* The prover's answers are reduced.
LEMMA AnswerIsNumber ==
  ASSUME NEW k \in Nat, NEW e \in Nat, NEW x \in Nat
  PROVE  Answer(k, e, x) \in 0 .. N - 1
<1>1. k + e * x \in Int
  <2>1. e * x \in Nat
    OBVIOUS
  <2>2. QED
    BY <2>1
<1>2. Rem(k + e * x, N) \in 0 .. N - 1
  BY <1>1, RemRange, OrderFacts
<1>3. QED
  BY <1>2 DEF Rem, Answer

\* The prover's submission is what MadeByProver says, and nobody has answered yet.
LEMMA ProveStep ==
  ASSUME SubmissionInv, NEW resp \in Response \cap Verdicts, NEW w \in Witness, NEW e \in Challenge,
         Prove(resp, w, e)
  PROVE  SubmissionInv'
<1> DEFINE C == Commit(w.m, w.r)
           R == Commit(w.km, w.kr)
           sm == Answer(w.km, e, w.m)
           sr == Answer(w.kr, e, w.r)
<1>1. /\ proof = None /\ C # Inf /\ R # Inf
      /\ proof' = [version |-> Version, C |-> C, R |-> R, sm |-> sm, sr |-> sr]
      /\ witness' = [response |-> resp, with |-> w]
      /\ challenge' = [challenge EXCEPT ![resp] = e]
      /\ UNCHANGED <<hashes, asked, outcome>>
  BY DEF Prove
<1>2. hashes \in HashStream /\ DOMAIN challenge = Response /\ TypeOK
  BY DEF SubmissionInv, TypeOK
<1>3. w.m \in Nat /\ w.r \in Nat /\ w.km \in Nat /\ w.kr \in Nat
  BY WitnessAssumption
<1>4. C \in Int \X Int /\ R \in Int \X Int
  BY <1>1, <1>2, <1>3, CommitIsPoint, PointIsPair
<1>5. sm \in Int /\ sr \in Int
  <2>1. e \in Nat
    BY ChallengeAssumption, OrderFacts
  <2>2. sm \in 0 .. N - 1 /\ sr \in 0 .. N - 1
    BY <1>3, <2>1, AnswerIsNumber
  <2>3. QED
    BY <2>2, OrderFacts
<1> HIDE DEF C, R, sm, sr
<1>6. proof' \in Proof /\ proof' # None
  BY <1>1, <1>4, <1>5, NoneAssumption DEF Proof, Version
<1>7. \A q \in Response : DOMAIN outcome'[q] = {}
  BY <1>1, NothingAnswered
<1>8. \A q \in Response : AnswersOf(q)'
  BY <1>7, NoAnswers
<1>9. TypeOK'
  <2>1. challenge' \in [Response -> Challenge \cup {None}]
    BY <1>1, <1>2 DEF TypeOK
  <2>2. witness' \in [response : Response, with : Witness]
    BY <1>1
  <2>3. QED
    BY <1>1, <1>2, <1>6, <2>1, <2>2 DEF TypeOK
<1>10. asked' = None
  BY <1>1, NothingAnswered
<1>11. MadeByProver'
  <2>1. H' = H
    BY <1>1 DEF H
  <2>2. challenge'[resp] = e /\ e # None
    BY <1>1, <1>2, NoneAssumption
  <2>3. witness'.response = resp /\ witness'.with = w
    BY <1>1
  <2>4. QED
    BY <1>1, <2>1, <2>2, <2>3 DEF MadeByProver, Commit, C, R, sm, sr
<1>12. QED
  BY <1>6, <1>8, <1>9, <1>10, <1>11 DEF SubmissionInv

\* A submission from elsewhere is a record, and has no witness.
LEMMA SubmitStep ==
  ASSUME SubmissionInv, NEW s \in Submission, Submit(s)
  PROVE  SubmissionInv'
<1>1. proof = None /\ proof' = s /\ UNCHANGED <<hashes, witness, challenge, asked, outcome>>
  BY DEF Submit
<1>2. TypeOK'
  BY <1>1, SubmissionAssumption DEF SubmissionInv, TypeOK
<1>3. \A q \in Response : DOMAIN outcome'[q] = {}
  BY <1>1, NothingAnswered
<1>4. \A q \in Response : AnswersOf(q)'
  BY <1>3, NoAnswers
<1>5. asked' = None
  <2>1. CASE Response = {}
    BY <1>1, <2>1 DEF SubmissionInv, TypeOK
  <2>2. CASE Response # {}
    BY <1>1, <2>2, NothingAnswered
  <2>3. QED
    BY <2>1, <2>2
<1>6. witness' = None
  BY <1>1 DEF SubmissionInv
<1>7. QED
  BY <1>2, <1>4, <1>5, <1>6 DEF SubmissionInv

\* The response that is tried has no answers, and a challenge already drawn stays.
LEMMA AskStep ==
  ASSUME SubmissionInv, NEW resp \in Response, NEW e \in Challenge, Ask(resp, e)
  PROVE  SubmissionInv'
<1>1. /\ proof # None /\ outcome[resp] = <<>> /\ challenge[resp] \in {None, e}
      /\ challenge' = [challenge EXCEPT ![resp] = e] /\ asked' = resp
      /\ UNCHANGED <<hashes, proof, witness, outcome>>
  BY DEF Ask
<1>2. TypeOK /\ DOMAIN challenge = Response /\ e # None
  BY NoneAssumption DEF SubmissionInv, TypeOK
<1>3. challenge'[resp] = e /\ \A q \in Response \ {resp} : challenge'[q] = challenge[q]
  BY <1>1, <1>2
<1>4. TypeOK'
  <2>1. challenge' \in [Response -> Challenge \cup {None}]
    BY <1>1, <1>2 DEF TypeOK
  <2>2. QED
    BY <1>1, <1>2, <2>1 DEF TypeOK
<1>5. ASSUME NEW q \in Response PROVE AnswersOf(q)'
  <2>1. CASE q = resp
    <3>1. DOMAIN outcome'[q] = {}
      BY <1>1, <2>1
    <3>2. QED
      BY <3>1, NoAnswers
  <2>2. CASE q # resp
    <3>1. challenge'[q] = challenge[q] /\ outcome'[q] = outcome[q] /\ AnswersOf(q)
      BY <1>1, <1>3, <2>2 DEF SubmissionInv
    <3>2. QED
      BY <1>1, <3>1, AnswersKept
  <2>3. QED
    BY <2>1, <2>2
<1>6. asked' # None => proof' # None /\ challenge'[asked'] # None
  BY <1>1, <1>2, <1>3
<1>7. witness' # None => proof' # None /\ MadeByProver'
  <2> SUFFICES ASSUME witness # None PROVE proof # None /\ MadeByProver'
    BY <1>1
  <2>1. proof # None /\ MadeByProver
    BY DEF SubmissionInv
  <2>2. witness.response \in Response
    BY DEF SubmissionInv, TypeOK
  <2>3. challenge[witness.response] # None
    BY <2>1 DEF MadeByProver
  <2>4. challenge'[witness.response] = challenge[witness.response]
    BY <1>1, <1>3, <2>2, <2>3
  <2>5. QED
    BY <1>1, <2>1, <2>4, MadeKept
<1>8. QED
  BY <1>4, <1>5, <1>6, <1>7 DEF SubmissionInv

\* An answer leaves everything else of the invariant as it is.
LEMMA AnsweredStep ==
  ASSUME SubmissionInv, NEW results, NEW others, Answered(results, others),
         others \subseteq Verifier, DOMAIN results \subseteq Verifier \ others,
         \A w \in DOMAIN results : results[w] \in Outcome,
         NEW resp, resp = asked, AnswersOf(resp)', asked' \in {asked, None}
  PROVE  SubmissionInv'
<1>1. TypeOK
  BY DEF SubmissionInv
<1>2. /\ asked \in Response
      /\ outcome' \in [Response -> UNION {[V -> Outcome] : V \in SUBSET Verifier}]
      /\ \A q \in Response \ {asked} : outcome'[q] = outcome[q]
  BY <1>1, AnsweredEffect
<1>3. UNCHANGED <<hashes, proof, witness, challenge>>
  BY DEF Answered
<1>4. TypeOK'
  BY <1>1, <1>2, <1>3 DEF TypeOK
<1>5. ASSUME NEW q \in Response PROVE AnswersOf(q)'
  <2>1. CASE q = asked
    BY <2>1
  <2>2. CASE q # asked
    <3>1. challenge'[q] = challenge[q] /\ outcome'[q] = outcome[q] /\ AnswersOf(q)
      BY <1>2, <1>3, <2>2 DEF SubmissionInv
    <3>2. QED
      BY <1>3, <3>1, AnswersKept
  <2>3. QED
    BY <2>1, <2>2
<1>6. asked' # None => proof' # None /\ challenge'[asked'] # None
  BY <1>3 DEF SubmissionInv
<1>7. witness' # None => proof' # None /\ MadeByProver'
  BY <1>3, MadeKept DEF SubmissionInv
<1>8. QED
  BY <1>4, <1>5, <1>6, <1>7 DEF SubmissionInv

\* The first answer is that of the EVM.
LEMMA EvmStep ==
  ASSUME SubmissionInv, Evm
  PROVE  SubmissionInv'
<1> DEFINE results == [evm |-> EvmVerify(challenge[asked])]
<1>1. Answered(results, {}) /\ asked' = asked
  BY DEF Evm
<1>2. DOMAIN results = {"evm"} /\ results["evm"] = EvmVerify(challenge[asked])
  BY OneAnswer
<1>3. results["evm"] \in Outcome
  BY <1>2, AnswersAreOutcomes
<1> HIDE DEF results
<1>4. DOMAIN results \subseteq Verifier \ {} /\ \A w \in DOMAIN results : results[w] \in Outcome
  BY <1>2, <1>3 DEF Verifier
<1>5. PICK resp : resp = asked
  OBVIOUS
<1>6. /\ resp \in Response
      /\ DOMAIN outcome'[resp] = {"evm"} /\ outcome'[resp]["evm"] = EvmVerify(challenge[resp])
      /\ proof' = proof /\ challenge' = challenge /\ hashes' = hashes
  <2>1. TypeOK
    BY DEF SubmissionInv
  <2>2. hashes' = hashes
    BY <1>1 DEF Answered
  <2>3. QED
    BY <1>1, <1>2, <1>4, <1>5, <2>1, <2>2, AnsweredEffect
<1>7. AnswersOf(resp)'
  <2>1. proof # None /\ challenge[resp] # None
    BY <1>1, <1>5 DEF SubmissionInv, Answered
  <2>2. EvmVerify(challenge[resp])' = EvmVerify(challenge[resp])
    BY <1>6, SameAnswers
  <2>3. QED
    BY <1>6, <2>1, <2>2 DEF AnswersOf
<1>8. QED
  BY <1>1, <1>4, <1>5, <1>7, AnsweredStep

\* The second is that of Go, and leaves the first.
LEMMA GoStep ==
  ASSUME SubmissionInv, Go
  PROVE  SubmissionInv'
<1> DEFINE results == [go |-> GoEvaluate(asked, challenge[asked])]
<1>1. Answered(results, {"evm"}) /\ asked' = asked
  BY DEF Go
<1>2. DOMAIN results = {"go"} /\ results["go"] = GoEvaluate(asked, challenge[asked])
  BY OneAnswer
<1>3. results["go"] \in Outcome
  BY <1>2, AnswersAreOutcomes
<1> HIDE DEF results
<1>4. DOMAIN results \subseteq Verifier \ {"evm"} /\ \A w \in DOMAIN results : results[w] \in Outcome
  BY <1>2, <1>3 DEF Verifier
<1>5. PICK resp : resp = asked
  OBVIOUS
<1>6. /\ resp \in Response /\ DOMAIN outcome[resp] = {"evm"}
      /\ DOMAIN outcome'[resp] = {"evm", "go"}
      /\ outcome'[resp]["evm"] = outcome[resp]["evm"]
      /\ outcome'[resp]["go"] = GoEvaluate(resp, challenge[resp])
      /\ proof' = proof /\ challenge' = challenge /\ hashes' = hashes
  <2>1. TypeOK
    BY DEF SubmissionInv
  <2>2. hashes' = hashes /\ {"evm"} \subseteq Verifier
    BY <1>1 DEF Answered, Verifier
  <2>3. QED
    BY <1>1, <1>2, <1>4, <1>5, <2>1, <2>2, AnsweredEffect
<1>7. AnswersOf(resp)'
  <2>1. proof # None /\ challenge[resp] # None
    BY <1>1, <1>5 DEF SubmissionInv, Answered
  <2>2. /\ EvmVerify(challenge[resp])' = EvmVerify(challenge[resp])
        /\ GoEvaluate(resp, challenge[resp])' = GoEvaluate(resp, challenge[resp])
    BY <1>6, SameAnswers
  <2>3. outcome[resp]["evm"] = EvmVerify(challenge[resp])
    BY <1>6 DEF SubmissionInv, AnswersOf
  <2>4. QED
    BY <1>6, <2>1, <2>2, <2>3 DEF AnswersOf
<1>8. {"evm"} \subseteq Verifier
  BY DEF Verifier
<1>9. QED
  BY <1>1, <1>4, <1>5, <1>7, <1>8, AnsweredStep

\* The last two are of one result, and leave the first two.
LEMMA PythonStep ==
  ASSUME SubmissionInv, Python
  PROVE  SubmissionInv'
<1>1. PICK result \in PythonEquation(challenge[asked]) :
        Answered([python |-> PythonEvaluate(asked, result), auditor |-> result], {"evm", "go"})
  BY DEF Python
<1> DEFINE results == [python |-> PythonEvaluate(asked, result), auditor |-> result]
<1>2. /\ DOMAIN results = {"python", "auditor"}
      /\ results["python"] = PythonEvaluate(asked, result) /\ results["auditor"] = result
  BY TwoAnswers
<1>3. results["python"] \in Outcome /\ results["auditor"] \in Outcome
  <2>1. result \in {"true", "false", "crash"} /\ PythonEvaluate(asked, result) \in {"reject", result}
    BY <1>1, AnswersAreOutcomes
  <2>2. QED
    BY <1>2, <2>1 DEF Outcome
<1>4. Answered(results, {"evm", "go"}) /\ asked' = None
  BY <1>1 DEF Python
<1> HIDE DEF results
<1>5. /\ DOMAIN results \subseteq Verifier \ {"evm", "go"} /\ {"evm", "go"} \subseteq Verifier
      /\ \A w \in DOMAIN results : results[w] \in Outcome
      /\ {"evm", "go"} \cup DOMAIN results = Verifier
  BY <1>2, <1>3 DEF Verifier
<1>6. PICK resp : resp = asked
  OBVIOUS
<1>7. /\ resp \in Response /\ DOMAIN outcome[resp] = {"evm", "go"}
      /\ DOMAIN outcome'[resp] = Verifier
      /\ outcome'[resp]["evm"] = outcome[resp]["evm"]
      /\ outcome'[resp]["go"] = outcome[resp]["go"]
      /\ outcome'[resp]["python"] = PythonEvaluate(resp, result)
      /\ outcome'[resp]["auditor"] = result
      /\ proof' = proof /\ challenge' = challenge /\ hashes' = hashes
  <2>1. TypeOK
    BY DEF SubmissionInv
  <2>2. hashes' = hashes
    BY <1>4 DEF Answered
  <2>3. QED
    BY <1>2, <1>4, <1>5, <1>6, <2>1, <2>2, AnsweredEffect
<1>8. AnswersOf(resp)'
  <2>1. proof # None /\ challenge[resp] # None
    BY <1>4, <1>6 DEF SubmissionInv, Answered
  <2>2. /\ EvmVerify(challenge[resp])' = EvmVerify(challenge[resp])
        /\ GoEvaluate(resp, challenge[resp])' = GoEvaluate(resp, challenge[resp])
        /\ PythonEquation(challenge[resp])' = PythonEquation(challenge[resp])
        /\ PythonEvaluate(resp, result)' = PythonEvaluate(resp, result)
    BY <1>7, SameAnswers
  <2>3. /\ outcome[resp]["evm"] = EvmVerify(challenge[resp])
        /\ outcome[resp]["go"] = GoEvaluate(resp, challenge[resp])
    BY <1>7 DEF SubmissionInv, AnswersOf
  <2>4. result \in PythonEquation(challenge[resp])
    BY <1>1, <1>6
  <2>5. QED
    BY <1>7, <2>1, <2>2, <2>3, <2>4 DEF AnswersOf
<1>9. QED
  BY <1>4, <1>5, <1>6, <1>8, AnsweredStep

\* Every step keeps the invariant.
LEMMA SubmissionInvIsInductive == SubmissionInv /\ [Next]_vars => SubmissionInv'
<1> SUFFICES ASSUME SubmissionInv, [Next]_vars PROVE SubmissionInv'
  OBVIOUS
<1>1. ASSUME NEW resp \in Response \cap Verdicts, NEW w \in Witness, NEW e \in Challenge,
             Prove(resp, w, e)
      PROVE  SubmissionInv'
  BY <1>1, ProveStep
<1>2. ASSUME NEW s \in Submission, Submit(s) PROVE SubmissionInv'
  BY <1>2, SubmitStep
<1>3. ASSUME NEW resp \in Response, NEW e \in Challenge, Ask(resp, e) PROVE SubmissionInv'
  BY <1>3, AskStep
<1>4. CASE Evm
  BY <1>4, EvmStep
<1>5. CASE Go
  BY <1>5, GoStep
<1>6. CASE Python
  BY <1>6, PythonStep
<1>7. CASE UNCHANGED vars
  <2>1. UNCHANGED <<hashes, proof, witness, challenge, asked, outcome>>
    BY <1>7 DEF vars
  <2>2. TypeOK' /\ (asked' # None => proof' # None /\ challenge'[asked'] # None)
    BY <2>1 DEF SubmissionInv, TypeOK
  <2>3. ASSUME NEW q \in Response PROVE AnswersOf(q)'
    BY <2>1, AnswersKept DEF SubmissionInv
  <2>4. witness' # None => proof' # None /\ MadeByProver'
    BY <2>1, MadeKept DEF SubmissionInv
  <2>5. QED
    BY <2>2, <2>3, <2>4 DEF SubmissionInv
<1>8. QED
  BY <1>1, <1>2, <1>3, <1>4, <1>5, <1>6, <1>7 DEF Next

\* The invariant holds throughout: what has answered has answered for the submission
\* at hand under the challenge drawn for its response, and what has a witness is what
\* the prover makes of it.
THEOREM SubmissionIsKept == Spec => []SubmissionInv
BY Initially, SubmissionInvIsInductive, PTL DEF Spec

\* The pair that encodes the identity is not on the curve, for P does not divide 3.
LEMMA IdentityEncoding == ~OnCurve(<<0, 0>>)
<1>1. 0 % P = 0 /\ 3 % P = 3 /\ 0 * 0 = 0
  <2>1. 0 \in 0 .. P - 1 /\ 3 \in 0 .. P - 1 /\ P \in Nat \ {0}
    BY FieldFacts
  <2>2. QED
    BY <2>1, SmallIsItself
<1>2. Cubic(0) = 3
  BY <1>1 DEF Cubic
<1>3. QED
  BY <1>1, <1>2 DEF OnCurve

\* All implementations read a pair on the curve as the same point.
LEMMA CurvePair ==
  ASSUME NEW pt \in Int \X Int, OnCurve(pt)
  PROVE  /\ pt \in Point /\ pt # Inf /\ pt # <<0, 0>>
         /\ Word(pt) /\ FromWord(pt) = pt /\ NewPoint(pt) /\ FQ(pt) = pt
<1>1. pt = <<pt[1], pt[2]>> /\ pt[1] \in Field /\ pt[2] \in Field
  BY DEF OnCurve
<1>2. pt \in Field \X Field
  BY <1>1
<1>3. pt \in Point /\ pt # Inf
  BY <1>2, InfIsNoPair DEF Point
<1>4. pt # <<0, 0>>
  BY IdentityEncoding
<1>5. pt[1] % P = pt[1] /\ pt[2] % P = pt[2]
  BY <1>1, FieldFacts, SmallIsItself DEF Field
<1>6. FQ(pt) = pt
  BY <1>1, <1>5 DEF FQ
<1>7. QED
  BY <1>3, <1>4, <1>6 DEF Word, FromWord, NewPoint

\* Whatever arrived, and has been answered.
LEMMA AnsweredFacts ==
  ASSUME SubmissionInv, NEW resp \in Response, DOMAIN outcome[resp] # {}
  PROVE  /\ proof.C \in Int \X Int /\ proof.R \in Int \X Int
         /\ proof.sm \in Int /\ proof.sr \in Int
         /\ challenge[resp] \in Challenge /\ challenge[resp] \in Nat
         /\ hashes \in HashStream
<1>1. proof \in Proof /\ challenge[resp] \in Challenge /\ hashes \in HashStream
  BY DEF SubmissionInv, AnswersOf, TypeOK
<1>2. challenge[resp] \in Nat
  BY <1>1, ChallengeAssumption, OrderFacts
<1>3. QED
  BY <1>1, <1>2 DEF Proof

\* The answers agree, for all read points on the curve alike and have the same gates.
LEMMA Agreement == SubmissionInv => ImplementationsAgree
<1> SUFFICES ASSUME SubmissionInv, NEW resp \in Response, DOMAIN outcome[resp] = Verifier
             PROVE  LET o == outcome[resp] IN
    /\ o.go \in {"true", "false"} => o.evm = o.go
    /\ o.go = "abort" => o.evm = "revert" \/ <<0, 0>> \in {proof.C, proof.R}
    /\ IF proof.version = 0
       THEN o.python = "reject" /\ (o.go = "reject") = (resp \notin Verdicts)
       ELSE (o.go = "reject") = (o.python = "reject")
    /\ o.go \in {"true", "false"} /\ o.python \in {"true", "false"} => o.go = o.python
    /\ o.evm = "true" /\ <<0, 0>> \notin {proof.C, proof.R} => o.auditor \in {"true", "crash"}
  BY DEF ImplementationsAgree
<1> DEFINE o == outcome[resp]
           e == challenge[resp]
           left == LeftSide(proof.sm, proof.sr)
           right == RightSide(proof.R, e, proof.C)
           both == OnCurve(proof.C) /\ OnCurve(proof.R)
<1>1. PICK result \in PythonEquation(e) :
        /\ o.evm = EvmVerify(e) /\ o.go = GoEvaluate(resp, e)
        /\ o.python = PythonEvaluate(resp, result) /\ o.auditor = result
  BY DEF SubmissionInv, AnswersOf, Verifier
<1>2. proof.C \in Int \X Int /\ proof.R \in Int \X Int
  BY AnsweredFacts DEF Verifier
<1>3. ASSUME both
      PROVE  /\ o.evm = IF left = right THEN "true" ELSE "false"
             /\ o.go \in {"reject", IF left = right THEN "true" ELSE "false"}
             /\ result \in {"crash", IF left = right THEN "true" ELSE "false"}
  <2>1. /\ Word(proof.C) /\ FromWord(proof.C) = proof.C /\ NewPoint(proof.C) /\ FQ(proof.C) = proof.C
        /\ Word(proof.R) /\ FromWord(proof.R) = proof.R /\ NewPoint(proof.R) /\ FQ(proof.R) = proof.R
    BY <1>2, <1>3, CurvePair
  <2>2. o.evm = IF left = right THEN "true" ELSE "false"
    BY <1>1, <2>1 DEF EvmVerify
  <2>3. o.go \in {"reject", IF left = right THEN "true" ELSE "false"}
    BY <1>1, <2>1 DEF GoEvaluate
  <2>4. result \in {"crash", IF left = right THEN "true" ELSE "false"}
    BY <1>1, <1>3, <2>1 DEF PythonEquation
  <2>5. QED
    BY <2>2, <2>3, <2>4
<1>4. ASSUME ~both
      PROVE  /\ o.go \in {"reject", "abort"}
             /\ <<0, 0>> \notin {proof.C, proof.R} => o.evm = "revert"
  BY <1>1, <1>4 DEF GoEvaluate, EvmVerify, NewPoint, Word
<1>5. result \in {"true", "false", "crash"}
  BY <1>1, AnswersAreOutcomes
<1>6. o.go = "reject" <=> GoVersion # Version \/ resp \notin Verdicts
  BY <1>1 DEF GoEvaluate
<1>7. o.python = IF PythonVersion # Version \/ resp \notin Verdicts THEN "reject" ELSE result
  BY <1>1 DEF PythonEvaluate
<1>8. /\ proof.version = 0 => GoVersion = Version /\ PythonVersion # Version
      /\ proof.version # 0 => GoVersion = PythonVersion
  BY DEF GoVersion, PythonVersion, Version, VersionAbsent
<1> HIDE DEF left, right, e
<1>9. o.go = "abort" => ~both
  BY <1>3
<1> HIDE DEF both, o
<1>10. o.go \in {"true", "false"} => o.evm = o.go
  BY <1>3, <1>4
<1>11. o.go = "abort" => o.evm = "revert" \/ <<0, 0>> \in {proof.C, proof.R}
  BY <1>4, <1>9
<1>12. IF proof.version = 0
       THEN o.python = "reject" /\ (o.go = "reject") = (resp \notin Verdicts)
       ELSE (o.go = "reject") = (o.python = "reject")
  <2>1. CASE proof.version = 0
    <3>1. o.python = "reject"
      BY <1>7, <1>8, <2>1
    <3>2. (o.go = "reject") <=> (resp \notin Verdicts)
      BY <1>6, <1>8, <2>1
    <3>3. QED
      BY <2>1, <3>1, <3>2
  <2>2. CASE proof.version # 0
    <3>1. (o.go = "reject") <=> (o.python = "reject")
      BY <1>5, <1>6, <1>7, <1>8, <2>2
    <3>2. QED
      BY <2>2, <3>1
  <2>3. QED
    BY <2>1, <2>2
<1>13. o.go \in {"true", "false"} /\ o.python \in {"true", "false"} => o.go = o.python
  BY <1>3, <1>4, <1>5, <1>7
<1>14. o.evm = "true" /\ <<0, 0>> \notin {proof.C, proof.R} => o.auditor \in {"true", "crash"}
  BY <1>1, <1>3, <1>4 DEF o
<1>15. QED
  BY <1>10, <1>11, <1>12, <1>13, <1>14 DEF o

--------------------------------------------------------------------------------
(* The equation in the exponents.                                           *)

\* To be congruent is to differ by what leaves no remainder.
LEMMA ZeroDifference ==
  ASSUME NEW a \in Int, NEW b \in Int, NEW Q \in Nat \ {0}
  PROVE  (a - b) % Q = 0 <=> Cong(a, b, Q)
<1>1. 0 % Q = 0
  BY SmallIsItself
<1>2. a - b \in Int
  OBVIOUS
<1>3. Cong(a - b, 0, Q) <=> (a - b) % Q = 0
  <2> DEFINE d == a - b
  <2>1. d \in Int /\ 0 \in Int
    BY <1>2
  <2> HIDE DEF d
  <2>2. Cong(d, 0, Q) <=> Rem(d, Q) = Rem(0, Q)
    BY <2>1, CongIff
  <2>3. QED
    BY <1>1, <2>2 DEF Rem, d
<1>4. Cong(a - b, 0, Q) <=> Cong(a, b, Q)
  <2>1. \A k \in Int : a - b = 0 + Q * k <=> a = b + Q * k
    <3>1. \A k \in Int : Q * k \in Int
      OBVIOUS
    <3>2. QED
      BY <3>1
  <2>2. QED
    BY <2>1 DEF Cong
<1>5. QED
  BY <1>3, <1>4

\* The generator is the first multiple.
LEMMA GeneratorIsFirst == G = Multiple[1]
<1>1. 0 + 1 = 1 /\ 0 \in Nat
  OBVIOUS
<1>2. QED
  BY <1>1, MultipleUnfolds, AddIdentity

\* The logarithm of a commitment.
LEMMA CommitExponent ==
  ASSUME hashes \in HashStream, NEW m \in Nat, NEW r \in Nat
  PROVE  Commit(m, r) = Multiple[m + r * Log(H)] /\ m + r * Log(H) \in Nat /\ Log(H) \in Nat
<1> DEFINE h == Log(H)
<1>1. ScalarMul(r, H) = Multiple[r * h] /\ h \in Nat
  BY HIsPoint, ScalarMulOfPoint, LogOfPoint
<1> HIDE DEF h
<1>2. ScalarMul(m, G) = Multiple[m]
  <2>1. m * 1 = m
    OBVIOUS
  <2>2. ScalarMul(m, Multiple[1]) = Multiple[m * 1]
    BY ScalarMulIsMultiple
  <2>3. QED
    BY <2>1, <2>2, GeneratorIsFirst
<1>3. r * h \in Nat
  BY <1>1
<1>4. Add(Multiple[m], Multiple[r * h]) = Multiple[m + r * h]
  BY <1>3, MultiplesAdd
<1>5. m + r * h \in Nat
  BY <1>3
<1>6. QED
  BY <1>1, <1>2, <1>4, <1>5 DEF Commit, h

\* The logarithm of the right side.
LEMMA RightExponent ==
  ASSUME NEW R \in Point, NEW C \in Point, NEW e \in Nat
  PROVE  RightSide(R, e, C) = Multiple[Log(R) + e * Log(C)] /\ Log(R) + e * Log(C) \in Nat
<1>1. ScalarMul(e, C) = Multiple[e * Log(C)] /\ e * Log(C) \in Nat
  BY ScalarMulOfPoint
<1>2. Log(R) \in Nat /\ Multiple[Log(R)] = R
  BY LogOfPoint
<1>3. Add(Multiple[Log(R)], Multiple[e * Log(C)]) = Multiple[Log(R) + e * Log(C)]
  BY <1>1, <1>2, MultiplesAdd
<1>4. Log(R) + e * Log(C) \in Nat
  BY <1>1, <1>2
<1>5. QED
  BY <1>1, <1>2, <1>3, <1>4 DEF RightSide

\* The scalars are reduced first, which changes nothing.
LEMMA LeftExponent ==
  ASSUME hashes \in HashStream, NEW sm \in Int, NEW sr \in Int
  PROVE  \E x \in Nat : LeftSide(sm, sr) = Multiple[x] /\ Cong(x, sm + Log(H) * sr, N)
<1> DEFINE a == Rem(sm, N)
           b == Rem(sr, N)
           h == Log(H)
<1>1. a \in 0 .. N - 1 /\ Cong(a, sm, N) /\ b \in 0 .. N - 1 /\ Cong(b, sr, N)
  BY RemRange, RemCong, OrderFacts
<1>2. a \in Nat /\ b \in Nat /\ a \in Int /\ b \in Int
  BY <1>1, OrderFacts
<1>3. LeftSide(sm, sr) = Commit(a, b)
  BY DEF LeftSide, Commit, Rem
<1> HIDE DEF a, b
<1>4. Commit(a, b) = Multiple[a + b * h] /\ a + b * h \in Nat /\ h \in Nat
  BY <1>2, CommitExponent
<1> HIDE DEF h
<1>5. Cong(b * h, sr * h, N)
  BY <1>1, <1>2, <1>4, CongProduct, OrderFacts
<1> DEFINE x == b * h
           y == sr * h
<1>6. x \in Int /\ y \in Int
  BY <1>2, <1>4
<1>7. Cong(x, y, N)
  BY <1>5
<1> HIDE DEF x, y
<1>8. Cong(a + x, sm + y, N)
  BY <1>1, <1>2, <1>6, <1>7, CongOps, OrderFacts
<1>9. y = h * sr
  BY <1>4 DEF y
<1>10. QED
  BY <1>3, <1>4, <1>8, <1>9 DEF x, h

\* The two sides are the same point when the exponents agree.
LEMMA SidesAgree ==
  ASSUME hashes \in HashStream, NEW sm \in Int, NEW sr \in Int,
         NEW R \in Point, NEW C \in Point, NEW e \in Nat
  PROVE  LeftSide(sm, sr) = RightSide(R, e, C)
           <=> Cong(sm + Log(H) * sr, Log(R) + e * Log(C), N)
<1>1. PICK x \in Nat : LeftSide(sm, sr) = Multiple[x] /\ Cong(x, sm + Log(H) * sr, N)
  BY LeftExponent
<1> DEFINE y == Log(R) + e * Log(C)
           z == sm + Log(H) * sr
<1>2. RightSide(R, e, C) = Multiple[y] /\ y \in Nat
  BY RightExponent
<1>3. z \in Int
  <2>1. Log(H) \in Nat
    BY HIsPoint, LogOfPoint
  <2>2. QED
    BY <2>1
<1>4. Cong(x, z, N)
  BY <1>1
<1> HIDE DEF y, z
<1>5. (Multiple[x] = Multiple[y]) <=> Cong(x, y, N)
  BY <1>2, SameMultiple
<1>6. Cong(x, y, N) <=> Cong(z, y, N)
  <2>1. x \in Int /\ y \in Int /\ N \in Nat
    BY <1>2, OrderFacts
  <2>2. QED
    BY <1>3, <1>4, <2>1, CongSym, CongTrans
<1>7. QED
  BY <1>1, <1>2, <1>5, <1>6 DEF y, z

\* What each verifier says of two points on the curve.
LEMMA VerdictOfSides ==
  ASSUME SubmissionInv, NEW resp \in Response, NEW w \in DOMAIN outcome[resp],
         OnCurve(proof.C), OnCurve(proof.R), outcome[resp][w] \in {"true", "false"}
  PROVE  (outcome[resp][w] = "true")
           <=> LeftSide(proof.sm, proof.sr) = RightSide(proof.R, challenge[resp], proof.C)
<1> DEFINE o == outcome[resp]
           e == challenge[resp]
           left == LeftSide(proof.sm, proof.sr)
           right == RightSide(proof.R, e, proof.C)
<1>1. proof.C \in Int \X Int /\ proof.R \in Int \X Int
  BY AnsweredFacts
<1>2. /\ Word(proof.C) /\ FromWord(proof.C) = proof.C /\ NewPoint(proof.C) /\ FQ(proof.C) = proof.C
      /\ Word(proof.R) /\ FromWord(proof.R) = proof.R /\ NewPoint(proof.R) /\ FQ(proof.R) = proof.R
  BY <1>1, CurvePair
<1>3. EvmVerify(e) = IF left = right THEN "true" ELSE "false"
  BY <1>2 DEF EvmVerify
<1>4. GoEvaluate(resp, e) \in {"reject", IF left = right THEN "true" ELSE "false"}
  BY <1>2 DEF GoEvaluate
<1>5. PythonEquation(e) \subseteq {"crash", IF left = right THEN "true" ELSE "false"}
  BY <1>2 DEF PythonEquation
<1>6. \A result : PythonEvaluate(resp, result) \in {"reject", result}
  BY AnswersAreOutcomes
<1>7. AnswersOf(resp) /\ w \in DOMAIN o
  BY DEF SubmissionInv
<1> HIDE DEF left, right, e
<1>8. o[w] \in {"reject", "crash", IF left = right THEN "true" ELSE "false"}
  <2>1. /\ w \in Verifier
        /\ "evm" \in DOMAIN o => o["evm"] = EvmVerify(e)
        /\ "go" \in DOMAIN o => o["go"] = GoEvaluate(resp, e)
    BY <1>7 DEF AnswersOf, Verifier, e
  <2>2. CASE w = "evm"
    BY <1>3, <1>7, <2>1, <2>2
  <2>3. CASE w = "go"
    BY <1>4, <1>7, <2>1, <2>3
  <2>4. CASE w \in {"python", "auditor"}
    <3>1. "python" \in DOMAIN o
      BY <1>7, <2>4 DEF AnswersOf, Verifier
    <3>2. PICK result \in PythonEquation(e) :
            o["python"] = PythonEvaluate(resp, result) /\ o["auditor"] = result
      BY <1>7, <3>1 DEF AnswersOf, e
    <3>3. QED
      BY <1>5, <1>6, <2>4, <3>2
  <2>5. QED
    BY <2>1, <2>2, <2>3, <2>4 DEF Verifier
<1>9. QED
  BY <1>8 DEF left, right, e

\* So the verdict is the equation.
LEMMA VerdictInv == SubmissionInv => VerdictIsEquation
<1> SUFFICES ASSUME SubmissionInv, NEW resp \in Response, NEW w \in DOMAIN outcome[resp],
                    outcome[resp][w] \in {"true", "false"}, OnCurve(proof.C), OnCurve(proof.R)
             PROVE  (outcome[resp][w] = "true") = Equation(resp)
  BY DEF VerdictIsEquation
<1>1. /\ proof.C \in Int \X Int /\ proof.R \in Int \X Int /\ proof.sm \in Int /\ proof.sr \in Int
      /\ challenge[resp] \in Nat /\ hashes \in HashStream
  BY AnsweredFacts
<1>2. proof.C \in Point /\ proof.R \in Point
  BY <1>1, CurvePair
<1> DEFINE c == Log(proof.C)
           r == Log(proof.R)
           h == Log(H)
           e == challenge[resp]
           x == proof.sm + h * proof.sr
           y == r + e * c
<1>3. c \in Nat /\ r \in Nat /\ h \in Nat
  BY <1>1, <1>2, HIsPoint, LogOfPoint
<1>4. (outcome[resp][w] = "true") <=> Cong(x, y, N)
  BY <1>1, <1>2, VerdictOfSides, SidesAgree
<1> HIDE DEF c, r, h
<1>5. x \in Int /\ y \in Int
  BY <1>1, <1>3
<1>6. x - y = proof.sm + h * proof.sr - r - e * c
  BY <1>1, <1>3
<1>7. Equation(resp) <=> (x - y) % N = 0
  BY <1>6 DEF Equation, c, r, h
<1>8. (x - y) % N = 0 <=> Cong(x, y, N)
  <2> HIDE DEF x, y
  <2>1. QED
    BY <1>5, ZeroDifference, OrderFacts
<1>9. Equation(resp) \in BOOLEAN
  BY DEF Equation
<1>10. QED
  BY <1>4, <1>7, <1>8, <1>9

\* Over a commitment that is not the identity, another challenge gives another point.
LEMMA ChallengeMatters ==
  ASSUME NEW R \in Point, NEW C \in Point, C # Inf, NEW d \in 0 .. N - 1, NEW e \in 0 .. N - 1,
         RightSide(R, d, C) = RightSide(R, e, C)
  PROVE  d = e
<1> DEFINE r == Log(R)
           c == Log(C)
<1>1. r \in Nat /\ c \in Nat /\ Multiple[c] = C
  BY LogOfPoint
<1>2. d \in Nat /\ e \in Nat /\ d \in Int /\ e \in Int /\ N \in Nat
  BY OrderFacts
<1>3. /\ RightSide(R, d, C) = Multiple[r + d * c] /\ r + d * c \in Nat
      /\ RightSide(R, e, C) = Multiple[r + e * c] /\ r + e * c \in Nat
  BY <1>2, RightExponent
<1> HIDE DEF r, c
<1> DEFINE x == r + d * c
           y == r + e * c
<1>4. Cong(x, y, N)
  <2> HIDE DEF x, y
  <2>1. QED
    BY <1>3, SameMultiple DEF x, y
<1>5. Cong((d - e) * c, 0, N)
  <2>1. PICK k \in Int : x = y + N * k
    BY <1>4 DEF Cong
  <2>2. x - y = (d - e) * c /\ x \in Int /\ y \in Int
    BY <1>1, <1>2
  <2> HIDE DEF x, y
  <2>3. N * k \in Int
    BY <1>2
  <2>4. (d - e) * c = 0 + N * k
    BY <2>1, <2>2, <2>3
  <2>5. QED
    BY <2>4 DEF Cong
<1>6. ~Cong(c, 0, N)
  <2>1. Multiple[c] # Multiple[0]
    BY <1>1, MultipleUnfolds
  <2>2. QED
    BY <1>1, <2>1, SameMultiple
<1>7. Cong(d - e, 0, N)
  <2>1. d - e \in Int /\ c \in Int
    BY <1>1, <1>2
  <2>2. QED
    BY <1>5, <1>6, <2>1, Cancel, OrderFacts
<1>8. (d - e) % N = 0
  <2> DEFINE f == d - e
  <2>1. f \in Int /\ 0 \in Int /\ 0 \in 0 .. N - 1
    BY <1>2, OrderFacts
  <2>2. Cong(f, 0, N)
    BY <1>7
  <2> HIDE DEF f
  <2>3. Rem(f, N) = Rem(0, N) /\ Rem(0, N) = 0
    BY <2>1, <2>2, CongIff, RemSmall, OrderFacts
  <2>4. QED
    BY <2>3 DEF Rem, f
<1>9. Cong(d, e, N)
  BY <1>2, <1>8, ZeroDifference, OrderFacts
<1>10. QED
  BY <1>2, <1>9, CongIff, RemSmall, OrderFacts

\* An answer "true" over a commitment on the curve is an equation of points, also where
\* the EVM takes (0, 0) for the identity.
LEMMA TrueMeansEqual ==
  ASSUME SubmissionInv, NEW resp \in Response, NEW w \in DOMAIN outcome[resp],
         outcome[resp][w] = "true", OnCurve(proof.C),
         IF w = "evm" THEN Word(proof.R) ELSE OnCurve(proof.R)
  PROVE  LET R == IF w = "evm" THEN FromWord(proof.R) ELSE proof.R
         IN  R \in Point /\ LeftSide(proof.sm, proof.sr) = RightSide(R, challenge[resp], proof.C)
<1>1. proof.C \in Int \X Int /\ proof.R \in Int \X Int
  BY AnsweredFacts
<1>2. CASE OnCurve(proof.R)
  <2>1. proof.R \in Point /\ FromWord(proof.R) = proof.R
    BY <1>1, <1>2, CurvePair
  <2>2. QED
    BY <1>2, <2>1, VerdictOfSides
<1>3. CASE ~OnCurve(proof.R)
  <2>1. w = "evm" /\ proof.R = <<0, 0>> /\ Word(proof.R) /\ FromWord(proof.R) = Inf
    BY <1>3 DEF Word, FromWord
  <2>2. Word(proof.C) /\ FromWord(proof.C) = proof.C
    BY <1>1, CurvePair
  <2>3. outcome[resp][w] = EvmVerify(challenge[resp])
    BY <2>1 DEF SubmissionInv, AnswersOf
  <2>4. LeftSide(proof.sm, proof.sr) = RightSide(FromWord(proof.R), challenge[resp], proof.C)
    BY <2>1, <2>2, <2>3 DEF EvmVerify
  <2>5. QED
    BY <2>1, <2>4, GeneratorIsPoint
<1>4. QED
  BY <1>2, <1>3

\* So one left side cannot meet two challenges.
LEMMA BoundInv == SubmissionInv => BoundToVerdict
<1> SUFFICES ASSUME SubmissionInv, NEW r1 \in Response, NEW r2 \in Response,
                    NEW w \in DOMAIN outcome[r1] \cap DOMAIN outcome[r2],
                    outcome[r1][w] = "true", outcome[r2][w] = "true", OnCurve(proof.C),
                    IF w = "evm" THEN Word(proof.R) ELSE OnCurve(proof.R)
             PROVE  challenge[r1] = challenge[r2]
  BY DEF BoundToVerdict
<1> DEFINE R == IF w = "evm" THEN FromWord(proof.R) ELSE proof.R
<1>1. /\ R \in Point
      /\ LeftSide(proof.sm, proof.sr) = RightSide(R, challenge[r1], proof.C)
      /\ LeftSide(proof.sm, proof.sr) = RightSide(R, challenge[r2], proof.C)
  BY TrueMeansEqual
<1>2. proof.C \in Point /\ proof.C # Inf
  <2>1. proof.C \in Int \X Int
    BY AnsweredFacts
  <2>2. QED
    BY <2>1, CurvePair
<1>3. challenge[r1] \in 0 .. N - 1 /\ challenge[r2] \in 0 .. N - 1
  BY AnsweredFacts, ChallengeAssumption
<1> HIDE DEF R
<1>4. QED
  BY <1>1, <1>2, <1>3, ChallengeMatters

\* The prover's answers, before they are reduced.
LEMMA AnswerCongruent ==
  ASSUME NEW k \in Nat, NEW e \in Nat, NEW x \in Nat
  PROVE  Answer(k, e, x) \in Int /\ Cong(Answer(k, e, x), k + e * x, N) /\ k + e * x \in Int
<1>1. k + e * x \in Int
  <2>1. e * x \in Nat
    OBVIOUS
  <2>2. QED
    BY <2>1
<1> DEFINE z == k + e * x
<1>2. Answer(k, e, x) = Rem(z, N)
  BY DEF Answer, Rem
<1>3. z \in Int
  BY <1>1
<1> HIDE DEF z
<1>4. Rem(z, N) \in 0 .. N - 1 /\ Cong(Rem(z, N), z, N)
  BY <1>3, RemRange, RemCong, OrderFacts
<1>5. QED
  BY <1>1, <1>2, <1>4, OrderFacts DEF z

\* The equation of Schnorr: the answers to the challenge put the two sides at one point.
LEMMA HonestSides ==
  ASSUME hashes \in HashStream, NEW m \in Nat, NEW r \in Nat, NEW km \in Nat, NEW kr \in Nat,
         NEW e \in Nat
  PROVE  LeftSide(Answer(km, e, m), Answer(kr, e, r)) = RightSide(Commit(km, kr), e, Commit(m, r))
<1> DEFINE C == Commit(m, r)
           R == Commit(km, kr)
           c == Log(C)
           d == Log(R)
           h == Log(H)
           sm == Answer(km, e, m)
           sr == Answer(kr, e, r)
<1>1. C \in Point /\ R \in Point
  BY CommitIsPoint
<1>2. c \in Nat /\ Multiple[c] = C /\ d \in Nat /\ Multiple[d] = R
  BY <1>1, LogOfPoint
<1>3. C = Multiple[m + r * h] /\ m + r * h \in Nat /\ h \in Nat
      /\ R = Multiple[km + kr * h] /\ km + kr * h \in Nat
  BY CommitExponent
<1>4. /\ sm \in Int /\ Cong(sm, km + e * m, N) /\ km + e * m \in Int
      /\ sr \in Int /\ Cong(sr, kr + e * r, N) /\ kr + e * r \in Int
  BY AnswerCongruent
<1> HIDE DEF c, d, h, sm, sr
<1> DEFINE u == m + r * h
           v == km + kr * h
           a == km + e * m
           b == kr + e * r
<1>5. u \in Int /\ v \in Int /\ a \in Int /\ b \in Int /\ h \in Int /\ e \in Int /\ c \in Int /\ d \in Int
  BY <1>2, <1>3, <1>4
<1>6. Cong(c, u, N) /\ Cong(d, v, N)
  <2> HIDE DEF C, R, u, v
  <2>1. Multiple[c] = Multiple[u] /\ Multiple[d] = Multiple[v] /\ u \in Nat /\ v \in Nat
    BY <1>2, <1>3 DEF u, v
  <2>2. QED
    BY <1>2, <2>1, SameMultiple
<1>7. a + b * h = v + u * e
  BY <1>3
<1>8. Cong(sm, a, N) /\ Cong(sr, b, N)
  BY <1>4
<1> HIDE DEF u, v, a, b
<1>9. Cong(sr * h, b * h, N) /\ Cong(c * e, u * e, N)
  BY <1>4, <1>5, <1>6, <1>8, CongProduct, OrderFacts
<1> DEFINE x == sr * h
           y == b * h
           z == c * e
           t == u * e
<1>10. x \in Int /\ y \in Int /\ z \in Int /\ t \in Int
  BY <1>4, <1>5
<1>11. Cong(x, y, N) /\ Cong(z, t, N) /\ a + y = v + t
  BY <1>7, <1>9
<1>12. sm + h * sr = sm + x /\ d + e * c = d + z
  BY <1>4, <1>5
<1> HIDE DEF x, y, z, t
<1>13. Cong(sm + x, a + y, N) /\ Cong(d + z, v + t, N)
  BY <1>4, <1>5, <1>6, <1>8, <1>10, <1>11, CongOps, OrderFacts
<1>14. Cong(sm + x, d + z, N)
  <2> DEFINE i == sm + x
             j == d + z
             l == v + t
  <2>1. i \in Int /\ j \in Int /\ l \in Int
    BY <1>4, <1>5, <1>10
  <2>2. Cong(i, l, N) /\ Cong(j, l, N)
    BY <1>11, <1>13
  <2> HIDE DEF i, j, l
  <2>3. Cong(i, j, N)
    BY <2>1, <2>2, CongSym, CongTrans, OrderFacts
  <2>4. QED
    BY <2>3 DEF i, j
<1>15. Cong(sm + h * sr, d + e * c, N)
  BY <1>12, <1>14
<1>16. Cong(sm + Log(H) * sr, Log(R) + e * Log(C), N)
  BY <1>15 DEF c, d, h
<1> HIDE DEF C, R
<1>17. LeftSide(sm, sr) = RightSide(R, e, C)
  BY <1>1, <1>4, <1>16, SidesAgree
<1>18. QED
  BY <1>17 DEF C, R, sm, sr

\* So every verifier accepts, or sees the identity.
LEMMA CompleteInv == SubmissionInv => Complete
<1> SUFFICES ASSUME SubmissionInv, witness # None,
                    NEW w \in DOMAIN outcome[witness.response], outcome[witness.response][w] # "true"
             PROVE  /\ w \in {"python", "auditor"} /\ outcome[witness.response][w] = "crash"
                    /\ LeftSide(proof.sm, proof.sr) = Inf
  BY DEF Complete
<1> DEFINE resp == witness.response
           v == witness.with
           e == challenge[resp]
           o == outcome[resp]
           left == LeftSide(proof.sm, proof.sr)
           right == RightSide(proof.R, e, proof.C)
<1>1. witness \in [response : Response, with : Witness] /\ hashes \in HashStream
  BY DEF SubmissionInv, TypeOK
<1>2. resp \in Response /\ v.m \in Nat /\ v.r \in Nat /\ v.km \in Nat /\ v.kr \in Nat
  BY <1>1, WitnessAssumption
<1>3. /\ resp \in Verdicts /\ Commit(v.m, v.r) # Inf /\ Commit(v.km, v.kr) # Inf
      /\ proof.version = Version /\ proof.C = Commit(v.m, v.r) /\ proof.R = Commit(v.km, v.kr)
      /\ proof.sm = Answer(v.km, e, v.m) /\ proof.sr = Answer(v.kr, e, v.r)
  BY DEF SubmissionInv, MadeByProver
<1>4. e \in Nat
  BY <1>2, AnsweredFacts
<1>5. left = right
  BY <1>1, <1>2, <1>3, <1>4, HonestSides
<1>6. /\ proof.C \in Int \X Int /\ OnCurve(proof.C) /\ proof.R \in Int \X Int /\ OnCurve(proof.R)
  BY <1>1, <1>2, <1>3, CommitIsPoint, PointIsPair
<1>7. /\ Word(proof.C) /\ FromWord(proof.C) = proof.C /\ NewPoint(proof.C) /\ FQ(proof.C) = proof.C
      /\ Word(proof.R) /\ FromWord(proof.R) = proof.R /\ NewPoint(proof.R) /\ FQ(proof.R) = proof.R
  BY <1>6, CurvePair
<1>8. EvmVerify(e) = "true"
  BY <1>5, <1>7 DEF EvmVerify
<1>9. GoEvaluate(resp, e) = "true"
  BY <1>3, <1>5, <1>7 DEF GoEvaluate, GoVersion, VersionAbsent, Version
<1>10. PythonEquation(e) = IF left = Inf THEN {"crash"} ELSE {"true"}
  BY <1>5, <1>6, <1>7 DEF PythonEquation
<1>11. \A result : PythonEvaluate(resp, result) = result
  BY <1>3 DEF PythonEvaluate, PythonVersion, VersionAbsent, Version
<1>12. AnswersOf(resp) /\ w \in DOMAIN o /\ o[w] # "true"
  BY <1>2 DEF SubmissionInv
<1> HIDE DEF resp, e, left, right, v
<1>13. /\ w \in Verifier
       /\ "evm" \in DOMAIN o => o["evm"] = EvmVerify(e)
       /\ "go" \in DOMAIN o => o["go"] = GoEvaluate(resp, e)
  BY <1>12 DEF AnswersOf, Verifier, e
<1>14. w \in {"python", "auditor"}
  BY <1>8, <1>9, <1>12, <1>13 DEF Verifier
<1>15. "python" \in DOMAIN o
  BY <1>12, <1>14 DEF AnswersOf, Verifier
<1>16. PICK result \in PythonEquation(e) :
        o["python"] = PythonEvaluate(resp, result) /\ o["auditor"] = result
  BY <1>12, <1>15 DEF AnswersOf, e
<1>17. o[w] = result /\ result = "crash" /\ left = Inf
  BY <1>10, <1>11, <1>12, <1>14, <1>16
<1>18. QED
  BY <1>14, <1>17 DEF left, resp

--------------------------------------------------------------------------------
(* The second generator is the canonical one.                               *)

\* A square that is not 0 passes the test of Euler.
LEMMA SquaresPass ==
  ASSUME NEW y \in 1 .. P - 1, NEW c \in Field, Cong(c, y * y, P)
  PROVE  IsResidue(c)
<1> DEFINE T == {k \in Nat : ~Cong(Power(c)[k], Power(y)[k + k], P)}
<1>1. c \in Int /\ y \in Int /\ y * y \in Int
  BY FieldFacts DEF Field
<1>2. T = {}
  <2> SUFFICES ASSUME T # {} PROVE FALSE
    OBVIOUS
  <2>1. PICK k \in T : \A i \in T : k <= i
    <3>1. T \subseteq Nat
      OBVIOUS
    <3> HIDE DEF T
    <3>2. QED
      BY <3>1, LeastNumber
  <2>2. k \in Nat /\ ~Cong(Power(c)[k], Power(y)[k + k], P)
    OBVIOUS
  <2>3. k # 0
    <3>1. Power(c)[0] = 1 /\ Power(y)[0] = 1 /\ 0 + 0 = 0
      BY <1>1, PowerUnfolds
    <3>2. Cong(1, 1, P)
      BY CongRefl, FieldFacts
    <3>3. QED
      BY <2>2, <3>1, <3>2
  <2> DEFINE l == k - 1
             j == l + l
             u == Power(c)[l]
             v == Power(y)[j]
             w == Power(y)[j + 1]
             t == Power(y)[j + 2]
             z == Power(c)[l + 1]
  <2>4. l \in Nat /\ k = l + 1 /\ ~(k <= l) /\ j \in Nat /\ k + k = j + 2 /\ (j + 1) + 1 = j + 2
    BY <2>2, <2>3
  <2>5. Cong(u, v, P)
    BY <2>1, <2>4
  <2>6. ~Cong(z, t, P)
    BY <2>2, <2>4
  <2> HIDE DEF l, T
  <2>7. j + 1 \in Nat /\ j + 2 \in Nat /\ l + 1 \in Nat /\ j \in Nat
    BY <2>4
  <2> HIDE DEF j
  <2>8. u \in Int /\ v \in Int /\ w \in Int /\ t \in Int /\ z \in Int
    BY <1>1, <2>4, <2>7, PowerIsNumber
  <2>9. Cong(z, c * u, P) /\ Cong(w, y * v, P)
    BY <1>1, <2>4, <2>7, PowerNext
  <2>10. Cong(t, y * w, P)
    <3>1. Cong(Power(y)[(j + 1) + 1], y * Power(y)[j + 1], P)
      BY <1>1, <2>7, PowerNext
    <3>2. QED
      BY <2>4, <3>1
  <2> HIDE DEF u, v, w, t, z
  <2> DEFINE s == y * y
             a == c * u
             b == s * v
             d == y * w
             e == y * v
             f == e * y
  <2>11. s \in Int /\ a \in Int /\ b \in Int /\ d \in Int /\ e \in Int /\ f \in Int
         /\ b = f /\ d = w * y
    BY <1>1, <2>8
  <2>12. Cong(c, s, P) /\ Cong(z, a, P) /\ Cong(t, d, P) /\ Cong(w, e, P)
    BY <2>9, <2>10
  <2> HIDE DEF s, e
  <2>13. Cong(a, b, P)
    BY <1>1, <2>5, <2>8, <2>11, <2>12, CongOps, FieldFacts
  <2>14. Cong(w * y, f, P)
    BY <1>1, <2>8, <2>11, <2>12, CongProduct, FieldFacts
  <2>15. Cong(d, b, P)
    BY <2>11, <2>14
  <2> HIDE DEF a, b, d, f
  <2>16. Cong(z, b, P) /\ Cong(t, b, P)
    BY <2>8, <2>11, <2>12, <2>13, <2>15, CongTrans, FieldFacts
  <2>17. QED
    BY <2>6, <2>8, <2>11, <2>16, CongSym, CongTrans, FieldFacts
<1> DEFINE n == (P - 1) \div 2
<1>3. n \in Nat /\ n + n = P - 1
  <2>1. P \in Nat /\ P > 3 /\ P % 4 = 3
    BY FieldAssumption
  <2>2. QED
    BY <2>1
<1>4. Cong(Power(c)[n], Power(y)[n + n], P)
  BY <1>2, <1>3
<1>5. Cong(Power(y)[P - 1], 1, P)
  BY Fermat
<1> HIDE DEF n, T
<1> DEFINE u == Power(c)[n]
           v == Power(y)[n + n]
<1>6. u \in Int /\ u \in Field /\ v \in Int
  <2>1. n + n \in Nat
    BY <1>3
  <2>2. QED
    BY <1>1, <1>3, <2>1, PowerIsNumber
<1>7. Cong(u, v, P) /\ Cong(v, 1, P)
  BY <1>3, <1>4, <1>5
<1> HIDE DEF u, v
<1>8. Cong(u, 1, P)
  BY <1>6, <1>7, CongTrans, FieldFacts
<1>9. u = 1
  BY <1>6, <1>8, CongSmall, FieldFacts
<1>10. QED
  BY <1>9 DEF IsResidue, u, n

\* No point is its own opposite, for the order of the group is odd.
LEMMA NoFlatPoint ==
  ASSUME NEW x \in Field
  PROVE  ~OnCurve(<<x, 0>>)
<1> SUFFICES ASSUME OnCurve(<<x, 0>>) PROVE FALSE
  OBVIOUS
<1> DEFINE pt == <<x, 0>>
           k == Log(pt)
<1>1. pt \in Point /\ pt # Inf /\ pt[2] = 0
  BY FieldFacts, InfIsNoPair DEF Point
<1> HIDE DEF pt
<1>2. k \in Nat /\ Multiple[k] = pt
  BY <1>1, LogOfPoint
<1> HIDE DEF k
<1>3. Double(pt) = Inf
  BY <1>1 DEF Double
<1>4. Multiple[k + k] = Inf
  BY <1>1, <1>2, <1>3, GeneratorIsPoint, DoubleIsSum, MultiplesAdd
<1>5. Cong(k + k, 0, N)
  <2>1. k + k \in Nat
    BY <1>2
  <2>2. QED
    BY <1>4, <2>1, SameMultiple, MultipleUnfolds
<1>6. ~Cong(k, 0, N)
  BY <1>1, <1>2, SameMultiple, MultipleUnfolds
<1>7. ~Cong(2, 0, N)
  <2>1. Multiple[2] = Double(G)
    <3>1. Add(Multiple[1], Multiple[1]) = Multiple[1 + 1] /\ 1 + 1 = 2
      BY MultiplesAdd
    <3>2. QED
      BY <3>1, GeneratorIsFirst, GeneratorIsPoint, DoubleIsSum
  <2>2. Double(G) # Inf
    BY DEF Double, G, Inf, Third
  <2>3. QED
    BY <2>1, <2>2, SameMultiple, MultipleUnfolds
<1>8. 2 * k = k + k /\ k \in Int
  BY <1>2
<1>9. QED
  BY <1>5, <1>6, <1>7, <1>8, Cancel, OrderFacts

\* So derive_H passes over no x that has a point.
LEMMA PointsAreAccepted ==
  ASSUME NEW x \in Field, NEW y \in Field, OnCurve(<<x, y>>)
  PROVE  IsResidue(Cubic(x))
<1>1. (y * y) % P = Cubic(x) /\ Cubic(x) \in Field
  BY CubicInField DEF OnCurve
<1>2. y # 0
  BY NoFlatPoint
<1>3. y \in 1 .. P - 1 /\ y \in Int
  BY <1>2, FieldFacts DEF Field
<1>4. Cong(Cubic(x), y * y, P)
  <2> DEFINE s == y * y
  <2>1. s \in Int /\ Cubic(x) = Rem(s, P)
    BY <1>1, <1>3 DEF Rem
  <2> HIDE DEF s
  <2>2. Cong(Rem(s, P), s, P)
    BY <2>1, RemCong, FieldFacts
  <2>3. QED
    BY <2>1, <2>2 DEF s
<1>5. QED
  BY <1>1, <1>3, <1>4, SquaresPass

\* Of the two roots one is even.
LEMMA EvenRootUnique ==
  ASSUME NEW y \in Field, NEW z \in Field, y % 2 = 0, z % 2 = 0, (y * y) % P = (z * z) % P
  PROVE  y = z
<1>1. y \in 0 .. P - 1 /\ z \in 0 .. P - 1 /\ y \in Int /\ z \in Int /\ P \in Nat /\ P % 2 = 1
  BY FieldFacts, FieldAssumption DEF Field
<1> DEFINE a == y - z
           b == y + z
<1>2. a \in Int /\ b \in Int /\ a * b = y * y - z * z
  BY <1>1
<1>3. Cong(a * b, 0, P)
  <2> DEFINE s == y * y
             t == z * z
  <2>1. s \in Int /\ t \in Int /\ Rem(s, P) = Rem(t, P) /\ a * b = s - t
    BY <1>1, <1>2 DEF Rem
  <2> HIDE DEF s, t, a, b
  <2>2. Cong(s, t, P)
    BY <2>1, CongIff, FieldFacts
  <2>3. PICK k \in Int : s = t + P * k
    BY <2>2 DEF Cong
  <2>4. P * k \in Int
    BY <1>1
  <2>5. s - t = 0 + P * k
    BY <2>1, <2>3, <2>4
  <2>6. QED
    BY <2>1, <2>5 DEF Cong
<1>4. CASE Cong(b, 0, P)
  <2>1. PICK k \in Int : b = 0 + P * k
    BY <1>4 DEF Cong
  <2>2. k = 0 \/ k = 1
    <3>1. b >= 0 /\ b < 2 * P /\ b = P * k
      BY <1>1, <2>1
    <3> HIDE DEF b
    <3>2. k > 1 => P * k >= 2 * P
      BY <1>1
    <3>3. k < 0 => P * k <= 0 - P
      BY <1>1
    <3>4. QED
      BY <1>1, <3>1, <3>2, <3>3, FieldFacts
  <2>3. CASE k = 0
    BY <1>1, <2>1, <2>3
  <2>4. CASE k = 1
    <3>1. y + z = P
      BY <1>1, <2>1, <2>4
    <3>2. QED
      BY <1>1, <3>1
  <2>5. QED
    BY <2>2, <2>3, <2>4
<1>5. CASE ~Cong(b, 0, P)
  <2> HIDE DEF a, b
  <2>1. Cong(a, 0, P)
    BY <1>2, <1>3, <1>5, Cancel, FieldFacts
  <2>2. PICK k \in Int : a = 0 + P * k
    BY <2>1 DEF Cong
  <2>3. P * k \in Int /\ y = z + P * k
    BY <1>1, <2>2 DEF a
  <2>4. Cong(y, z, P)
    BY <2>3 DEF Cong
  <2>5. QED
    BY <2>4, CongSmall
<1>6. QED
  BY <1>4, <1>5

\* So H is the even point over the first hash that has one.
LEMMA CanonicalInv == SubmissionInv => HIsCanonical
<1> SUFFICES ASSUME SubmissionInv PROVE HIsCanonical
  OBVIOUS
<1>1. hashes \in HashStream /\ hashes \in Seq(Field) /\ H = DeriveH(hashes)
  BY HIsPoint, StreamAssumption DEF SubmissionInv, TypeOK
<1>2. PICK i \in Accepted(hashes) :
           /\ \A j \in Accepted(hashes) : i <= j
           /\ i \in Nat /\ hashes[i] \in Field /\ IsResidue(Cubic(hashes[i]))
           /\ DeriveH(hashes) = <<hashes[i], EvenRoot(Cubic(hashes[i]))>>
  BY <1>1, DerivedGenerator
<1> DEFINE over(j) == {y \in Field : OnCurve(<<hashes[j], y>>)}
           root == EvenRoot(Cubic(hashes[i]))
<1>3. i \in DOMAIN hashes /\ DOMAIN hashes = 1 .. Len(hashes) /\ Len(hashes) \in Nat
  BY <1>1 DEF Accepted
<1>4. \A j \in 1 .. i - 1 : over(j) = {}
  <2> SUFFICES ASSUME NEW j \in 1 .. i - 1, NEW y \in Field, OnCurve(<<hashes[j], y>>) PROVE FALSE
    OBVIOUS
  <2>1. j \in DOMAIN hashes /\ ~(i <= j) /\ hashes[j] \in Field
    BY <1>1, <1>2, <1>3
  <2>2. j \in Accepted(hashes)
    BY <2>1, PointsAreAccepted DEF Accepted
  <2>3. QED
    BY <1>2, <2>1, <2>2
<1>5. H[1] = hashes[i] /\ H[2] = root
  BY <1>1, <1>2
<1>6. Cubic(hashes[i]) \in Field
  BY <1>2, CubicInField
<1>7. root \in Field /\ root % 2 = 0 /\ (root * root) % P = Cubic(hashes[i])
  BY <1>2, <1>6, EvenRootIsRoot
<1> HIDE DEF root
<1>8. root \in over(i)
  BY <1>2, <1>7 DEF OnCurve
<1>9. ASSUME NEW y \in over(i), y % 2 = 0 PROVE y = root
  <2>1. y \in Field /\ (y * y) % P = (root * root) % P
    BY <1>7 DEF OnCurve
  <2>2. QED
    BY <1>7, <1>9, <2>1, EvenRootUnique
<1>10. {y \in over(i) : y % 2 = 0} = {H[2]}
  <2> HIDE DEF over
  <2>1. QED
    BY <1>5, <1>7, <1>8, <1>9
<1>11. QED
  BY <1>3, <1>4, <1>5, <1>10 DEF HIsCanonical

--------------------------------------------------------------------------------
(* The theorems.                                                            *)

\* Whichever verifier gives a verdict on two points of the curve, over whatever scalars
\* in or out of range: the verdict is the Schnorr equation in the exponents.
THEOREM VerdictsAreTheEquation == Spec => []VerdictIsEquation
BY SubmissionIsKept, VerdictInv, PTL

\* No proof with a commitment on the curve verifies under two responses unless the
\* oracle gave both the same challenge: its verdict cannot be exchanged.
THEOREM ProofsAreBound == Spec => []BoundToVerdict
BY SubmissionIsKept, BoundInv, PTL

\* Every verifier accepts what the prover makes, for any secrets and randomness, except
\* that those in Python crash if the two sides come to the identity.
THEOREM HonestProofsPass == Spec => []Complete
BY SubmissionIsKept, CompleteInv, PTL

\* The implementations in Solidity, Go and Python agree on what is in the domain of all.
THEOREM VerifiersAgree == Spec => []ImplementationsAgree
BY SubmissionIsKept, Agreement, PTL

\* The test of Euler and the power taken for a root find the first hash that any point
\* lies over, and of its two points the even one.
THEOREM GeneratorIsCanonical == Spec => []HIsCanonical
BY SubmissionIsKept, CanonicalInv, PTL

================================================================================
