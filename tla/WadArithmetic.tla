------------------------------ MODULE WadArithmetic ------------------------------
(****************************************************************************)
(* The fixed-point arithmetic of the v2 profile over exact integers, and    *)
(* what a claim about the work function may be refused for.                 *)
(*                                                                          *)
(* A vector is a sequence of three integers.  A claim states that n         *)
(* iterations of the matrix m take an input vector to sOut; the input is    *)
(* listed (sIn), or derived from the first three 64-bit limbs of a hash.    *)
(* A hash that is not 32 bytes is a sequence of another length, the empty   *)
(* string among them.  Any field may be missing.                            *)
(****************************************************************************)
EXTENDS Integers, Sequences

CONSTANTS
  Wad,       \* the fixed-point scale, 10^18
  NMax,      \* the largest admitted number of iterations, 2^20
  Limb,      \* the size of a limb of a hash, 2^64
  Version,   \* the version of the profile, 2
  Absent,    \* a field of a claim that is not there
  Claims     \* the claims considered

ASSUME WadAssumption == Wad \in Nat \ {0}
ASSUME NMaxAssumption == NMax \in Nat
ASSUME LimbAssumption == Limb \in Nat \ {0}
ASSUME VersionAssumption == Version \in Nat \ {0}
ASSUME AbsentAssumption == Absent \notin Int \cup {<<>>}

Index == 1 .. 3
Limbs == [Index -> 0 .. Limb - 1]
BadHashes == {<<>>, <<0>>}
Claim == [version : Int \cup {Absent}, n : Int \cup {Absent}, m : Seq(Seq(Int)) \cup {Absent},
          hash : Limbs \cup BadHashes \cup {Absent},
          sIn : Seq(Int) \cup {Absent}, sOut : Seq(Int) \cup {Absent}]

ASSUME ClaimsAssumption == Claims \subseteq Claim

--------------------------------------------------------------------------------
(* Arithmetic.                                                              *)

Total(v) == v[1] + v[2] + v[3]

VectorOK(s) == Len(s) = 3 /\ \A i \in Index : s[i] \in 0 .. Wad

SumsToWad(s) == Total(s) = Wad

InputOK(s) == VectorOK(s) /\ SumsToWad(s)

MatrixOK(m) == Len(m) = 3 /\ \A i \in Index : VectorOK(m[i]) /\ SumsToWad(m[i])

\* Mutant: rounding up.
MulDown_up(x, y) == (x * y + Wad - 1) \div Wad

\* Mutant: rounding to the nearest.
MulDown_nearest(x, y) == (2 * x * y + Wad) \div (2 * Wad)

MulDown(x, y) == (x * y) \div Wad

\* One iteration: each product is floored, then the three are added.
Step(m, s) ==
  [i \in Index |-> MulDown(m[i][1], s[1]) + MulDown(m[i][2], s[2]) + MulDown(m[i][3], s[3])]

\* The limbs of a hash scaled to sum to Wad, what flooring lost given to the first.
Derivable(x) == Len(x) = 3 /\ Total(x) # 0

Scaled(x) == [i \in Index |-> (x[i] * Wad) \div Total(x)]

\* Mutant: what flooring lost is lost.
Derive_noRemainder(x) == Scaled(x)

Derive(x) ==
  LET q == Scaled(x)
  IN [i \in Index |-> IF i = 1 THEN q[1] + (Wad - Total(q)) ELSE q[i]]

--------------------------------------------------------------------------------
(* What a claim is refused for.                                             *)

VersionOf(c) == IF c.version = Absent THEN Version ELSE c.version

DerivationOK(c) == c.hash # Absent => Derivable(c.hash)

InputOf(c) == IF c.hash = Absent THEN c.sIn ELSE Derive(c.hash)

\* An input that is neither listed nor derived.
NoInput(c) == c.hash = Absent /\ c.sIn = Absent

ListedOK(c) ==
  c.hash # Absent /\ Derivable(c.hash) /\ c.sIn # Absent => c.sIn = Derive(c.hash)

\* The gates of the profile, and those of them that refuse a claim.
GateNames == {"version", "n", "matrix", "derive", "listed", "input", "output"}

Faults(c) ==
  {g \in GateNames :
     \/ g = "version" /\ VersionOf(c) # Version
     \/ g = "n" /\ (c.n = Absent \/ c.n \notin 0 .. NMax)
     \/ g = "matrix" /\ (c.m = Absent \/ ~MatrixOK(c.m))
     \/ g = "derive" /\ ~DerivationOK(c)
     \/ g = "listed" /\ ~ListedOK(c)
     \/ g = "input" /\ DerivationOK(c) /\ (NoInput(c) \/ ~InputOK(InputOf(c)))
     \/ g = "output" /\ (c.sOut = Absent \/ ~VectorOK(c.sOut))}

\* The gate has nothing to look at.
Missing(g, c) ==
  \/ g = "n" /\ c.n = Absent
  \/ g = "matrix" /\ c.m = Absent
  \/ g = "input" /\ NoInput(c)
  \/ g = "output" /\ c.sOut = Absent

\* A missing field, or a listed input that is not the derived one, is a broken file
\* and gets no classification; everything else that is refused is rejected.
Answer(g, c) == IF g = "listed" \/ Missing(g, c) THEN "error" ELSE "reject"

================================================================================
