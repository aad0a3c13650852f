------------------------------ MODULE MCWorkClaims ------------------------------
(****************************************************************************)
(* Claims for small scales.  Well-formed ones: matrices over a few rows,    *)
(* all inputs, up to NMax iterations, with the right output and with        *)
(* outputs that are off.  Malformed ones: a field out of order in many      *)
(* ways, and several of the fields out of order or missing at once.         *)
(****************************************************************************)
EXTENDS WadArithmetic

Vectors == {v \in [Index -> 0 .. Wad] : Total(v) = Wad}

\* A row that floors nothing, and two that floor much.
MCRows == {<<Wad, 0, 0>>, <<1, 1, Wad - 2>>, <<0, Wad - 1, 1>>}
MCMatrices == {<<r1, r2, r3>> : r1, r2, r3 \in MCRows}

Output(m, s, n) ==
  LET power[i \in Nat] == IF i = 0 THEN s ELSE Step(m, power[i - 1]) IN power[n]

Vec(s) == <<s[1], s[2], s[3]>>

WellFormed ==
  UNION {LET right == Vec(Output(m, s, n)) IN
           {[version |-> Version, n |-> n, m |-> m, hash |-> Absent,
             sIn |-> Vec(s), sOut |-> o] :
               o \in {right, [right EXCEPT ![2] = (@ + 1) % (Wad + 1)]}}
         : m \in MCMatrices, s \in Vectors, n \in 0 .. NMax}

Base == [version |-> Version, n |-> 1, m |-> <<<<Wad, 0, 0>>, <<0, Wad, 0>>, <<0, 0, Wad>>>>,
         hash |-> Absent, sIn |-> <<Wad, 0, 0>>, sOut |-> <<Wad, 0, 0>>]

BadVectors == {<<Wad + 1, 0, -1>>, <<Wad, 0>>, <<Wad, 1, 0>>, <<Wad - 1, 0, 0>>, <<0, 0, Wad + 1>>}

Strange ==
       {[Base EXCEPT !.version = v] : v \in {0, 1, Version + 1, Absent}}
  \cup {[Base EXCEPT !.n = n] : n \in {-1, NMax + 1}}
  \cup {[Base EXCEPT !.m[2] = r] : r \in BadVectors}
  \cup {[Base EXCEPT !.m = <<<<Wad, 0, 0>>, <<0, Wad, 0>>>>]}
  \cup {[Base EXCEPT !.sIn = s] : s \in BadVectors}
  \cup {[Base EXCEPT !.sOut = s] : s \in BadVectors}

Hashed ==
  {[Base EXCEPT !.hash = x, !.sIn = s, !.sOut = o] :
     x \in Limbs \cup BadHashes, s \in {Absent, <<Wad, 0, 0>>, <<Wad, 0>>}, o \in {<<Wad, 0, 0>>, <<0, 0, 0>>}}

\* Every combination of faults, so that the order of the gates shows.
Faulty ==
  {[version |-> v, n |-> n, m |-> m, hash |-> x, sIn |-> s, sOut |-> o] :
     v \in {0, Version, Version + 1},
     n \in {1, NMax + 1, Absent},
     m \in {Base.m, <<<<Wad, 0, 0>>, <<Wad, 1, 0>>, <<0, 0, Wad>>>>, <<>>, Absent},
     x \in {[i \in Index |-> 1], [i \in Index |-> 0], <<>>, Absent},
     s \in {Base.sIn, <<Wad, 1, 0>>, <<Wad, 0>>, Absent},
     o \in {Base.sOut, <<0, 0, Wad + 1>>, Absent}}

AllClaims == {c \in WellFormed \cup Strange \cup Hashed \cup Faulty : c \in Claim}

\* The claims are named, and given to the constant under another name, so that
\* TLC computes the set once.
MCClaims == AllClaims

================================================================================
