-------------------------------- MODULE WorkLoop --------------------------------
(****************************************************************************)
(* The integer work function of the v2 profile, s_N = M^N . s, as plain     *)
(* iteration over exact integers, and the verdict on one claim about it.    *)
(* This is what every implementation computes; how each of them reaches it  *)
(* is in WorkReplay (the Python and Go verifiers) and WorkV2Contract (the   *)
(* EVM).  They ask the gates in orders of their own, which is a parameter.  *)
(****************************************************************************)
EXTENDS WadArithmetic

CONSTANT Order   \* the gates in the order in which they are asked

ASSUME OrderAssumption ==
  /\ Order \in Seq(GateNames)
  /\ \A g \in GateNames : \E i \in DOMAIN Order : Order[i] = g

--------------------------------------------------------------------------------
(* The loop.                                                                *)

VARIABLES
  claim,     \* the claim under examination
  phase,     \* "gates", "loop" or "done"
  k,         \* iterations done
  out,       \* the vector after k iterations
  verdict    \* "none", then "true", "false", "reject" or "error"

loopVars == <<claim, phase, k, out, verdict>>

Zero == [i \in Index |-> 0]

Init ==
  /\ claim \in Claims
  /\ phase = "gates"
  /\ k = 0
  /\ out = Zero
  /\ verdict = "none"

\* The gate i is the first that refuses the claim c.
Refuses(i, c) ==
  /\ Order[i] \in Faults(c)
  /\ \A j \in 1 .. i - 1 : Order[j] \notin Faults(c)

Refuse ==
  /\ phase = "gates"
  /\ phase' = "done"
  /\ \E i \in DOMAIN Order : Refuses(i, claim) /\ verdict' = Answer(Order[i], claim)
  /\ UNCHANGED <<claim, k, out>>

Admit ==
  /\ phase = "gates"
  /\ Faults(claim) = {}
  /\ phase' = "loop"
  /\ out' = InputOf(claim)
  /\ UNCHANGED <<claim, k, verdict>>

\* Mutant: one iteration too many.
MoreToDo_extra(i, n) == i <= n

MoreToDo(i, n) == i < n

\* Mutant: the counter is not advanced.
Iterate_stuck ==
  /\ phase = "loop"
  /\ MoreToDo(k, claim.n)
  /\ out' = Step(claim.m, out)
  /\ UNCHANGED <<claim, phase, k, verdict>>

Iterate ==
  /\ phase = "loop"
  /\ MoreToDo(k, claim.n)
  /\ out' = Step(claim.m, out)
  /\ k' = k + 1
  /\ UNCHANGED <<claim, phase, verdict>>

Decide ==
  /\ phase = "loop"
  /\ ~MoreToDo(k, claim.n)
  /\ phase' = "done"
  /\ verdict' = IF out = claim.sOut THEN "true" ELSE "false"
  /\ UNCHANGED <<claim, k, out>>

Next == Refuse \/ Admit \/ Iterate \/ Decide

Spec == Init /\ [][Next]_loopVars

\* A program that runs is scheduled until it is done.
FairSpec == Spec /\ WF_loopVars(Next)

--------------------------------------------------------------------------------
(* Properties.                                                              *)

TypeOK ==
  /\ claim \in Claim
  /\ phase \in {"gates", "loop", "done"}
  /\ k \in 0 .. NMax
  /\ out \in [Index -> Int]
  /\ verdict \in {"none", "true", "false", "reject", "error"}

Largest(s) == CHOOSE x \in {s[i] : i \in Index} : \A i \in Index : s[i] <= x

\* No component of any vector the loop reaches exceeds the largest component of
\* the input, hence none exceeds Wad: the bound the unchecked EVM loop rests on.
ComponentsBounded ==
  phase = "loop" => \A i \in Index : out[i] \in 0 .. Largest(InputOf(claim))

\* The largest component never grows from one iteration to the next.
MaxNeverGrows ==
  [][phase = "loop" => \A i \in Index : \E j \in Index : out'[i] <= out[j]]_loopVars

\* Exact product of the matrix with a vector, without the division by Wad.
Product(m, s) == [i \in Index |-> m[i][1] * s[1] + m[i][2] * s[2] + m[i][3] * s[3]]

\* Wad^n.
Scale[n \in Nat] == IF n = 0 THEN 1 ELSE Wad * Scale[n - 1]

\* M^n . s scaled by Wad^n, in exact arithmetic.
ExactPower(m, s) ==
  LET power[n \in Nat] == IF n = 0 THEN s ELSE Product(m, power[n - 1]) IN power

\* Flooring loses less than three units of each component per iteration, and the
\* losses of earlier iterations are averaged, never amplified: after k iterations
\* the loop is below the exact power by less than 3k units, and never above it.
DriftBounded ==
  phase = "loop" =>
    \A i \in Index :
      LET exact == ExactPower(claim.m, InputOf(claim))[k][i] IN
      /\ out[i] * Scale[k] <= exact
      /\ k > 0 => exact < (out[i] + 3 * k) * Scale[k]

\* How many whole units fit into a product: floor division, without a division.
Units(x, y) == CHOOSE q \in 0 .. Wad : q * Wad <= x * y /\ x * y < (q + 1) * Wad

UnitStep(m, s) ==
  [i \in Index |-> Units(m[i][1], s[1]) + Units(m[i][2], s[2]) + Units(m[i][3], s[3])]

\* The verdict by the definition of the profile: N plain iterations, exact equality.
Classify(c) ==
  LET power[n \in Nat] == IF n = 0 THEN InputOf(c) ELSE UnitStep(c.m, power[n - 1])
  IN IF power[c.n] = c.sOut THEN "true" ELSE "false"

\* A claim with no fault gets the verdict that the definition gives, and one with
\* faults the answer to the first of them in the order of the gates: an error where
\* another gate would have refused it first is as wrong as a rejection of a file
\* that is broken.
VerdictExact ==
  phase = "done" =>
    IF Faults(claim) = {}
    THEN verdict = Classify(claim)
    ELSE \E i \in DOMAIN Order : Refuses(i, claim) /\ verdict = Answer(Order[i], claim)

\* The input a hash is turned into is admissible: it sums to Wad exactly, no
\* component exceeds Wad, and flooring lost at most two units.
DerivedInputOK ==
  claim.hash # Absent /\ Derivable(claim.hash) =>
    /\ InputOK(Derive(claim.hash))
    /\ Wad - Total(Scaled(claim.hash)) \in 0 .. 2

Terminates == <>(phase = "done")

================================================================================
