------------------------------- MODULE MCDemoRun -------------------------------
(* The acceptance run with two verdicts, and another agent's owner about.   *)
EXTENDS DemoRun

MCProof == {{c} : c \in Context}

MCAccepts == {<<p, c>> \in Proof \X Context : c \in p}

MCProofOf == [c \in Context |-> {c}]

\* The verdict moves at the end of the window, at its beginning, or not at all.
MCBlocks == {<<TRUE, TRUE, FALSE>>, <<FALSE, TRUE, TRUE>>, <<FALSE, FALSE, FALSE>>}

\* Heights count from 0.
MCChains == {[b \in 0 .. 2 |-> c[b + 1]] : c \in MCBlocks}

MCEvidence == [i \in {1, 2} |-> IF i = 1 THEN "block0" ELSE "block1"]

================================================================================
