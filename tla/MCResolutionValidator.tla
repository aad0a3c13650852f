------------------------- MODULE MCResolutionValidator -------------------------
(****************************************************************************)
(* Small instances of ResolutionValidator.  A proof is modelled by the set  *)
(* of contexts it verifies for: one context each for the proofs a prover    *)
(* makes, and every context for a proof over the identity commitment, whose *)
(* equation does not depend on the challenge.                               *)
(****************************************************************************)
EXTENDS ResolutionValidator

MCProof == {{c} : c \in Context} \cup {Context}

\* Proofs over commitments other than the identity only.
MCHonestProof == {{c} : c \in Context}

MCAccepts == {<<p, c>> \in Proof \X Context : c \in p}

\* In the run with a full verifier a computation is genuine if its verdict is TRUE.
MCGenuine == {c \in Context : c.response = 100}

Symmetry ==
  Permutations(AgentId) \cup Permutations(RequestHash)
    \cup Permutations(InputCommit \ {ZeroCommit})

================================================================================
