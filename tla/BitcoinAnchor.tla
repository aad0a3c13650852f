------------------------------ MODULE BitcoinAnchor ------------------------------
(****************************************************************************)
(* The validator contract together with Bitcoin: whoever anchors the head   *)
(* of an agent reads it, commits what was read to Bitcoin, and passes the   *)
(* reference of that commitment to anchorHead, which takes no head: it      *)
(* freezes the head that it finds.  In between anybody may record verdicts, *)
(* and anybody may pass any reference for any agent.                        *)
(****************************************************************************)
EXTENDS ResolutionValidator

VARIABLE committed   \* Bitcoin: reference => the agent and the head committed to

anchorVars == <<vars, committed>>

AnchorInit == Init /\ committed = <<>>

\* The reference is the id of a transaction, which nobody knows before.
CommitHead(a, ref) ==
  /\ ref \notin DOMAIN committed
  /\ \A h \in DOMAIN headAnchoredTo : headAnchoredTo[h] # ref
  /\ committed' = [k \in DOMAIN committed \cup {ref} |->
                     IF k = ref THEN [agentId |-> a, head |-> head[a]] ELSE committed[k]]
  /\ UNCHANGED vars

AnchorNext ==
  \/ \E a \in AgentId, ref \in BitcoinRef : CommitHead(a, ref)
  \/ Next /\ UNCHANGED committed

AnchorSpec == AnchorInit /\ [][AnchorNext]_anchorVars

FairAnchorSpec == AnchorSpec /\ Fairness

--------------------------------------------------------------------------------

\* What Bitcoin holds about an agent stays evidence for its log: a head that was
\* committed to is an ancestor of the agent's head for ever.
CommitmentsHold ==
  \A ref \in DOMAIN committed :
    IsPrefix(committed[ref].head, head[committed[ref].agentId])

\* A reference may be older than the head it is frozen to, for the contract takes
\* the head from its state and not from the caller, but it is never younger: the
\* log that a consumer finds committed under it is a beginning of the frozen one.
\* (The zero head belongs to no agent.)
ReferencesAreAncestral ==
  \A h \in DOMAIN headAnchoredTo :
    LET ref == headAnchoredTo[h] IN
    h # <<>> /\ ref \in DOMAIN committed /\ IsPrefix(h, head[committed[ref].agentId])
      => IsPrefix(committed[ref].head, h)

================================================================================
