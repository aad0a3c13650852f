----------------------------- MODULE VerdictLedger -----------------------------
(****************************************************************************)
(* What a consumer of the validator may rely on, with no proof, hash,       *)
(* registry or challenge in sight.                                          *)
(*                                                                          *)
(* A request belongs to at most one agent, for ever.  Each agent has a log  *)
(* of verdicts that only grows; the current verdict of a request is the one *)
(* its owner's log mentions last; and a prefix of an agent's log, once      *)
(* frozen to a Bitcoin reference, keeps that reference and belongs to that  *)
(* agent alone.                                                             *)
(****************************************************************************)
EXTENDS Naturals, SequencesExt

CONSTANTS Agent, Request, Verdict, Ref, None

VARIABLES
  owner,     \* owner[r]: the agent the request r was opened for, or None
  log,       \* log[a]: the verdicts about a's requests, oldest first
  current,   \* current[r]: the verdict in force, or None
  frozen     \* frozen[a]: lengths of frozen prefixes of log[a] -> reference

ledgerVars == <<owner, log, current, frozen>>

Line == [request : Request, verdict : Verdict]

Init ==
  /\ owner = [r \in Request |-> None]
  /\ log = [a \in Agent |-> <<>>]
  /\ current = [r \in Request |-> None]
  /\ frozen = [a \in Agent |-> <<>>]

Open(a, r) ==
  /\ owner[r] = None
  /\ owner' = [owner EXCEPT ![r] = a]
  /\ UNCHANGED <<log, current, frozen>>

Publish(a, r, v) ==
  /\ owner[r] = a
  /\ log' = [log EXCEPT ![a] = Append(@, [request |-> r, verdict |-> v])]
  /\ current' = [current EXCEPT ![r] = v]
  /\ UNCHANGED <<owner, frozen>>

\* An empty log carries no evidence: freezing it is not a step of the ledger.
Freeze(a, ref) ==
  LET n == Len(log[a]) IN
  /\ n > 0
  /\ n \notin DOMAIN frozen[a]
  /\ frozen' = [frozen EXCEPT ![a] =
                  [m \in DOMAIN @ \cup {n} |-> IF m = n THEN ref ELSE @[m]]]
  /\ UNCHANGED <<owner, log, current>>

Next ==
  \/ \E a \in Agent, r \in Request : Open(a, r)
  \/ \E a \in Agent, r \in Request, v \in Verdict : Publish(a, r, v)
  \/ \E a \in Agent, ref \in Ref : Freeze(a, ref)

Spec == Init /\ [][Next]_ledgerVars

================================================================================
