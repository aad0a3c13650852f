-------------------------------- MODULE DemoRun --------------------------------
(****************************************************************************)
(* The acceptance run live-demo-v2/deploy_and_run.py (main) against the     *)
(* contract, and the audit live-demo-v2/verify.py of the state it saves.    *)
(*                                                                          *)
(* The run sends its calls one after the other (TxSender, SerialCalls) and  *)
(* reads through RPC nodes that may lag.  Meanwhile anybody else may call   *)
(* both contracts with anything, except open a registry request for the     *)
(* run's agent, which belongs to it (line 134).  The run starts here when   *)
(* the contracts are deployed and the claim is made: it is about two blocks *)
(* that the chain already has (line 159).  It may die at any point (an      *)
(* exception, an assertion), also when a call of its has taken effect and   *)
(* it has not seen the receipt.                                             *)
(****************************************************************************)
EXTENDS ResolutionValidator, FiniteSetsExt

CONSTANTS
  Us,             \* AGENT_ID, owned by the run
  Claim,          \* request_hash
  Bound,          \* input_commit
  Window,         \* the blocks among which the first is chosen (64)
  Blocks,         \* chains there may be: whether the last byte of each hash is even
  Evidence,       \* the hashes of the evidence of the two entries
  ProofOf,        \* the prover: a proof for each context
  MaxLag,         \* bound on how many changes a node is behind
  MaxStrangers    \* bound on the calls of others

ASSUME UsAssumption == Us \in AgentId /\ Claim \in RequestHash
ASSUME BoundAssumption == Bound \in InputCommit \ {ZeroCommit}
ASSUME WindowAssumption == Window \in Nat \ {0}
ASSUME BlocksAssumption == Blocks \subseteq [0 .. Window -> BOOLEAN]
ASSUME EvidenceAssumption == Evidence \in [{1, 2} -> ResponseHash] /\ Evidence[1] # Evidence[2]
ASSUME ProverAssumption == \A c \in DOMAIN ProofOf : <<ProofOf[c], c>> \in Accepts

VARIABLES
  even,        \* the chain that the claim is about
  pc,          \* the next step of the run
  past,        \* what the nodes may show: the views of the claim so far
  rep,         \* what the run has read, by name
  lagged,      \* whether any of it was not current
  strangers    \* calls of others

demoVars == <<even, pc, past, rep, lagged, strangers>>

View == [answer |-> registryStatus[Claim], entries |-> history[Claim], head |-> head[Us]]

DemoInit ==
  /\ Init
  /\ even \in Blocks
  /\ pc = "open"
  /\ past = <<View>>
  /\ rep = <<>>
  /\ lagged = FALSE
  /\ strangers = 0

ParityVerdict(b) == IF even[b] THEN 100 ELSE 0

\* The blocks of the window whose verdict differs from the next one's.
Moving == {b \in 0 .. Window - 1 : ParityVerdict(b) # ParityVerdict(b + 1)}

B0 == IF Moving = {} THEN 0 ELSE Min(Moving)

\* Mutant: both entries are about the first block.
Outcome_sameBlock(i) == [response |-> ParityVerdict(B0), responseHash |-> Evidence[i]]

\* The verdict of each entry, with its evidence.
Outcome(i) == [response |-> ParityVerdict(B0 + i - 1), responseHash |-> Evidence[i]]

ContextNo(i) == ContextOf(Claim, Bound, Outcome(i).response, Outcome(i).responseHash)

Flipped == [Outcome(1) EXCEPT !.response = 100 - @]

--------------------------------------------------------------------------------
(* Steps of the run.                                                        *)

Shown == past' = Append(past, View')

\* A transaction of the run; the run may not live to see its receipt.
Send(at, next, call) ==
  /\ pc = at
  /\ call
  /\ Shown
  /\ pc' \in {next, "dead"}
  /\ UNCHANGED <<even, rep, lagged, strangers>>

OpenRequest == Send("open", "commit", ValidationRequest(Us, Claim, This))

Commit == Send("commit", "record1", CommitRequest(Us, Claim, Bound))

\* verify is asked before gas is spent.
Record(i, at, next) ==
  /\ <<ProofOf[ContextNo(i)], ContextNo(i)>> \in Accepts
  /\ Send(at, next, RecordResolution(Claim, Outcome(i).response, Outcome(i).responseHash,
                                     ProofOf[ContextNo(i)]))

Nodes == {n \in DOMAIN past : n + MaxLag >= Len(past)}

\* A read of `name`: `answers` has the value that each node gives on which the call
\* does not revert.  call_retry asks until it meets one.
Read(at, next, name, answers) ==
  /\ pc = at
  /\ \E n \in DOMAIN answers :
       /\ rep' = [f \in DOMAIN rep \cup {name} |-> IF f = name THEN answers[n] ELSE rep[f]]
       /\ lagged' = (lagged \/ n # Len(past))
  /\ pc' = next
  /\ UNCHANGED <<vars, even, past, strangers>>

ReadLength(at, next, name) ==
  Read(at, next, name, [n \in Nodes |-> Len(past[n].entries)])

ReadHead(at, next, name) == Read(at, next, name, [n \in Nodes |-> past[n].head])

ReadAnswer(at, next, name) == Read(at, next, name, [n \in Nodes |-> past[n].answer])

\* Mutant: a node without the entry is not asked again, but taken at its word.
HasEntry_any(i, n) == TRUE

HasEntry(i, n) == i \in DOMAIN past[n].entries

\* Mutant: the index of an entry is one too low.
EntryIn_before(i, n) ==
  LET j == IF i = 1 THEN 1 ELSE i - 1 IN
  IF i \in DOMAIN past[n].entries THEN VerdictOf(past[n].entries[j]) ELSE None

EntryIn(i, n) ==
  IF i \in DOMAIN past[n].entries THEN VerdictOf(past[n].entries[i]) ELSE None

ReadEntry(i, at, next, name) ==
  Read(at, next, name, [n \in {m \in Nodes : HasEntry(i, m)} |-> EntryIn(i, n)])

\* B: what the chain shows after the first verdict.
CheckB ==
  \/ ReadLength("length1", "entry1", "length1")
  \/ ReadEntry(1, "entry1", "head1", "entry1")
  \/ ReadHead("head1", "answer1", "head1")
  \/ ReadAnswer("answer1", "tamper", "answer1")

\* C: the same proof with the other response, which verify must refuse and the
\* transaction must not survive; a revert changes nothing.
Tamper ==
  /\ pc = "tamper"
  /\ ~Verify(Claim, Bound, Flipped.response, Flipped.responseHash, ProofOf[ContextNo(1)])
  /\ pc' = "lengthC"
  /\ UNCHANGED <<vars, even, past, rep, lagged, strangers>>

CheckC == ReadLength("lengthC", "record2", "lengthC")

\* D: what the chain shows after the second one; then everything is saved.
CheckD ==
  \/ ReadLength("length2", "entry2", "length2")
  \/ ReadEntry(2, "entry2", "head2", "entry2")
  \/ ReadHead("head2", "answer2", "head2")
  \/ ReadAnswer("answer2", "saved", "answer2")

Die ==
  /\ pc \notin {"saved", "audited", "dead"}
  /\ pc' = "dead"
  /\ UNCHANGED <<vars, even, past, rep, lagged, strangers>>

\* Mutant: the registry is not asked.
AuditOK_entriesOnly(answer) ==
  \A i \in 1 .. 2 : <<ProofOf[ContextNo(i)], ContextNo(i)>> \in Accepts

\* verify.py: the proofs of the saved entries verify, the tampered one does not,
\* and the registry shows the last of them.
AuditOK(answer) ==
  /\ \A i \in 1 .. 2 : <<ProofOf[ContextNo(i)], ContextNo(i)>> \in Accepts
  /\ ~Verify(Claim, Bound, Flipped.response, Flipped.responseHash, ProofOf[ContextNo(1)])
  /\ answer = Outcome(2)

Audit ==
  /\ pc = "saved"
  /\ \E n \in Nodes :
       rep' = [f \in DOMAIN rep \cup {"audit", "current"} |->
                 CASE f = "audit" -> AuditOK(past[n].answer)
                   [] f = "current" -> n = Len(past)
                   [] OTHER -> rep[f]]
  /\ pc' = "audited"
  /\ UNCHANGED <<vars, even, past, lagged, strangers>>

--------------------------------------------------------------------------------
(* Everybody else.                                                          *)

Stranger ==
  /\ pc \notin {"audited", "dead"}
  /\ strangers < MaxStrangers
  /\ Next
  /\ registryRequest'[Claim] # registryRequest[Claim]
       => registryRequest'[Claim].agentId # Us
  /\ Shown
  /\ strangers' = strangers + 1
  /\ UNCHANGED <<even, pc, rep, lagged>>

DemoNext ==
  \/ OpenRequest \/ Commit
  \/ Record(1, "record1", "length1") \/ CheckB
  \/ Tamper \/ CheckC
  \/ Record(2, "record2", "length2") \/ CheckD
  \/ Die \/ Audit \/ Stranger

DemoSpec == DemoInit /\ [][DemoNext]_<<vars, demoVars>>

--------------------------------------------------------------------------------
(* Properties.                                                              *)

Saved == pc \in {"saved", "audited"}

SaysOutcome(e, i) ==
  e.response = Outcome(i).response /\ e.responseHash = Outcome(i).responseHash

\* The saved state file is true of the chain for ever: the registry and the contract,
\* which are opened by two calls, agree that the claim is the run's agent's, for this
\* validator and with the inputs bound first, and the log holds both verdicts, in order, each
\* with the saved proof, whatever others recorded around them.
SavedIsOnChain ==
  Saved =>
    /\ registryRequest[Claim] = [agentId |-> Us, validator |-> This]
    /\ requests[Claim] = [agentId |-> Us, inputCommit |-> Bound]
    /\ \E i, j \in DOMAIN history[Claim] :
         /\ i < j
         /\ SaysOutcome(history[Claim][i], 1) /\ calldata[Claim][i] = ProofOf[ContextNo(1)]
         /\ SaysOutcome(history[Claim][j], 2) /\ calldata[Claim][j] = ProofOf[ContextNo(2)]

\* The acceptance checks B, C and D report what they should, unless a node lagged or
\* others recorded verdicts for the agent: nothing else that others do disturbs them.
\* The verdict is seen to move whenever two neighbours in the window differ.
ChecksHold ==
  Saved /\ ~lagged /\ Len(head[Us]) = 2 =>
    /\ rep.length1 = 1 /\ rep.lengthC = rep.length1 /\ rep.length2 = 2
    /\ SaysOutcome(rep.entry1, 1) /\ SaysOutcome(rep.entry2, 2)
    /\ rep.answer1 = Outcome(1) /\ rep.answer2 = Outcome(2)
    /\ (rep.answer2.response # rep.answer1.response) = (Moving # {})
    /\ rep.entry2.prevEntry = rep.head1
    /\ rep.head2 # rep.head1

\* An entry that was read is the entry, however far behind the node was: the log
\* only grows, and a node that has not got the entry yet fails and is asked again.
EntriesReadAreTrue ==
  \A name \in DOMAIN rep \cap {"entry1", "entry2"} :
    LET i == IF name = "entry1" THEN 1 ELSE 2 IN
    i \in DOMAIN history[Claim] /\ rep[name] = VerdictOf(history[Claim][i])

\* An audit of a current node fails only because the verdict was moved since, by a
\* newer entry than the saved ones; and it passes only if the last saved verdict
\* is the latest entry.
AuditMeansLatest ==
  pc = "audited" /\ rep.current =>
    rep.audit = SaysOutcome(Last(history[Claim]), 2)

================================================================================
