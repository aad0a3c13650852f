------------------------------ MODULE ReplayClaims ------------------------------
(****************************************************************************)
(* The life of one claim about a Bitcoin block, answered in the registry    *)
(* without the contract: the adapter adapter/erc8004_validation_adapter.py  *)
(* maps what the engine resolved to the calls of the registry, and the      *)
(* auditors live-demo/verify.py (the parity of the block's hash) and        *)
(* live-demo-2/verify.py (its number of transactions) replay the claim.     *)
(*                                                                          *)
(* Bitcoin, the registry and the resolution engine are external.  Bitcoin   *)
(* may replace its last block.  A request of the registry is opened once,   *)
(* by anybody, shows a zero answer until it is answered, and is answered by *)
(* the validator it names as often as that likes.  The engine attests the   *)
(* outcome, or nothing yet.                                                 *)
(*                                                                          *)
(* Hashes are modelled by what was hashed.  The files that the auditors     *)
(* fetch are pinned to commits: the claim is the one that was committed,    *)
(* and the evidence the one the engine resolved it with.                    *)
(****************************************************************************)
EXTENDS Naturals, Sequences, FiniteSets

CONSTANTS
  Claim,        \* claims: [asset, rule, height, threshold]
  Block,        \* Bitcoin blocks: [hash, txCount]
  Asset,        \* engine.ASSET
  HexLength,    \* the lengths of hex strings that an attestation may hold
  Us, Other,    \* validators: ours, which sends what the adapter emits, and another
  Response,     \* answers the other one may give
  MaxHeight,    \* bound on the chain
  MaxReorgs,    \* bound on the replaced blocks
  MaxResults,   \* bound on the different results of audits
  None          \* absent, and bytes32(0)

ASSUME ClaimAssumption ==
  \A c \in Claim :
    c.rule \in {"parity", "txcount"} /\ c.height \in 1 .. MaxHeight /\ c.threshold \in Nat
ASSUME BlockAssumption == \A b \in Block : b.hash \in Nat /\ b.txCount \in Nat
ASSUME ValidatorAssumption == Us # Other
ASSUME BoundsAssumption == MaxHeight \in Nat /\ MaxReorgs \in Nat /\ MaxResults \in Nat

VARIABLES
  claim,         \* the claim that this behaviour is about
  chain,         \* Bitcoin: the blocks from height 1 on
  reorgs,        \* how many blocks were replaced
  disturbed,     \* whether one of them was the claim's
  committedAt,   \* Bitcoin's height when the claim was committed, or None
  attestation,   \* what the engine resolved, or None
  record,        \* what the adapter emitted, or None
  request,       \* registry: the request of the claim, or None
  answers,       \* registry: every answer it was given (the events)
  audit,         \* the audit under way
  results        \* the audits that came to a result

bitcoinVars == <<chain, reorgs, disturbed>>
operatorVars == <<committedAt, attestation, record>>
registryVars == <<request, answers>>
auditVars == <<audit, results>>
vars == <<claim, bitcoinVars, operatorVars, registryVars, auditVars>>

Evidence == [block : Block, verdict : {0, 100}]

AnyAnswer == [response : Response \cup {0, 100}, responseHash : Evidence \cup {None}]

Attestation == [verdict : {"PASS", "FAIL", "INDETERMINATE"}, root : Evidence \cup {None},
                length : HexLength \cup {64}, prefixed : BOOLEAN]

Request == [validator : {Us, Other}, answer : AnyAnswer]

\* What is absent is nothing that could be there.
ASSUME NoneAssumption == None \notin Attestation /\ None \notin Request

Answer(resp, rh) == [response |-> resp, responseHash |-> rh]

Idle == [at |-> "idle"]

Published == IF attestation = None THEN {} ELSE {attestation.root}

Mined == claim.height <= Len(chain)

Init ==
  /\ claim \in Claim
  /\ chain = <<>> /\ reorgs = 0 /\ disturbed = FALSE
  /\ committedAt = None /\ attestation = None /\ record = None
  /\ request = None /\ answers = {}
  /\ audit = Idle /\ results = {}

--------------------------------------------------------------------------------
(* The two resolution functions.                                            *)

ParityVerdict(b) == IF b.hash % 2 = 0 THEN 100 ELSE 0

\* Mutant: a block with just the threshold is enough.
TxCountVerdict_atLeast(n) == IF n >= claim.threshold THEN 100 ELSE 0

TxCountVerdict(n) == IF n > claim.threshold THEN 100 ELSE 0

\* The outcome by the words of the claim's predicate, which the engine resolves.
Outcome(b) ==
  CASE claim.rule = "parity" -> IF \E k \in 0 .. b.hash : b.hash = 2 * k THEN 100 ELSE 0
    [] claim.rule = "txcount" -> IF b.txCount <= claim.threshold THEN 0 ELSE 100

--------------------------------------------------------------------------------
(* Bitcoin.                                                                 *)

Mine(b) ==
  /\ Len(chain) < MaxHeight
  /\ chain' = Append(chain, b)
  /\ UNCHANGED <<claim, reorgs, disturbed, operatorVars, registryVars, auditVars>>

Reorg(b) ==
  /\ chain # <<>> /\ reorgs < MaxReorgs
  /\ chain' = [chain EXCEPT ![Len(chain)] = b]
  /\ reorgs' = reorgs + 1
  /\ disturbed' = (disturbed \/ Len(chain) = claim.height)
  /\ UNCHANGED <<claim, operatorVars, registryVars, auditVars>>

--------------------------------------------------------------------------------
(* The engine and the adapter.                                              *)

\* Nothing is asked of Bitcoin: the time of the commitment is an argument.
Commit ==
  /\ committedAt = None
  /\ claim.asset = Asset
  /\ committedAt' = Len(chain)
  /\ UNCHANGED <<claim, bitcoinVars, attestation, record, registryVars, auditVars>>

\* A void attestation may be followed by another one.
Unresolved ==
  /\ committedAt # None /\ record = None
  /\ IF attestation = None THEN TRUE ELSE attestation.verdict = "INDETERMINATE"

Attest(verdict, root, length, prefixed) ==
  /\ attestation' = [verdict |-> verdict, root |-> root, length |-> length, prefixed |-> prefixed]
  /\ UNCHANGED <<claim, bitcoinVars, committedAt, record, registryVars, auditVars>>

ResolveVoid == Unresolved /\ Attest("INDETERMINATE", None, 64, FALSE)

Resolve(length, prefixed) ==
  /\ Unresolved
  /\ Mined
  /\ LET b == chain[claim.height] IN
       Attest(IF Outcome(b) = 100 THEN "PASS" ELSE "FAIL",
              [block |-> b, verdict |-> Outcome(b)], length, prefixed)

Score == [v \in {"PASS", "FAIL"} |-> IF v = "PASS" THEN 100 ELSE 0]

\* Mutant: what is not a PASS scores 0.
IsScored_any(verdict) == TRUE

IsScored(verdict) == verdict \in DOMAIN Score

ScoreOf(verdict) == IF verdict = "PASS" THEN Score["PASS"] ELSE Score["FAIL"]

\* _b32 raises on what is not 64 digits, with or without "0x" before them.
B32Raises(length, prefixed) == (IF prefixed THEN length - 2 ELSE length) # 64

\* A void attestation is mapped to no record.
ToErc8004Validation ==
  /\ attestation # None /\ record = None
  /\ IsScored(attestation.verdict)
  /\ ~B32Raises(attestation.length, attestation.prefixed)
  /\ record' = Answer(ScoreOf(attestation.verdict), attestation.root)
  /\ UNCHANGED <<claim, bitcoinVars, committedAt, attestation, registryVars, auditVars>>

--------------------------------------------------------------------------------
(* The registry.                                                            *)

ValidationRequest(v) ==
  /\ committedAt # None
  /\ request = None
  /\ request' = [validator |-> v, answer |-> Answer(0, None)]
  /\ UNCHANGED <<claim, bitcoinVars, operatorVars, answers, auditVars>>

Give(answer) ==
  /\ request' = [request EXCEPT !.answer = answer]
  /\ answers' = answers \cup {answer}
  /\ UNCHANGED <<claim, bitcoinVars, operatorVars, auditVars>>

ValidationResponse ==
  request # None /\ request.validator = Us /\ record # None /\ Give(record)

\* Another validator knows the published evidence, or makes up a hash.
OtherResponse(resp, rh) ==
  request # None /\ request.validator = Other /\ Give(Answer(resp, rh))

--------------------------------------------------------------------------------
(* An audit.  Any request that fails ends it without a result.              *)

\* The script names published evidence; getValidationStatus reverts when there is no
\* request.
ReadStatus ==
  /\ audit.at = "idle"
  /\ Cardinality(results) < MaxResults
  /\ request # None
  /\ Published \notin {{}, {None}}
  /\ audit' = [at |-> "status", answer |-> request.answer]
  /\ UNCHANGED <<claim, bitcoinVars, operatorVars, registryVars, results>>

ReadHash ==
  /\ audit.at = "status"
  /\ Mined
  /\ audit' = [at |-> claim.rule, answer |-> audit.answer, block |-> chain[claim.height]]
  /\ UNCHANGED <<claim, bitcoinVars, operatorVars, registryVars, results>>

\* Mutant: the hash of the evidence is not compared.
EvidenceOK_any(answer) == TRUE

EvidenceOK(answer) == answer.responseHash = attestation.root

\* Mutant: the answer is not compared with the replayed verdict.
Replays_any(answer, reproduced) == TRUE

Replays(answer, reproduced) == answer.response = reproduced

Conclude(reproduced) ==
  /\ results' = results \cup
       {[answer |-> audit.answer, block |-> audit.block,
         passed |-> EvidenceOK(audit.answer) /\ Replays(audit.answer, reproduced)]}
  /\ audit' = Idle
  /\ UNCHANGED <<claim, bitcoinVars, operatorVars, registryVars>>

\* live-demo
ConcludeParity == audit.at = "parity" /\ Conclude(ParityVerdict(audit.block))

\* live-demo-2 asks for the block by its hash, and gets it even if it was replaced.
ConcludeTxCount == audit.at = "txcount" /\ Conclude(TxCountVerdict(audit.block.txCount))

\* An explorer or a node does not answer.
Abort ==
  /\ audit # Idle
  /\ audit' = Idle
  /\ UNCHANGED <<claim, bitcoinVars, operatorVars, registryVars, results>>

Next ==
  \/ \E b \in Block : Mine(b) \/ Reorg(b)
  \/ Commit
  \/ ResolveVoid
  \/ \E length \in HexLength, prefixed \in BOOLEAN : Resolve(length, prefixed)
  \/ ToErc8004Validation
  \/ \E v \in {Us, Other} : ValidationRequest(v)
  \/ ValidationResponse
  \/ \E resp \in Response, rh \in Published \cup {None} : OtherResponse(resp, rh)
  \/ ReadStatus \/ ReadHash \/ ConcludeParity \/ ConcludeTxCount \/ Abort

Spec == Init /\ [][Next]_vars

--------------------------------------------------------------------------------
(* Properties.                                                              *)

\* Every variable has its type; in particular a record answers 0 or 100 with the
\* hash of evidence, and never the void.
TypeOK ==
  /\ claim \in Claim /\ chain \in Seq(Block) /\ disturbed \in BOOLEAN
  /\ reorgs \in 0 .. MaxReorgs /\ committedAt \in 0 .. MaxHeight \cup {None}
  /\ attestation \in Attestation \cup {None}
  /\ record = None \/ record \in [response : {0, 100}, responseHash : Evidence]
  /\ request \in Request \cup {None}
  /\ answers \subseteq AnyAnswer
  /\ audit = Idle \/ audit.answer \in AnyAnswer
  /\ results \subseteq [answer : AnyAnswer, block : Block, passed : BOOLEAN]

Passes == {x \in results : x.passed}

\* A request nobody has answered shows the answer 0, which is also the verdict FAIL:
\* an audit passes only on an answer that the registry was given, also when the
\* claim is false.
PassMeansAnswered == \A x \in Passes : x.answer \in answers

\* Whoever the request names and however often that validator changes its mind, two
\* audits that pass agree on the verdict, unless Bitcoin replaced the claim's block.
PassesAgree ==
  \A x, y \in Passes : disturbed \/ x.answer.response = y.answer.response

\* What the adapter emits stands every audit, whatever happens in between, as long as
\* the block it was resolved with is the block of that height.
HonestAnswerPasses ==
  \A x \in results :
    record # None /\ x.answer = record /\ x.block = record.responseHash.block => x.passed

\* Our validator answers with the outcome of a block that was mined: a claim that is
\* still open is never recorded as false.
AnswersFollowOutcome ==
  request # None /\ request.validator = Us =>
    \A answer \in answers :
      /\ Mined
      /\ answer.responseHash \in Evidence
      /\ answer.response = Outcome(answer.responseHash.block)

\* live-demo/verify.py:7: the claim "was pre-committed BEFORE the outcome existed".
PassMeansPrecommitted == Passes # {} => committedAt < claim.height

================================================================================
