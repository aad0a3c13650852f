# A verification development for the ERC-8004 resolution validator

TLA+ models of `erc8004-resolution-validator`, model-checked with TLC, and proved with TLAPS but
for what must eventually happen. The models are translated from the code; paths below are relative to the root of
the repository (`src/` here).

## 1. The system

A *verdict* about an agent's claim (100 = true, 0 = false) is published on Ethereum only with
a proof, is chained into an append-only log per agent, and the heads of the logs are frozen to
Bitcoin. What a claim asserts is checked by replaying an integer function that three languages
must compute alike.

| Part | Source | State | Operations | Interacts with |
|---|---|---|---|---|
| Validator contract | `contracts/MarkovianResolutionValidator.sol` | requests, histories, log heads, anchored heads | `commitRequest`, `recordResolution`, `anchorHead`, `challenge`, `resolveChallenge`, views | calls the verifier and the registry inside a transaction |
| Verifier | `contracts/SchnorrPedersenVerifier.sol`, `IMarkovianVerifier.sol` | none (H is fixed) | `verify`, `verifyFull` (reverts) | called by the contract |
| ValidationRegistry | external (ERC-8004) | requests, latest answers | `validationRequest`, `validationResponse` | called by agent owners and validators |
| Work function | `verifier/workfn_v2.py`, `goverify/workv2.go`, `contracts/MarkovianWorkV2.sol` | registers of one evaluation | gates, derivation, iteration, verdict | a shared vector file; intended behind `verifyFull` |
| v1 conformance | `verifier/verify_vectors.py`, `goverify/main.go` | none | gates, group equation | a shared vector file |
| Prover | `live-demo-v2/markov_crypto.py` | none | `derive_H`, `prove`, `verify_equation` | driver, auditor |
| Driver | `live-demo-v2/deploy_and_run.py` | nonce, saved state file | deploy, request, commit, record, tampered record | RPC replicas, the contract |
| Auditor of `live-demo-v2` | `live-demo-v2/verify.py` | none | re-verification of a saved run | RPC, saved files |
| Auditors of the first demonstrations | `live-demo/verify.py`, `live-demo-2/verify.py` | none | read the registry and Bitcoin, replay the claim | registry, Bitcoin explorer, pinned files |
| Adapter | `adapter/erc8004_validation_adapter.py` | none | `to_erc8004_validation`, `resolve_agent_claim` | an engine that is not in the repository; the registry |

What is hard:

* **Interleaving.** Any caller may call anything in any order; the verdicts of all the requests
  of an agent share one head, and the contract and the registry are opened by separate calls.
* **Partial failure.** `recordResolution` writes history and head before the registry is called,
  and relies on the transaction to undo both.
* **Order and staleness.** Anchoring freezes whatever head there is, not the one that was committed
  to Bitcoin; replicas answer late; a proof remains valid after it has been superseded; an auditor
  reads the registry and Bitcoin one after the other, and Bitcoin may replace the block in between.
* **Absence.** An unanswered request shows the answer 0, which is also a verdict; a void attestation
  is no verdict; Go tells an absent field from a present one by its zero value.
* **Liveness.** Challenges can be repeated at will, and only recomputation closes one.
* **Arithmetic.** The EVM runs the work function unchecked; the languages must agree on every
  rounding, every gate and every optional field.

What makes each part correct: the contract — heads and histories commit to each other, nothing
is rewritten, the registry shows the latest entry, recorded proofs verify for ever, a genuine
challenge settles, a frozen reference is never younger than its head; the work function — no component exceeds the scale, nothing overflows,
every implementation gives the verdict of the definition, and malformed claims get none.

## 2. The modules

| Module | Models | EXTENDS |
|---|---|---|
| `VerdictLedger` | what a consumer may rely on: owners, per-agent logs, verdicts in force, frozen prefixes | |
| `ResolutionValidator` | the contract, the registry and the verifier's answers | |
| `MCResolutionValidator` | small instances of it | `ResolutionValidator` |
| `ResolutionValidatorProofs` | theorems about `ResolutionValidator` | `ResolutionValidator`, `TLAPS` |
| `BitcoinAnchor` | the contract with the callers of `anchorHead` and with Bitcoin | `ResolutionValidator` |
| `MCBitcoinAnchor` | small instances of it | `MCResolutionValidator`, `BitcoinAnchor` |
| `WadArithmetic` | fixed-point arithmetic, and what a claim is refused for | |
| `WorkLoop` | the work function as plain iteration over exact integers: the specification | `WadArithmetic` |
| `WorkReplay` | the Python and Go evaluators, gate by gate | `WadArithmetic`, instance of `WorkLoop` |
| `WorkV2Contract` | the EVM implementation on wrapping words | `WadArithmetic`, instance of `WorkLoop` |
| `WorkLoopProofs`, `WorkReplayProofs`, `WorkV2ContractProofs` | theorems about the three | the module, `TLAPS` |
| `AltBn128` | the affine arithmetic of the curve, and the derivation of H | |
| `ResolutionVerifiers` | the v1 proof: the prover and the EVM, Go and Python verifiers | `AltBn128` |
| `ResolutionVerifiersProofs` | theorems about them, and the number theory they need | `ResolutionVerifiers`, `TLAPS` |
| `SerialCalls` | what the acceptance run takes for granted of its sender | |
| `TxSender` | the sender: nonces, attempts, receipts, over nodes that disagree | instance of `SerialCalls` |
| `TxSenderProofs` | theorems about `TxSender` | `TxSender` |
| `ReplayClaims` | the adapter and the first two auditors, over a registry and a Bitcoin chain that move | |
| `ReplayClaimsProofs` | theorems about it | `ReplayClaims`, `TLAPS` |
| `DemoRun` | the acceptance run and the audit, with lagging nodes and strangers | `ResolutionValidator` |
| `CompositionProofs` | theorems about what surrounds the contract | `BitcoinAnchor`, `DemoRun`, `ResolutionValidatorProofs` |
| `MCResolutionVerifiers`, `MCTxSender`, `MCDemoRun`, `MCReplayClaims` | instances for TLC | |
| `MCWorkClaims`, `MCWorkLoop`, `MCWorkReplay`, `MCWorkV2Contract` | claims and instances for TLC | |

### The contract (`ResolutionValidator`)

One action is one successful transaction, with all its calls; a revert is a stuttering step.
`requests`, `history`, `head`, `headAnchoredTo` are the four mappings of the contract (an absent
key is `None`, resp. not in the domain); `registryRequest` and `registryStatus` the registry's;
`calldata` remembers the proof that each entry was written with, which the chain keeps.
`CommitRequest`, `RecordResolution`, `AnchorHead`, `Challenge`, `ResolveChallenge` are the
functions of the same names; their guards are the code's reverts.

* keccak256 is taken to be collision free: the head is the sequence of what was folded into it,
  an entry hash the record of the fields that `abi.encode` packs (`prev` is the sequence it is
  appended to). Timestamps, URIs and events are left out. `Entry.failed` is never written by the
  code and is left out as well.
* `verify` is a relation `Accepts` between proofs and contexts; the proofs hold for every such
  relation. The instances use a proof per context, and one that verifies for every context: the
  proof over the identity commitment, whose equation does not contain the challenge.
* `verifyFull` reverts in the deployed verifier (`ImplB = FALSE`). `ValidatorAudit`
  considers the verifier the interface describes (`ImplB = TRUE`, true on genuine contexts).
* The registry is external. Modelled is what the contract relies on: a request is opened once
  and names a validator, and only that validator may answer, as often as it likes. Ownership
  of agents is not modelled: every caller may open every request.

### Bitcoin (`BitcoinAnchor`)

`anchorHead` takes an agent and a reference, and freezes the head that it finds. `CommitHead` is what its
caller has done before: read a head and commit it to Bitcoin, whose memory is `committed`. Anybody
may record between the two, pass the reference for another agent, or anchor with a reference that
commits to nothing. A reference is the id of a transaction, unknown before the transaction exists;
that is the only guard of `CommitHead`.

### The work function

A claim is a record of the fields of a vector, each of which may be missing. `Faults` are the gates that
refuse it, and `Answer` tells the two ways of refusing apart: a claim that lacks a field, or lists an input that is not the
derived one, is a broken file and gets an error; everything else is rejected. `WorkLoop` answers the first fault in the order
of the gates, its parameter `Order`, or admits the claim and iterates. `VerdictExact` says that the outcome is the one
the definition gives; it counts the whole units in a product where the loop divides, so that another rounding would not
go unnoticed on both sides.

`WorkReplay` has one action per gate, in the normative order of `evaluate`/`evaluateV2`; its variable `lang` says which of
the two verifiers runs, and `ImplementsLoop` instantiates
the iteration with the claim *as that language reads it* (`AsRead`): for Python as it is, so that a missing field ends in a
`KeyError` at the gate that needs it; for Go a missing number of iterations is 0, a missing list is empty, a version 0 and an
empty hash are absent, and beside a hash a listed input of another length than three is. These readings are Go's deviations from
the profile (section 3 lists them). They are written into the mapping and hence not found by the run; what it and the theorem
show is that there are no others. A hash of any number of
bytes is a hash, so that the gate on 32 bytes can refuse. `WorkV2Contract` has one action per
check of `verifyWork` after `deriveState`, keeps the six typed outcomes apart, and computes modulo
`Word` wherever the code is `unchecked`. Its `Order` is that of the conformance driver, which derives and compares the
input before `verifyWork` looks at the number of iterations and the matrix: a claim whose listed input is wrong and whose
matrix is too is a broken file there and a rejection off the chain. Both are shown to implement `WorkLoop!FairSpec` under a
refinement mapping (gates that pass are stuttering steps; a typed revert is a rejection).

Left out: the decoding of numerals and hex strings (a claim has integers, three limbs and
sequences of any length), the file loop, printing, gas. The EVM is considered on claims that
the ABI can encode and that miss no field but the hash (the conformance test takes a missing listed input
for a revert, and stops at other missing keys).

### The v1 proof (`AltBn128`, `ResolutionVerifiers`)

`AltBn128` is the arithmetic of `goverify/main.go`, function by function, with the field and the
order of the group as parameters, and `derive_H` over whatever the seed hashes to. Its multiplication takes the
scalar first, so that the recursion over the bits is a function of the scalar alone. A behaviour of
`ResolutionVerifiers` is the life of one submission: `Prove` or `Submit` makes it, `Ask` puts it to the
verifiers under a response, and `Evm`, `Go` and `Python` answer. The challenge is a random oracle: for each
response any value, fixed once it is drawn. The precompiles and py_ecc are external: the former
fail on what is not a reduced point and write the identity as (0, 0), the latter has no
coordinates for the identity and does not look at the curve, so off the curve its answer is
left open. `verify_equation` of the prover's module, which the auditor of `live-demo-v2` uses, is the Python
verifier without its gates (`Auditor`); it uses the same library, so off the curve its result is
the one the library gives to the Python verifier.
`Accepts` of `ResolutionValidator` is what `EvmVerify` computes.

### The sender and the acceptance run (`TxSender`, `DemoRun`)

`TxSender` has one action per way out of each statement of `_fire`: accepted, told to raise the price,
any other exception, the receipt, the time-out; and `Rerun`, for the program is started again
after an exception. A price is a number of increases. The nodes are external and as bad as they may
be: what one of them has taken can be mined or dropped at any time, also when the answer said
otherwise, and the count a run starts from may be stale. Transactions of two runs are taken to differ.
`SerialCalls` is the abstract specification: calls take effect in order and at most once, and one
call at most is in doubt.

`DemoRun` builds on it: a call of the run is one step, after which the run may be dead. It is
composed with the contract by sharing its variables: the run's transactions are actions of
`ResolutionValidator`, and so is everything that `Stranger` does. `past` keeps what
nodes that lag may still show; `rep` is what the run has read. The claim is about two neighbouring
blocks: `even` is the chain, `B0` the first block of the window whose parity differs from the next one's, or the
first of all when there is none. `Audit` is `verify.py`.

### The first demonstrations (`ReplayClaims`)

A behaviour is the life of one claim. `Commit`, `Resolve`, `ResolveVoid` and `ToErc8004Validation` are
`resolve_agent_claim` and the mapping it ends with: what is not `PASS` or `FAIL`, or has a hash that is not
64 hex digits, gives no record. The two scripts are not run by the repository's code after the adapter but
by anybody: the operator who sends the adapter's record to the registry is `ValidationResponse`. Registry,
Bitcoin and engine are external; the chain can lose its last block to a reorganisation at any time, and
the request may name another validator that answers what it likes with whatever evidence is published. An audit is four
steps of its own (`ReadStatus`, `ReadHash`, `ConcludeParity` or `ConcludeTxCount`, or `Abort`), between which all of
this may happen. The files that the scripts fetch are pinned to commits and are constant; a hash is what was
hashed.

## 3. The runs

| Run | Bounds | Shows |
|---|---|---|
| `ValidatorSafety` | 2 agents, 2 requests, 2 responses, up to 2 entries per agent, 1 commitment and the zero one, 1 reference | type invariant, `EntriesChained`, `HeadCommitsToHistory`, `RegistryMirrorsLatest`, `AnchorsIdentifyLogs`, and `ImplementsLedger`, the refinement of `VerdictLedger` |
| `ValidatorAudit` (`MCBitcoinAnchor`) | 1 agent, 2 requests, 2 entries, 2 commitments and the zero one, honest proofs, 2 references, `ImplB` | `AuditReverifies`, `AppendOnly`, `OpenUntilRecomputed`, `GenuineChallengeSettles`, and with Bitcoin `CommitmentsHold`, `ReferencesAreAncestral` |
| `WorkLoop` | scale 5, up to 3 iterations, limbs below 4 | bounds, drift, exact verdict or first fault, derivation, termination |
| `WorkReplay` | the same claims, for each of the two verifiers | conformance of the Python and the Go evaluator |
| `WorkV2Contract` | the same, words modulo 26 | conformance on the EVM, no overflow |
| `ResolutionVerifiers` | field of 19, group of order 13, 2 seeds, 48 witnesses, 294 submissions, 3 challenges, 2 responses tried of 3 | `VerdictIsEquation`, `BoundToVerdict`, `Complete`, `ImplementationsAgree`, `HIsCanonical` |
| `TxSender` | 2 runs of 2 calls (one must revert), 3 attempts, 2 prices | `ImplementsSerialCalls`, `OneCallInDoubt`, `DoneMeansExpected`, `RunEnds` |
| `DemoRun` | a window of 2 blocks on 3 chains, 2 calls of strangers, nodes one change behind, 2 agents | `SavedIsOnChain`, `ChecksHold`, `EntriesReadAreTrue`, `AuditMeansLatest` |
| `ReplayClaims` | 4 claims (one outside the engine's asset), 2 heights, 3 blocks, 1 reorganisation, 2 different results | `PassMeansAnswered`, `PassesAgree`, `HonestAnswerPasses`, `AnswersFollowOutcome` |

The exact constants are in the `.cfg` files. Two agents and two requests with two entries give
every sharing pattern of heads and requests: one agent with two requests, two agents with one
each, one request twice. Two response values let a verdict move. The second commitment of `ValidatorAudit` is
what a request could be committed to again: with one, the commitment that it holds could not differ from the one its
entries were written under, and neither `AuditReverifies` nor the requests of `AppendOnly` could fail; both do when
the `RequestExists` check is dropped. The proofs of this run are each for one context, since a proof for all contexts would verify against any commitment. `MaxEntries` bounds the entries
of an agent and is the only bound that is not in the code; the theorems of section 4 do not
depend on its value. With scale 5 the matrices include rows that floor nothing and rows that
lose nearly a unit in each product; all 27 matrices over three rows are taken with all 21 inputs. The malformed claims of `WorkLoop`, `WorkReplay` and
`WorkV2Contract` are fields out of order one at a time and 1,728 combinations of versions, numbers, matrices, hashes and listed
vectors that are right, malformed or missing, so that the order in which the gates are asked shows. The
word of 26 is the smallest that the assumption on its size admits (5·5 < 26), so an overflow
would show at once.

The points of `ResolutionVerifiers` are equal, opposite, unrelated, off the curve, not reduced and
(0, 0), so that every branch of the addition and of the decoders is taken; in a group of 13 the
identity, which honest proofs never meet in practice, comes up often. Two calls and two runs
of the sender give every overlap of a call left in doubt with the next run; three attempts instead
of the code's five differ only in how often one step is repeated. Two calls of strangers are
enough to take the claim first, to record before, between or after the run's verdicts, or to anchor and
challenge around them. The three chains of `DemoRun` have the change of parity at the end of the window, at
its beginning and nowhere. Two results are what `PassesAgree` compares, and a second reorganisation can only
do to another block what the first does; the blocks lie below, at and above the threshold.

Deadlock is not checked in these runs: a transaction that would pass the bound on entries is
disabled, and an evaluation ends.

*Fairness.* `ValidatorAudit` runs under `FairAnchorSpec`: it assumes weak fairness of `ResolveChallenge` per entry: a genuine
verdict has a proof that anyone can compute, and somebody submits it in the end. Nothing is
assumed of the contract's other callers or of the registry. Repeating `Challenge` does not
disable `ResolveChallenge`, so weak fairness suffices. The evaluators are sequential programs, and
weak fairness of their next step says that they run. So it is for the sender: its requests and its
wait for a receipt have time-outs, so that it always has a step to take; the nodes have no fairness.

*Runs that end in a violation* state what a document or a comment says and the code does not do:

| Run | Statement | What happens |
|---|---|---|
| `ValidatorNewProof` | `MarkovianResolutionValidator.sol:28` verdicts move only by a *new* proof | a superseded proof is accepted again |
| `VerifiersNeverCrash` | `CONTRACT_SPEC.md:122` a conformant verifier rejects and never crashes | Go stops the whole file at a point off the curve; the trace is that of C = R = (0, 0) (Python stops at an identity as well, which this trace does not show) |
| `ReplayPrecommitted` | `live-demo/verify.py:7-8`, `SPEC.md:28` what passes was committed before its outcome existed | no check of the audit involves a time |

More statements in the documents do not hold, with no run of their own:

* `CONTRACT_SPEC.md:127`: a response outside {0, 100} is rejected. Neither contract checks it.
* `CONTRACT_SPEC.md:39`: `commitRequest` opens the registry's request. It does not; it is opened by another
  call, and the agents of the two may differ.
* `CONTRACT_SPEC.md:54-55`: `anchorHead` takes the head. It takes none and freezes the one it finds; the
  frozen head is therefore not always the committed one, but never an older one (`ReferencesAreAncestral`).
* `CONTRACT_SPEC.md:75`: a challenge that fails marks the entry. It reverts instead, as the comment at
  `MarkovianResolutionValidator.sol:148` has it, and a challenge of a verdict that is not genuine stays open.
* `SchnorrPedersenVerifier.sol:31-32`: a proof for one verdict cannot be replayed onto another. One whose commitment is the
  identity, (0, 0) to the EVM, can: the challenge has no weight in its equation. `BoundToVerdict` excludes it, and the instances
  of the contract have such a proof.
* `SPEC_V2.md:32`: unknown versions are never coerced. Go reads version 0 as absent, in both profiles
  (`workv2.go:166`, `main.go:252`).
* `workv2.go:188`: an empty hash is read as absent, where `workfn_v2.py:76` rejects it as not 32 bytes.
* `workv2.go:204`: a listed input that disagrees with the derived one is no verdict. Go compares only if
  three components are listed.
* `workv2.go:48`: a missing `N` is 0 to Go, which evaluates the claim; `workfn_v2.py:116` ends with a `KeyError`. Nor does the latter reject, as
  `SPEC_V2.md:133-135` has it of every gate that fails.
* `SPEC_V2.md:131`, `workfn_v2.py:110`: the order of the gates is normative. The EVM's conformance driver compares the listed input before `verifyWork`
  asks about the number of iterations and the matrix (`test_workv2_evm.py:124-130`).
* `CONTRACT_SPEC.md:29`: `prevEntry` links to the previous entry for this request. It links to the head of
  the agent, as `HeadCommitsToHistory` states.
* `SPEC_V2.md:100`: an iteration drops up to 3 WAD-units of the sum. It floors nine quotients and can drop
  more (`DriftBounded` has less than three of each component).
* `deploy_and_run.py:181`: the inputs are bound before any outcome. The run compares the hashes of the
  blocks first (line 164).
* `deploy_and_run.py:175`: the claim names its `selection` of blocks by the tip when it was built, but does not contain
  that tip, so the choice cannot be repeated.

Remarks on the audits. When a reorganisation flips the verdict of a block, an audit can pass on evidence
that contradicts the answer, for the content of the evidence is not compared with the block, nor its
confirmations asked for; `PassesAgree` and `HonestAnswerPasses` say what holds in spite of it. A commitment to the
identity is a point to the EVM, and the audit with `py_ecc` stops at it (`Complete` excludes
it). The registry's named validator is printed and not compared. The adapter's command line writes `null` for
a void attestation, and pairs any agent with any attestation.

## 4. The proofs

All theorems hold for every value of the constants that meets the assumptions named `...Assumption` in the
modules; TLC evaluates these assumptions in every run.

**The contract** (`ResolutionValidatorProofs`), for all sets of agents, requests, commitments, verdicts, proofs and
references, every relation `Accepts` and every bound:

| Theorem | States |
|---|---|
| `TypeCorrect` | `TypeOK` |
| `EveryEntryChained`, `HeadsCommitToHistory` | `EntriesChained`, `HeadCommitsToHistory` |
| `AnchorsIdentify` | `AnchorsIdentifyLogs` |
| `RegistryMirrors` | `RegistryMirrorsLatest` |
| `AuditAlwaysReverifies` | `AuditReverifies` |
| `OnlyRecomputationCloses` | `OpenUntilRecomputed` |
| `NothingRewritten` | `AppendOnly` |
| `ContractIsLedger` | `ImplementsLedger`: the contract implements `VerdictLedger` |

The inductive invariant is built in layers, each needing the ones before: types; `ChainInv`, which takes the
two directions of the chain together (an entry of a history is a link of its agent's head, and a link of a head is an
entry of a history, so that neither alone says where the next one goes); `AnchorsAreAncestors`; and `LedgerInv`, which adds the registry.

`ContractIsLedger` maps the contract to the ledger by a named view: `Owner`, `Log` (each link of a head
with the verdict it is the hash of), `Current` and `Frozen` (by agent, the lengths of the beginnings that are anchored).
`RecordResolution` appends one line to one log and freezes nothing, because the new head is longer than all
that its agent had, and no head of another agent; `AnchorHead` freezes one length of one agent, because
non-zero heads of two agents are disjoint; challenges change nothing that the ledger shows.

**Bitcoin** (`CompositionProofs`): `BitcoinEvidenceHolds` (`CommitmentsHold`) and `ReferencesAreNeverYounger`
(`ReferencesAreAncestral`), from three facts: heads only grow, the heads of two agents have no non-zero
beginning in common, and a reference is not in use before its commitment exists.

**The acceptance run** (`CompositionProofs`), for every chain and window of blocks, any number of strangers' calls and
nodes that lag as far as they like:

| Theorem | States |
|---|---|
| `SavedStaysOnChain` | `SavedIsOnChain` |
| `UndisturbedChecksHold` | `ChecksHold` |
| `ReadEntriesAreTrue` | `EntriesReadAreTrue` |
| `AuditShowsLatest` | `AuditMeansLatest` |

`DemoInv` stands on the contract's invariant: a step of the run or of a stranger is a step of the contract, which
lets the log of the claim only grow (`LogGrows`). `Progress` says for each place in the run what the contract
holds by then, `PastIsTrue` that everything a lagging node may show was once so and that its entries are entries for
ever, and `SeenFirst` and `SeenSecond` what the run has read by each place, as long as the agent's head has no link but the run's
own. The last two are needed because a check compares what was read at different times: the head seen after
the first verdict is compared with the entry of the second.

**The work function.** `WorkLoopProofs` first has what floored arithmetic needs: bounds of a quotient, monotony of
products, and that a mean under weights of sum `Wad` does not exceed the largest component. From these
it proves `BoundsHold` (`ComponentsBounded`), `NeverGrows` (`MaxNeverGrows`), `DerivedInputs`
(`DerivedInputOK`) and `TypeCorrect`, and `WorkV2ContractProofs` proves `NeverOverflows` (`NoOverflow`) for every scale and every word
that holds what the overflow analysis asks for (`WordAssumption`). `ImplementsIteration`, in `WorkV2ContractProofs` and in
`WorkReplayProofs`, proves `Spec => Loop!Spec`: for every set of claims the EVM implementation, and the
Python and Go verifiers on the claim as they read it, refuse, iterate and decide step by step as the iteration over exact
integers does. Their invariants (`ContractInv`, `ReplayInv`) say of each place in the code which
checks have been passed there, and contain the types of their variables.

`VerdictsAreExact` holds for every order in which the gates are asked (`OrderAssumption`: each is asked, none is foreign) and
for claims that lack any of their fields (`AbsentAssumption`: what stands for a missing field is no number and no empty list). The quotient of
a product of components is the one number of units that fits it (`UnitsAreFloor`), so that the definition's step is the loop's.
The evaluators refuse at the first faulty gate because each gate passed has no fault: `FirstOf` and `FirstRefuses` keep account of the gates
passed at each place. `VerdictsAreExact` (`VerdictExact`) and `DriftIsBounded` (`DriftBounded`) compare the loop with a recursive function of the
number of iterations. `Iteration` unfolds such a function: it is defined by recursion, so that its value at
n + 1 is a step from that at n. The invariants are `VerdictInv` (in the loop the registers are the k-th power of the
definition) and `DriftInv`, which keeps both bounds of the drift without their strictness: what one iteration floors is
less than three, and what was lost before is averaged with weights of sum `Wad`. `VerdictsOfTheProfile`, in
`WorkV2ContractProofs` and in `WorkReplayProofs`, carries `VerdictExact` over the refinement: the verdict of each
implementation is the definition's.

**The v1 proof** (`ResolutionVerifiersProofs`), for every field, group, oracle, seed, prover and submission:

| Theorem | States |
|---|---|
| `VerdictsAreTheEquation` | `VerdictIsEquation` |
| `ProofsAreBound` | `BoundToVerdict` |
| `HonestProofsPass` | `Complete` |
| `VerifiersAgree` | `ImplementationsAgree` |
| `GeneratorIsCanonical` | `HIsCanonical` |

What is assumed of the curve is `FieldAssumption` (P is a prime above 3 with remainder 3 by 4, as the code's is)
and `GroupAssumption`: with the formulas of `addG1`, the points and the identity are a group of prime order N, generated
by G. That is the classical theorem about chords and tangents together with the known order of this
curve; it is not proved here, and TLC evaluates it for P = 19, N = 13. Nothing is
assumed of the hardness of logarithms: `ProofsAreBound` is about the weight of the challenge in the equation and holds for every prover
and every oracle. That the oracle gives different challenges for different verdicts is a property of the hash and no part of it.

The inductive invariant `SubmissionInv` says that whatever a verifier has answered is its function of the submission and of
the challenge drawn, which stay as they are, and that a submission with a witness is what the
prover makes of it. The rest is arithmetic, in this order: remainders by a prime and
cancellation; the recursive functions (`Mul`, `Multiple`, `Power`) unfolded; double-and-add multiplies the logarithm, also for scalars out of
range, since the multiples of G repeat after N; so both sides of the equation are multiples of G, equal exactly if their
exponents are congruent (`VerdictIsEquation`); a challenge that makes no difference has a commitment of
logarithm 0, which no point of the curve has (`BoundToVerdict`); the prover's answers make the exponents congruent (`Complete`). For H
the little theorem of Fermat is proved, by comparing the product of 1 .. P - 1 with that of its multiples by b, of
which they are a permutation: then the test of Euler accepts every x that a point lies over, the power
of (P + 1) / 4 is a root of what it accepts, and as P is odd one of the two roots is even. A point with y = 0 would be
its own opposite, which a group of odd order does not have; the order is odd because G, whose y is 2, has a double.

**The sender** (`TxSenderProofs`), for any number of runs, calls, attempts and prices, and nodes that take, drop, mine
and forget at will: `TypeCorrect`, `OneInDoubt` (`OneCallInDoubt`) and `CallsAreSerial` (`ImplementsSerialCalls`). The
invariant `SenderInv` is needed because each fact leans on another: nonces are mined in order (`Nonces`),
all transactions of one call of a run share a nonce, what is in flight is of the call after the confirmed ones (`Calls`), and once
the awaited transaction is mined nothing of its run is in flight (`Awaits`). That the awaited
transaction was not mined before, for an earlier attempt, follows from the prices: every
attempt costs more, so that it is a new transaction. A transaction that is mined then takes effect for a call that had none.

`DoneIsExpected` (`DoneMeansExpected`) adds `OwnCalls`: what is mined of the current run is of increasing calls, has every
confirmed one, and while the run lives each confirmed call has the status it should have.

**The first demonstrations** (`ReplayClaimsProofs`), for every claim, block, threshold, number of reorganisations and
of audits: `TypeCorrect`, `PassesAreAnswered` (`PassMeansAnswered`), `AuditsAgree` (`PassesAgree`), `HonestAnswersPass`
(`HonestAnswerPasses`) and `AnswersAreOutcomes` (`AnswersFollowOutcome`). `ClaimInv` follows the evidence from the engine to the
result of an audit: an attestation that is not void is of a block's outcome; the record is the attestation's; the registry
shows one of the answers it was given or the 0 of none; an audit under way holds what was there when it read; and a result
is of the block that is on the chain still, unless `disturbed`. `ReplayIsOutcome` says that the auditors'
functions are the engine's words (a remainder by two and evenness, not above and at most).

**Assumptions.** Apart from the curve, the constants are assumed to be of their kinds (a scale that is a positive integer,
finite bounds, sets of records with the fields that the code reads), and `None` to be nothing else. `WordAssumption` is
the code's own overflow analysis. None speaks of states or steps.

*Induction.* The provers have no induction over data. Facts about recursive functions and about lengths are proved with
`LeastNumber`: the set of numbers for which the fact fails has a least one, and it fails before that one as well.

*Only model-checked:* liveness (`GenuineChallengeSettles`, `Terminates`, `RunEnds`, and the fairness half of
`ImplementsLoop`), which the prover does not treat. Every other property of a passing run is the statement of a theorem, for
`ImplementsLoop` its safety part.

## 5. Not modelled, and what is left

* A proof that chords and tangents make a group (`GroupAssumption`), which is algebra about the curve and not about the code.
* A call that takes effect after the acceptance run died is an action of `TxSender`; in `DemoRun` the run may die
  with such a call, but not before it has taken effect.
* Ownership of agents in the registry (except that the acceptance run owns its own), and answers to
  a request by a contract that shares it. The registry is not in the repository.
* The hazard that the acceptance run commits its inputs after the outcome is known (`deploy_and_run.py:196`): the
  model has the order of the code, in which the statement is plainly false, and no property of its own.
* Not planned: file formats, JSON canonicalisation and decoding of numerals; amounts of gas; connecting, keys and compilation;
  the resolution engine behind the adapter, which is not in the repository; the unit tests and
  vectors, which are data about the code rather than part of it.
