-------------------------- MODULE ResolutionValidator --------------------------
(****************************************************************************)
(* The contract MarkovianResolutionValidator together with the two          *)
(* contracts it calls: the verifier (verify, verifyFull) and the ERC-8004   *)
(* ValidationRegistry, which is external.                                   *)
(*                                                                          *)
(* An action is one successful transaction, executed atomically.  A call    *)
(* that reverts changes nothing and is a stuttering step.  Nobody is        *)
(* privileged: every action is open to every caller with every argument,    *)
(* as in the code.                                                          *)
(*                                                                          *)
(* keccak256 is taken to be collision free, so a hash is modelled by what   *)
(* was hashed: the head of an agent is the sequence of the entry hashes     *)
(* folded into it, bytes32(0) is the empty sequence, and the hash of an     *)
(* entry is the record of the fields encoded in it (its prevEntry is the    *)
(* sequence it is appended to).                                             *)
(****************************************************************************)
EXTENDS Naturals, SequencesExt

CONSTANTS
  AgentId, RequestHash, ResponseHash,
  InputCommit,     \* commitments a caller may pass, ZeroCommit among them
  ZeroCommit,      \* bytes32(0)
  Response,        \* the uint8 verdicts a caller may pass
  Proof,           \* proofs a caller may pass
  Accepts,         \* the pairs <<proof, context>> on which verify is true
  Genuine,         \* the contexts whose computation is as claimed
  ImplB,           \* whether the deployed verifier implements verifyFull
  BitcoinRef,      \* non-zero Bitcoin commitment references
  Validator,       \* addresses a registry request may name
  This,            \* the address of the contract
  MaxEntries,      \* bound on the entries of one agent
  None             \* absent: no request, no registry request, no answer

VARIABLES
  requests,         \* contract: requestHash => request, or None
  history,          \* contract: requestHash => entries
  head,             \* contract: agentId => log head
  headAnchoredTo,   \* contract: head => Bitcoin reference
  registryRequest,  \* registry: requestHash => [agentId, validator], or None
  registryStatus,   \* registry: requestHash => latest answer, or None
  calldata          \* chain: the proof each entry of history was written with

contractVars == <<requests, history, head, headAnchoredTo>>
vars == <<requests, history, head, headAnchoredTo,
          registryRequest, registryStatus, calldata>>

Context == [requestHash : RequestHash, inputCommit : InputCommit,
            response : Response, responseHash : ResponseHash]

ASSUME AcceptsAssumption == Accepts \subseteq Proof \X Context
ASSUME GenuineAssumption == Genuine \subseteq Context
ASSUME ThisAssumption == This \in Validator
ASSUME ImplBAssumption == ImplB \in BOOLEAN
ASSUME MaxEntriesAssumption == MaxEntries \in Nat
ASSUME NoneAssumption ==
  /\ None \notin [agentId : AgentId, inputCommit : InputCommit]
  /\ None \notin [agentId : AgentId, validator : Validator]
  /\ None \notin [response : Response, responseHash : ResponseHash]
  /\ None \notin AgentId

--------------------------------------------------------------------------------
(* Hashes and the verifier.                                                 *)

ContextOf(r, ic, resp, rh) ==
  [requestHash |-> r, inputCommit |-> ic, response |-> resp, responseHash |-> rh]

\* Mutant: an entry hash that leaves the request out.
EntryHash_noRequest(r, i, resp, rh, ic) ==
  [requestHash |-> None, index |-> i, response |-> resp, responseHash |-> rh,
   inputCommit |-> ic]

EntryHash(r, i, resp, rh, ic) ==
  [requestHash |-> r, index |-> i, response |-> resp, responseHash |-> rh,
   inputCommit |-> ic]

\* Mutant: a head that restarts from the newest entry.
ChainHead_restart(prev, entryHash) == <<entryHash>>

ChainHead(prev, entryHash) == Append(prev, entryHash)

\* Mutant: a context that leaves the input commitment out.
Verify_anyCommit(r, ic, resp, rh, p) ==
  \E other \in InputCommit : <<p, ContextOf(r, other, resp, rh)>> \in Accepts

Verify(r, ic, resp, rh, p) == <<p, ContextOf(r, ic, resp, rh)>> \in Accepts

\* Some snarkProof passes.  Without Impl B, verifyFull reverts on every proof.
VerifyFull(r, ic, resp, rh) == ImplB /\ ContextOf(r, ic, resp, rh) \in Genuine

--------------------------------------------------------------------------------
(* The registry: only the validator a request names may answer it.          *)

RegistryAccepts(r, caller) ==
  registryRequest[r] # None /\ registryRequest[r].validator = caller

Init ==
  /\ requests = [r \in RequestHash |-> None]
  /\ history = [r \in RequestHash |-> <<>>]
  /\ head = [a \in AgentId |-> <<>>]
  /\ headAnchoredTo = <<>>
  /\ registryRequest = [r \in RequestHash |-> None]
  /\ registryStatus = [r \in RequestHash |-> None]
  /\ calldata = [r \in RequestHash |-> <<>>]

ValidationRequest(a, r, v) ==
  /\ registryRequest[r] = None
  /\ registryRequest' = [registryRequest EXCEPT ![r] = [agentId |-> a, validator |-> v]]
  /\ UNCHANGED <<contractVars, registryStatus, calldata>>

\* Another validator answers a request that names it.
OtherResponse(r, v, resp, rh) ==
  /\ v # This
  /\ RegistryAccepts(r, v)
  /\ registryStatus' = [registryStatus EXCEPT ![r] = [response |-> resp, responseHash |-> rh]]
  /\ UNCHANGED <<contractVars, registryRequest, calldata>>

--------------------------------------------------------------------------------
(* The contract.                                                            *)

\* Mutant: the RequestExists check is missing.
IsFresh_always(r) == TRUE

IsFresh(r) == requests[r] = None

\* Mutant: the PreCommitMissing check is missing.
IsBound_always(ic) == TRUE

IsBound(ic) == ic # ZeroCommit

CommitRequest(a, r, ic) ==
  /\ IsFresh(r)
  /\ IsBound(ic)
  /\ requests' = [requests EXCEPT ![r] = [agentId |-> a, inputCommit |-> ic]]
  /\ UNCHANGED <<history, head, headAnchoredTo, registryRequest, registryStatus, calldata>>

\* Mutant: a refusal of the registry does not undo what was written before.
RecordResolution_swallow(r, resp, rh, p) ==
  /\ requests[r] # None
  /\ LET a == requests[r].agentId
         ic == requests[r].inputCommit
     IN /\ Verify(r, ic, resp, rh, p)
        /\ Len(head[a]) < MaxEntries
        /\ history' = [history EXCEPT ![r] = Append(@,
             [response |-> resp, responseHash |-> rh, inputCommit |-> ic,
              prevEntry |-> head[a], challenged |-> FALSE])]
        /\ head' = [head EXCEPT ![a] =
             ChainHead(@, EntryHash(r, Len(history[r]), resp, rh, ic))]
  /\ registryStatus' = IF RegistryAccepts(r, This)
       THEN [registryStatus EXCEPT ![r] = [response |-> resp, responseHash |-> rh]]
       ELSE registryStatus
  /\ calldata' = [calldata EXCEPT ![r] = Append(@, p)]
  /\ UNCHANGED <<requests, headAnchoredTo, registryRequest>>

RecordResolution(r, resp, rh, p) ==
  /\ requests[r] # None
  /\ LET a    == requests[r].agentId
         ic   == requests[r].inputCommit
         prev == head[a]
         idx  == Len(history[r])
     IN /\ Verify(r, ic, resp, rh, p)
        /\ RegistryAccepts(r, This)
        /\ Len(prev) < MaxEntries
        /\ history' = [history EXCEPT ![r] = Append(@,
             [response |-> resp, responseHash |-> rh, inputCommit |-> ic,
              prevEntry |-> prev, challenged |-> FALSE])]
        /\ head' = [head EXCEPT ![a] = ChainHead(prev, EntryHash(r, idx, resp, rh, ic))]
  /\ registryStatus' = [registryStatus EXCEPT ![r] = [response |-> resp, responseHash |-> rh]]
  /\ calldata' = [calldata EXCEPT ![r] = Append(@, p)]
  /\ UNCHANGED <<requests, headAnchoredTo, registryRequest>>

\* Mutant: the last reference wins.
IsUnanchored_always(h) == TRUE

IsUnanchored(h) == h \notin DOMAIN headAnchoredTo

\* Mutant: the head before the latest entry is frozen, the entry's prevEntry.
HeadToFreeze_previous(a) == IF head[a] = <<>> THEN <<>> ELSE Front(head[a])

HeadToFreeze(a) == head[a]

\* A reference of bytes32(0) changes nothing, and is left to stuttering.
AnchorHead(a, ref) ==
  LET h == HeadToFreeze(a) IN
  /\ IsUnanchored(h)
  /\ headAnchoredTo' = [k \in DOMAIN headAnchoredTo \cup {h} |->
                          IF k = h THEN ref ELSE headAnchoredTo[k]]
  /\ UNCHANGED <<requests, history, head, registryRequest, registryStatus, calldata>>

Challenge(r, i) ==
  /\ i \in DOMAIN history[r]
  /\ history' = [history EXCEPT ![r][i].challenged = TRUE]
  /\ UNCHANGED <<requests, head, headAnchoredTo, registryRequest, registryStatus, calldata>>

\* Mutant: the challenge of an entry that is no longer the latest cannot be settled.
ResolveChallenge_latest(r, i) ==
  /\ i = Len(history[r]) /\ i > 0
  /\ history[r][i].challenged
  /\ VerifyFull(r, requests[r].inputCommit, history[r][i].response, history[r][i].responseHash)
  /\ history' = [history EXCEPT ![r][i].challenged = FALSE]
  /\ UNCHANGED <<requests, head, headAnchoredTo, registryRequest, registryStatus, calldata>>

\* Mutant: the verifier is asked about the latest verdict instead of the challenged one.
ResolveChallenge_ofLatest(r, i) ==
  /\ i \in DOMAIN history[r]
  /\ LET e == Last(history[r]) IN
       /\ history[r][i].challenged
       /\ VerifyFull(r, requests[r].inputCommit, e.response, e.responseHash)
  /\ history' = [history EXCEPT ![r][i].challenged = FALSE]
  /\ UNCHANGED <<requests, head, headAnchoredTo, registryRequest, registryStatus, calldata>>

ResolveChallenge(r, i) ==
  /\ i \in DOMAIN history[r]
  /\ LET e == history[r][i] IN
       /\ e.challenged
       /\ VerifyFull(r, requests[r].inputCommit, e.response, e.responseHash)
  /\ history' = [history EXCEPT ![r][i].challenged = FALSE]
  /\ UNCHANGED <<requests, head, headAnchoredTo, registryRequest, registryStatus, calldata>>

Next ==
  \/ \E a \in AgentId, r \in RequestHash, v \in Validator : ValidationRequest(a, r, v)
  \/ \E r \in RequestHash, v \in Validator, resp \in Response, rh \in ResponseHash :
       OtherResponse(r, v, resp, rh)
  \/ \E a \in AgentId, r \in RequestHash, ic \in InputCommit : CommitRequest(a, r, ic)
  \/ \E r \in RequestHash, resp \in Response, rh \in ResponseHash, p \in Proof :
       RecordResolution(r, resp, rh, p)
  \/ \E a \in AgentId, ref \in BitcoinRef : AnchorHead(a, ref)
  \/ \E r \in RequestHash : \E i \in 1 .. Len(history[r]) : Challenge(r, i)
  \/ \E r \in RequestHash : \E i \in 1 .. Len(history[r]) : ResolveChallenge(r, i)

Spec == Init /\ [][Next]_vars

\* The registry and the callers owe the contract nothing.  A challenged entry
\* whose computation is genuine has a proof that anyone can produce by replay;
\* somebody is assumed to submit it in the end.
Fairness ==
  \A r \in RequestHash : \A i \in 1 .. MaxEntries : WF_vars(ResolveChallenge(r, i))

FairSpec == Spec /\ Fairness

--------------------------------------------------------------------------------
(* Types.                                                                   *)

Commitment == InputCommit \ {ZeroCommit}
RequestRecord == [agentId : AgentId, inputCommit : Commitment]
RegistryRecord == [agentId : AgentId, validator : Validator]
Answer == [response : Response, responseHash : ResponseHash]
HeadLink == [requestHash : RequestHash, index : Nat, response : Response,
             responseHash : ResponseHash, inputCommit : Commitment]
HeadHash == Seq(HeadLink)
Entry == [response : Response, responseHash : ResponseHash,
          inputCommit : Commitment, prevEntry : HeadHash, challenged : BOOLEAN]

\* Every field holds a value of its kind; in particular every request is bound
\* to a non-zero input commitment (PreCommitMissing).
TypeOK ==
  /\ requests \in [RequestHash -> RequestRecord \cup {None}]
  /\ history \in [RequestHash -> Seq(Entry)]
  /\ head \in [AgentId -> HeadHash]
  /\ headAnchoredTo = [h \in DOMAIN headAnchoredTo |-> headAnchoredTo[h]]
  /\ \A h \in DOMAIN headAnchoredTo : h \in HeadHash /\ headAnchoredTo[h] \in BitcoinRef
  /\ registryRequest \in [RequestHash -> RegistryRecord \cup {None}]
  /\ registryStatus \in [RequestHash -> Answer \cup {None}]
  /\ calldata \in [RequestHash -> Seq(Proof)]

--------------------------------------------------------------------------------
(* Safety.                                                                  *)

\* The hash of the entry e in place i of the history of r.
HashOf(r, i, e) == EntryHash(r, i - 1, e.response, e.responseHash, e.inputCommit)

\* Every entry of every request is in the chain of the request's agent: the
\* head that recordResolution computed for it, from its prevEntry and its own
\* fields, is an ancestor of the agent's head for ever after.
EntriesChained ==
  \A r \in RequestHash : \A i \in 1 .. Len(history[r]) :
    /\ requests[r] # None
    /\ LET e == history[r][i] IN
         IsPrefix(Append(e.prevEntry, HashOf(r, i, e)), head[requests[r].agentId])

\* Conversely a head commits to nothing but recorded entries: each link of an
\* agent's chain is the hash of an entry, in its place, of a request of that very
\* agent, and that entry points back at the link before.
HeadCommitsToHistory ==
  \A a \in AgentId : \A n \in 1 .. Len(head[a]) :
    \E r \in RequestHash : \E i \in 1 .. Len(history[r]) :
      /\ requests[r] # None
      /\ requests[r].agentId = a
      /\ head[a][n] = HashOf(r, i, history[r][i])
      /\ history[r][i].prevEntry = SubSeq(head[a], 1, n - 1)

\* The answer ERC-8004 consumers read from the registry, for a request that
\* names the contract, is the latest entry of its history: neither is written
\* without the other, and a request with entries names the contract.
RegistryMirrorsLatest ==
  \A r \in RequestHash :
    IF RegistryAccepts(r, This) /\ history[r] # <<>>
    THEN registryStatus[r] = [response |-> Last(history[r]).response,
                              responseHash |-> Last(history[r]).responseHash]
    ELSE /\ history[r] = <<>>
         /\ registryRequest[r] = None \/ registryRequest[r].validator = This
              => registryStatus[r] = None

\* An auditor who comes later can verify every verdict again from the chain: the
\* proof each entry was written with still verifies against the commitment that
\* the request holds now.
AuditReverifies ==
  \A r \in RequestHash :
    /\ Len(calldata[r]) = Len(history[r])
    /\ \A i \in 1 .. Len(history[r]) :
         LET e == history[r][i] IN
         /\ e.inputCommit = requests[r].inputCommit
         /\ <<calldata[r][i],
              ContextOf(r, requests[r].inputCommit, e.response, e.responseHash)>> \in Accepts

\* An anchored head is evidence about exactly one agent: it is an ancestor of
\* that agent's head, whatever was recorded since, and of no other's.  (The zero
\* head of an agent with no entries can be anchored too, and says nothing.)
AnchorsIdentifyLogs ==
  \A h \in DOMAIN headAnchoredTo : h # <<>> =>
    /\ \E a \in AgentId : IsPrefix(h, head[a])
    /\ \A a, b \in AgentId : IsPrefix(h, head[a]) /\ IsPrefix(h, head[b]) => a = b

\* What an entry says, without the flag that a challenge may move.
VerdictOf(e) ==
  [response |-> e.response, responseHash |-> e.responseHash,
   inputCommit |-> e.inputCommit, prevEntry |-> e.prevEntry]

\* No step rewrites anything that was written: a request keeps its agent and its
\* commitment, a history and a head only grow, a challenge or its settlement
\* leaves the verdict alone, and the first reference of an anchored head stays.
NothingIsRewritten ==
  /\ \A r \in RequestHash : requests[r] # None => requests'[r] = requests[r]
  /\ \A r \in RequestHash :
       /\ Len(history[r]) <= Len(history'[r])
       /\ \A i \in 1 .. Len(history[r]) :
            VerdictOf(history'[r][i]) = VerdictOf(history[r][i])
  /\ \A a \in AgentId : IsPrefix(head[a], head'[a])
  /\ \A h \in DOMAIN headAnchoredTo :
       /\ h \in DOMAIN headAnchoredTo'
       /\ headAnchoredTo'[h] = headAnchoredTo[h]

AppendOnly == [][NothingIsRewritten]_vars

\* A challenge is closed by recomputation and by nothing else: while the computation
\* behind the challenged verdict is not genuine, no call of anyone lowers the flag,
\* whatever is recorded, challenged or proved for other entries.
ClosesByRecomputation ==
  \A r \in RequestHash : \A i \in 1 .. Len(history[r]) :
    LET e == history[r][i] IN
    e.challenged /\ ~history'[r][i].challenged
      => ContextOf(r, e.inputCommit, e.response, e.responseHash) \in Genuine

OpenUntilRecomputed == [][ClosesByRecomputation]_vars

\* A challenge of a genuine verdict is settled by recomputation, and cannot be
\* kept open by repeating it.
GenuineChallengeSettles ==
  \A r \in RequestHash : \A i \in 1 .. MaxEntries :
    ( /\ i \in DOMAIN history[r]
      /\ history[r][i].challenged
      /\ VerifyFull(r, history[r][i].inputCommit, history[r][i].response,
                    history[r][i].responseHash) )
    ~> (i \in DOMAIN history[r] /\ ~history[r][i].challenged)

--------------------------------------------------------------------------------
(* The contract implements the ledger its consumers rely on.                *)

Ledger == INSTANCE VerdictLedger WITH
  Agent   <- AgentId,
  Request <- RequestHash,
  Verdict <- Answer,
  Ref     <- BitcoinRef,
  owner   <- [r \in RequestHash |-> IF requests[r] = None THEN None ELSE requests[r].agentId],
  log     <- [a \in AgentId |-> [n \in 1 .. Len(head[a]) |->
                [request |-> head[a][n].requestHash,
                 verdict |-> [response |-> head[a][n].response,
                              responseHash |-> head[a][n].responseHash]]]],
  current <- [r \in RequestHash |->
                IF RegistryAccepts(r, This) THEN registryStatus[r] ELSE None],
  frozen  <- [a \in AgentId |->
                [n \in {m \in 1 .. Len(head[a]) :
                          SubSeq(head[a], 1, m) \in DOMAIN headAnchoredTo} |->
                   headAnchoredTo[SubSeq(head[a], 1, n)]]]

\* Whatever the callers, the registry and the challengers do, a consumer sees a
\* step of the abstract ledger or nothing at all.
ImplementsLedger == Ledger!Spec

--------------------------------------------------------------------------------
(* What the documents say and the code does not do.                         *)

\* The contract's own notice: "Verdicts may move, but only by a new valid proof".
\* The verdict in force moves only with a proof that was not spent before.
MovesByNewProof ==
  [][\A r \in RequestHash :
       RegistryAccepts(r, This) /\ registryStatus'[r] # registryStatus[r]
         => Last(calldata'[r]) \notin ToSet(calldata[r])]_vars

================================================================================
