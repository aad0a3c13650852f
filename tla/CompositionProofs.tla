--------------------------- MODULE CompositionProofs ---------------------------
(****************************************************************************)
(* What holds of the contract together with what stands around it, for any  *)
(* number of agents, requests, verdicts and callers: Bitcoin, which the     *)
(* contract refers to (BitcoinAnchor), and the acceptance run, which reads  *)
(* the contract through nodes that lag while others call it (DemoRun).      *)
(****************************************************************************)
EXTENDS BitcoinAnchor, DemoRun, ResolutionValidatorProofs, WellFoundedInduction

--------------------------------------------------------------------------------
(* Bitcoin.                                                                 *)

\* What was committed is a head of an agent.
CommittedOK ==
  \A ref \in DOMAIN committed : committed[ref] \in [agentId : AgentId, head : HeadHash]

ContractInv == TypeOK /\ ChainInv /\ AnchorsAreAncestors

AnchorInv == CommittedOK /\ CommitmentsHold /\ ReferencesAreAncestral

LEMMA ContractStep == ContractInv /\ [AnchorNext]_anchorVars => ContractInv'
<1> SUFFICES ASSUME ContractInv, [AnchorNext]_anchorVars PROVE ContractInv'
  OBVIOUS
<1>1. [Next]_vars
  BY DEF AnchorNext, CommitHead, anchorVars
<1>2. QED
  BY <1>1, TypeStep, ChainStep, AnchorsStep DEF ContractInv

\* A new commitment is of the head as it is, and no reference stands for it yet.
LEMMA CommitStep ==
  ASSUME ContractInv, AnchorInv, NEW a \in AgentId, NEW ref \in BitcoinRef, CommitHead(a, ref)
  PROVE  AnchorInv'
<1>1. /\ head[a] \in HeadHash
      /\ UNCHANGED <<head, headAnchoredTo>>
  BY DEF ContractInv, TypeOK, CommitHead, vars
<1>2. /\ DOMAIN committed' = DOMAIN committed \cup {ref}
      /\ committed'[ref] = [agentId |-> a, head |-> head[a]]
      /\ \A k \in DOMAIN committed : k # ref /\ committed'[k] = committed[k]
  BY DEF CommitHead
<1>3. CommittedOK'
  BY <1>1, <1>2 DEF AnchorInv, CommittedOK
<1>4. IsPrefix(head[a], head[a])
  BY <1>1, PrefixReflexive DEF HeadHash
<1>5. CommitmentsHold'
  BY <1>1, <1>2, <1>4 DEF AnchorInv, CommitmentsHold
<1>6. \A h \in DOMAIN headAnchoredTo : headAnchoredTo[h] # ref
  BY DEF CommitHead
<1>7. ReferencesAreAncestral'
  BY <1>1, <1>2, <1>6 DEF AnchorInv, ReferencesAreAncestral
<1>8. QED
  BY <1>3, <1>5, <1>7 DEF AnchorInv

\* A call of the contract only lets heads grow.  A head that was frozen before is
\* still an ancestor of one agent's head only; one that is frozen now is the head
\* of its agent, which all earlier commitments about that agent are ancestors of.
LEMMA CallStep ==
  ASSUME ContractInv, AnchorInv, [Next]_vars, UNCHANGED committed
  PROVE  AnchorInv'
<1>0. ContractInv'
  BY TypeStep, ChainStep, AnchorsStep DEF ContractInv
<1>1. /\ head \in [AgentId -> Seq(HeadLink)] /\ head' \in [AgentId -> Seq(HeadLink)]
      /\ \A h \in DOMAIN headAnchoredTo : h \in Seq(HeadLink)
      /\ \A ref \in DOMAIN committed :
           committed[ref].agentId \in AgentId /\ committed[ref].head \in Seq(HeadLink)
  BY <1>0 DEF ContractInv, TypeOK, HeadHash, AnchorInv, CommittedOK
<1>2. /\ \A a \in AgentId : IsPrefix(head[a], head'[a])
      /\ \A h \in DOMAIN headAnchoredTo :
           h \in DOMAIN headAnchoredTo' /\ headAnchoredTo'[h] = headAnchoredTo[h]
  <2>1. CASE Next
    BY <2>1, StepRewritesNothing DEF ContractInv, NothingIsRewritten
  <2>2. CASE UNCHANGED vars
    BY <1>1, <2>2, PrefixReflexive DEF vars
  <2>3. QED
    BY <2>1, <2>2
<1>3. CommitmentsHold'
  BY <1>1, <1>2, PrefixTransitive DEF AnchorInv, CommitmentsHold
<1>4. ASSUME NEW h \in DOMAIN headAnchoredTo, h # <<>>, headAnchoredTo[h] \in DOMAIN committed,
             IsPrefix(h, head'[committed[headAnchoredTo[h]].agentId])
      PROVE  IsPrefix(committed[headAnchoredTo[h]].head, h)
  <2> DEFINE c == committed[headAnchoredTo[h]]
  <2>1. c.agentId \in AgentId
    BY <1>1, <1>4
  <2>2. PICK b \in AgentId : IsPrefix(h, head[b])
    BY DEF ContractInv, AnchorsAreAncestors
  <2>3. IsPrefix(h, head'[b])
    BY <1>1, <1>2, <2>2, PrefixTransitive
  <2>4. b = c.agentId
    <3>1. ContractInv' => HeadsDisjoint'
      BY HeadsAreDisjoint, PTL DEF ContractInv
    <3>2. h \in HeadHash \ {<<>>}
      BY <1>1, <1>4 DEF HeadHash
    <3>3. QED
      BY <1>0, <1>4, <2>1, <2>3, <3>1, <3>2 DEF HeadsDisjoint
  <2>5. QED
    BY <1>4, <2>2, <2>4 DEF AnchorInv, ReferencesAreAncestral
<1>5. ASSUME headAnchoredTo' = headAnchoredTo PROVE ReferencesAreAncestral'
  BY <1>4, <1>5 DEF ReferencesAreAncestral
<1>6. ASSUME NEW a \in AgentId, NEW ref \in BitcoinRef, AnchorHead(a, ref)
      PROVE  ReferencesAreAncestral'
  <2>1. /\ head' = head
        /\ DOMAIN headAnchoredTo' = DOMAIN headAnchoredTo \cup {head[a]}
        /\ headAnchoredTo'[head[a]] = ref
    BY <1>6 DEF AnchorHead, HeadToFreeze
  <2>2. ASSUME head[a] # <<>>, ref \in DOMAIN committed,
               IsPrefix(head[a], head[committed[ref].agentId])
        PROVE  IsPrefix(committed[ref].head, head[a])
    <3>1. IsPrefix(head[a], head[a])
      BY <1>1, PrefixReflexive
    <3>2. a = committed[ref].agentId
      BY <1>1, <2>2, <3>1, HeadsAreDisjoint DEF HeadsDisjoint, HeadHash, ContractInv
    <3>3. QED
      BY <2>2, <3>2 DEF AnchorInv, CommitmentsHold
  <2>3. QED
    BY <1>2, <1>4, <2>1, <2>2 DEF ReferencesAreAncestral
<1>7. ReferencesAreAncestral'
  BY <1>5, <1>6 DEF Next, ValidationRequest, OtherResponse, contractVars, CommitRequest,
     RecordResolution, Challenge, ResolveChallenge, vars
<1>8. CommittedOK'
  BY DEF AnchorInv, CommittedOK
<1>9. QED
  BY <1>3, <1>7, <1>8 DEF AnchorInv

LEMMA AnchorStep == ContractInv /\ AnchorInv /\ [AnchorNext]_anchorVars => AnchorInv'
<1> SUFFICES ASSUME ContractInv, AnchorInv, [AnchorNext]_anchorVars PROVE AnchorInv'
  OBVIOUS
<1>1. CASE \E a \in AgentId, ref \in BitcoinRef : CommitHead(a, ref)
  BY <1>1, CommitStep
<1>2. CASE [Next]_vars /\ UNCHANGED committed
  BY <1>2, CallStep
<1>3. QED
  BY <1>1, <1>2 DEF AnchorNext, anchorVars

LEMMA AnchorBegin == AnchorInit => ContractInv /\ AnchorInv
<1> SUFFICES ASSUME AnchorInit PROVE ContractInv /\ AnchorInv
  OBVIOUS
<1>1. TypeOK /\ ChainInv
  BY TypeInit, ChainInit DEF AnchorInit
<1>2. DOMAIN headAnchoredTo = {} /\ DOMAIN committed = {}
  BY DEF AnchorInit, Init
<1>3. QED
  BY <1>1, <1>2
     DEF ContractInv, AnchorInv, AnchorsAreAncestors, CommittedOK, CommitmentsHold,
         ReferencesAreAncestral

\* A head that was committed to Bitcoin stays an ancestor of its agent's head.
THEOREM BitcoinEvidenceHolds == AnchorSpec => []CommitmentsHold
<1>1. AnchorInv => CommitmentsHold
  BY DEF AnchorInv
<1>2. QED
  BY <1>1, AnchorBegin, ContractStep, AnchorStep, PTL DEF AnchorSpec

\* The reference of a frozen head stands for that head or for an ancestor of it.
THEOREM ReferencesAreNeverYounger == AnchorSpec => []ReferencesAreAncestral
<1>1. AnchorInv => ReferencesAreAncestral
  BY DEF AnchorInv
<1>2. QED
  BY <1>1, AnchorBegin, ContractStep, AnchorStep, PTL DEF AnchorSpec

--------------------------------------------------------------------------------
(* The acceptance run.                                                      *)

\* A history is no longer than the chain of the agent that its request belongs to.
HistoriesFit ==
  \A r \in RequestHash :
    requests[r] # None => Len(history[r]) <= Len(head[requests[r].agentId])

\* What the acceptance run rests on, of the contract and the registry.
LogInv == TypeOK /\ ChainInv /\ RegistryMirrorsLatest /\ AuditReverifies /\ HistoriesFit

\* A verdict adds one to both, and a request never changes its agent.
LEMMA FitStep == TypeOK /\ ChainInv /\ HistoriesFit /\ [Next]_vars => HistoriesFit'
<1> SUFFICES ASSUME TypeOK, ChainInv, HistoriesFit, [Next]_vars PROVE HistoriesFit'
  OBVIOUS
<1>2. CASE UNCHANGED <<requests, history, head>>
  BY <1>2 DEF HistoriesFit
<1>3. ASSUME NEW r \in RequestHash, NEW resp \in Response, NEW rh \in ResponseHash,
             NEW p \in Proof, RecordResolution(r, resp, rh, p)
      PROVE  HistoriesFit'
  <2> DEFINE a == requests[r].agentId
  <2>1. PICK e \in Entry, link \in HeadLink :
          /\ a \in AgentId
          /\ history' = [history EXCEPT ![r] = Append(@, e)]
          /\ head' = [head EXCEPT ![a] = Append(@, link)]
    BY <1>3, RecordAppends
  <2>2. /\ \A q \in RequestHash :
             history[q] \in Seq(Entry) /\ Len(history[q]) \in Nat
        /\ \A b \in AgentId : head[b] \in Seq(HeadLink) /\ Len(head[b]) \in Nat
    BY LenProperties DEF TypeOK, HeadHash
  <2>3. /\ Len(history'[r]) = Len(history[r]) + 1
        /\ Len(head'[a]) = Len(head[a]) + 1
        /\ \A q \in RequestHash : q # r => history'[q] = history[q]
        /\ \A b \in AgentId : b # a => head'[b] = head[b]
    BY <2>1, <2>2, AppendProperties DEF TypeOK
  <2>4. /\ requests' = requests
        /\ \A q \in RequestHash : requests[q] # None => requests[q].agentId \in AgentId
    BY <1>3 DEF RecordResolution, TypeOK, RequestRecord
  <2> HIDE DEF a
  <2>5. ASSUME NEW q \in RequestHash, requests[q] # None
        PROVE  Len(history'[q]) <= Len(head'[requests[q].agentId])
    <3>1. Len(history[q]) <= Len(head[requests[q].agentId])
      BY <2>5 DEF HistoriesFit
    <3>2. CASE q = r
      BY <2>1, <2>2, <2>3, <3>1, <3>2 DEF a
    <3>3. CASE q # r /\ requests[q].agentId = a
      BY <2>1, <2>2, <2>3, <2>4, <3>1, <3>3
    <3>4. CASE q # r /\ requests[q].agentId # a
      BY <2>2, <2>3, <2>4, <2>5, <3>1, <3>4
    <3>5. QED
      BY <3>2, <3>3, <3>4
  <2>6. QED
    BY <2>4, <2>5 DEF HistoriesFit
<1>4. ASSUME NEW a \in AgentId, NEW r \in RequestHash, NEW ic \in InputCommit,
             CommitRequest(a, r, ic)
      PROVE  HistoriesFit'
  <2>1. \A q \in RequestHash : q # r => requests'[q] = requests[q]
    BY <1>4 DEF CommitRequest, TypeOK
  <2>2. requests'[r].agentId = a
    BY <1>4 DEF CommitRequest, TypeOK
  <2>3. Len(history[r]) = 0 /\ Len(head[a]) \in Nat
    <3>1. 1 \notin 1 .. Len(history[r])
      BY <1>4 DEF CommitRequest, IsFresh, ChainInv, EntriesChained
    <3>2. Len(history[r]) \in Nat /\ Len(head[a]) \in Nat
      BY LenProperties DEF TypeOK, HeadHash
    <3>3. QED
      BY <3>1, <3>2
  <2>4. history' = history /\ head' = head
    BY <1>4 DEF CommitRequest
  <2>5. QED
    BY <2>1, <2>2, <2>3, <2>4 DEF HistoriesFit
<1>5. ASSUME NEW r \in RequestHash, NEW i \in 1 .. Len(history[r]),
             Challenge(r, i) \/ ResolveChallenge(r, i)
      PROVE  HistoriesFit'
  <2>1. \A q \in RequestHash : Len(history'[q]) = Len(history[q])
    BY <1>5, FlagOnly DEF Challenge, ResolveChallenge
  <2>2. requests' = requests /\ head' = head
    BY <1>5 DEF Challenge, ResolveChallenge
  <2>3. QED
    BY <2>1, <2>2 DEF HistoriesFit
<1>6. QED
  BY <1>2, <1>3, <1>4, <1>5 DEF Next, vars, ValidationRequest, OtherResponse, AnchorHead,
     contractVars

\* All of it is invariant.
LEMMA LogBegin == Init => LogInv
<1> SUFFICES ASSUME Init PROVE LogInv
  OBVIOUS
<1>1. TypeOK /\ ChainInv
  BY TypeInit, ChainInit
<1>2. RegistryMirrorsLatest
  BY DEF Init, RegistryMirrorsLatest, RegistryAccepts
<1>3. AuditReverifies
  BY DEF Init, AuditReverifies
<1>4. HistoriesFit
  BY DEF Init, HistoriesFit
<1>5. QED
  BY <1>1, <1>2, <1>3, <1>4 DEF LogInv

LEMMA LogStep == LogInv /\ [Next]_vars => LogInv'
<1> SUFFICES ASSUME LogInv, [Next]_vars PROVE LogInv'
  OBVIOUS
<1>1. EntriesChained
  BY DEF LogInv, ChainInv
<1>2. QED
  BY <1>1, TypeStep, ChainStep, MirrorStep, AuditStep, FitStep DEF LogInv

\* The proofs of the entries, and the requests of the registry, are never rewritten.
LEMMA ProofsAreKept ==
  ASSUME LogInv, [Next]_vars
  PROVE  /\ \A r \in RequestHash : \A i \in 1 .. Len(history[r]) :
              calldata'[r][i] = calldata[r][i]
         /\ \A r \in RequestHash :
              registryRequest[r] # None => registryRequest'[r] = registryRequest[r]
<1>0. /\ \A r \in RequestHash : calldata[r] \in Seq(Proof) /\ Len(calldata[r]) = Len(history[r])
      /\ calldata \in [RequestHash -> Seq(Proof)]
  BY DEF LogInv, TypeOK, AuditReverifies
<1>1. ASSUME NEW a \in AgentId, NEW r \in RequestHash, NEW v \in Validator,
             ValidationRequest(a, r, v)
      PROVE  \A q \in RequestHash :
               registryRequest[q] # None => registryRequest'[q] = registryRequest[q]
  BY <1>1 DEF ValidationRequest, LogInv, TypeOK
<1>2. ASSUME NEW r \in RequestHash, NEW resp \in Response, NEW rh \in ResponseHash,
             NEW p \in Proof, RecordResolution(r, resp, rh, p)
      PROVE  \A q \in RequestHash : \A i \in 1 .. Len(history[q]) :
               calldata'[q][i] = calldata[q][i]
  <2>1. calldata' = [calldata EXCEPT ![r] = Append(@, p)]
    BY <1>2 DEF RecordResolution
  <2>2. QED
    BY <1>0, <2>1, AppendProperties
<1>3. ASSUME NEW a \in AgentId, NEW r \in RequestHash, NEW v \in Validator,
             ValidationRequest(a, r, v)
      PROVE  calldata' = calldata
  BY <1>3 DEF ValidationRequest, contractVars
<1>4. ASSUME NEW r \in RequestHash, NEW resp \in Response, NEW rh \in ResponseHash,
             NEW p \in Proof, RecordResolution(r, resp, rh, p)
      PROVE  registryRequest' = registryRequest
  BY <1>4 DEF RecordResolution
<1>5. ASSUME Next,
             \A a \in AgentId, r \in RequestHash, v \in Validator : ~ValidationRequest(a, r, v),
             \A r \in RequestHash, resp \in Response, rh \in ResponseHash, p \in Proof :
               ~RecordResolution(r, resp, rh, p)
      PROVE  registryRequest' = registryRequest /\ calldata' = calldata
  BY <1>5 DEF Next, OtherResponse, CommitRequest, AnchorHead, Challenge, ResolveChallenge,
     contractVars
<1>6. CASE UNCHANGED vars
  BY <1>6 DEF vars
<1>7. QED
  BY <1>1, <1>2, <1>3, <1>4, <1>5, <1>6

\* What a node may show of the claim.
ViewType == [answer : Answer \cup {None}, entries : Seq(Entry), head : HeadHash]

\* The nodes show what was so: no more entries than the log has now, and the same
\* ones; the last view is the present.
PastIsTrue ==
  /\ past \in Seq(ViewType) /\ past # <<>>
  /\ past[Len(past)] = View
  /\ \A n \in 1 .. Len(past) :
       /\ Len(past[n].entries) <= Len(history[Claim])
       /\ \A i \in 1 .. Len(past[n].entries) :
            VerdictOf(past[n].entries[i]) = VerdictOf(history[Claim][i])

\* The verifier accepts the run's proof of entry number i.
Accepted(i) == <<ProofOf[ContextNo(i)], ContextNo(i)>> \in Accepts

\* It accepts the proof of the first entry for the other response.
Tampered == Verify(Claim, Bound, Flipped.response, Flipped.responseHash, ProofOf[ContextNo(1)])

\* The run's places after its first verdict, and after its second.
AfterOne == {"length1", "entry1", "head1", "answer1", "tamper", "lengthC", "record2"}
AfterTwo == {"length2", "entry2", "head2", "answer2", "saved", "audited"}

\* Entry i of the claim is the run's entry number n.
Logged(i, n) ==
  SaysOutcome(history[Claim][i], n) /\ calldata[Claim][i] = ProofOf[ContextNo(n)]

\* What the run's two opening calls have left, and which of its verdicts are in the log.
RequestOpen == registryRequest[Claim] = [agentId |-> Us, validator |-> This]

InputsBound == requests[Claim] = [agentId |-> Us, inputCommit |-> Bound]

FirstLogged == \E i \in 1 .. Len(history[Claim]) : Logged(i, 1)

BothLogged == \E i, j \in 1 .. Len(history[Claim]) : i < j /\ Logged(i, 1) /\ Logged(j, 2)

\* What the run has done, by the place where it is.
Progress ==
  /\ lagged \in BOOLEAN
  /\ pc \in {"open", "commit", "record1", "dead"} \cup AfterOne \cup AfterTwo
  /\ pc \notin {"open", "dead"} => RequestOpen
  /\ pc \notin {"open", "commit", "dead"} => InputsBound
  /\ pc \in AfterOne \cup AfterTwo => Accepted(1)
  /\ pc \in {"lengthC", "record2"} \cup AfterTwo => ~Tampered
  /\ pc \in AfterTwo => Accepted(2)
  /\ pc \in AfterOne => FirstLogged
  /\ pc \in AfterTwo => BothLogged

\* What the run has read is what it should.
Length1OK == "length1" \in DOMAIN rep /\ rep["length1"] = 1
Entry1OK  == "entry1" \in DOMAIN rep /\ SaysOutcome(rep["entry1"], 1)
Head1OK   == "head1" \in DOMAIN rep /\ rep["head1"] = head[Us]
Answer1OK == "answer1" \in DOMAIN rep /\ rep["answer1"] = Outcome(1)
LengthCOK == "lengthC" \in DOMAIN rep /\ rep["lengthC"] = 1
Length2OK == "length2" \in DOMAIN rep /\ rep["length2"] = 2
Entry2OK  == /\ "entry2" \in DOMAIN rep /\ SaysOutcome(rep["entry2"], 2)
             /\ rep["entry2"].prevEntry = rep["head1"]
Head2OK   == "head2" \in DOMAIN rep /\ Len(rep["head2"]) = 2
Answer2OK == "answer2" \in DOMAIN rep /\ rep["answer2"] = Outcome(2)

\* As long as nobody else records for the agent and no node lags, checks B and C see
\* the first verdict,
SeenFirst ==
  pc \in AfterOne /\ ~lagged /\ Len(head[Us]) = 1 =>
    /\ pc # "length1" => Length1OK
    /\ pc \notin {"length1", "entry1"} => Entry1OK
    /\ pc \notin {"length1", "entry1", "head1"} => Head1OK
    /\ pc \in {"tamper", "lengthC", "record2"} => Answer1OK
    /\ pc = "record2" => LengthCOK

\* and check D sees the second one, which points back at the head that B saw.
SeenSecond ==
  pc \in AfterTwo /\ ~lagged /\ Len(head[Us]) = 2 =>
    /\ Length1OK /\ Entry1OK /\ Answer1OK /\ LengthCOK
    /\ "head1" \in DOMAIN rep /\ Len(rep["head1"]) = 1
    /\ history[Claim][2].prevEntry = rep["head1"]
    /\ pc # "length2" => Length2OK
    /\ pc \notin {"length2", "entry2"} => Entry2OK
    /\ pc \in {"answer2", "saved", "audited"} => Head2OK
    /\ pc \in {"saved", "audited"} => Answer2OK

\* The inductive invariant of the run.
DemoInv ==
  PastIsTrue /\ Progress /\ SeenFirst /\ SeenSecond /\ EntriesReadAreTrue /\ AuditMeansLatest

\* The run's constants are of the kinds that callers pass.
LEMMA ClaimIsKnown ==
  Us \in AgentId /\ Claim \in RequestHash /\ Bound \in InputCommit \ {ZeroCommit}
BY UsAssumption, BoundAssumption

\* What a step of the contract may do to the log of the claim and to the agent's head.
LogGrows ==
  /\ requests[Claim] # None => requests'[Claim] = requests[Claim]
  /\ registryRequest[Claim] # None => registryRequest'[Claim] = registryRequest[Claim]
  /\ Len(history[Claim]) <= Len(history'[Claim])
  /\ \A i \in 1 .. Len(history[Claim]) :
       /\ VerdictOf(history'[Claim][i]) = VerdictOf(history[Claim][i])
       /\ calldata'[Claim][i] = calldata[Claim][i]
  /\ Len(head[Us]) <= Len(head'[Us])
  /\ Len(head'[Us]) = Len(head[Us]) => head'[Us] = head[Us]

\* Every call of anybody is such a step.
LEMMA StepGrows == LogInv /\ [Next]_vars => LogInv' /\ LogGrows
<1> SUFFICES ASSUME LogInv, [Next]_vars PROVE LogInv' /\ LogGrows
  OBVIOUS
<1>1. LogInv'
  BY LogStep
<1>2. /\ head[Us] \in Seq(HeadLink) /\ head'[Us] \in Seq(HeadLink)
      /\ Len(history[Claim]) \in Nat
  BY <1>1, ClaimIsKnown, LenProperties DEF LogInv, TypeOK, HeadHash
<1>3. /\ requests[Claim] # None => requests'[Claim] = requests[Claim]
      /\ Len(history[Claim]) <= Len(history'[Claim])
      /\ \A i \in 1 .. Len(history[Claim]) :
           VerdictOf(history'[Claim][i]) = VerdictOf(history[Claim][i])
      /\ IsPrefix(head[Us], head'[Us])
  BY StepRewritesNothing, ClaimIsKnown DEF LogInv, NothingIsRewritten
<1>4. /\ Len(head[Us]) <= Len(head'[Us])
      /\ Len(head'[Us]) = Len(head[Us]) => head'[Us] = head[Us]
  <2>1. IsPrefix(head'[Us], head'[Us])
    BY <1>2, PrefixReflexive
  <2>2. QED
    BY <1>2, <1>3, <2>1, PrefixByElements, PrefixDeterminedByLength
<1>5. QED
  BY <1>1, <1>3, <1>4, ProofsAreKept, ClaimIsKnown DEF LogGrows

\* A proof that the verifier accepts is of the kinds that callers pass.
LEMMA AcceptedIsTyped ==
  ASSUME NEW i, Accepted(i)
  PROVE  /\ ProofOf[ContextNo(i)] \in Proof
         /\ Outcome(i).response \in Response
         /\ Outcome(i).responseHash \in ResponseHash
         /\ ContextNo(i) \in Context
<1>1. ProofOf[ContextNo(i)] \in Proof /\ ContextNo(i) \in Context
  BY AcceptsAssumption DEF Accepted
<1>2. QED
  BY <1>1 DEF ContextNo, ContextOf, Context

\* The run and everybody else act by calls of the contract, or change nothing of it.
LEMMA DemoStepIsCall == DemoNext => [Next]_vars
<1> SUFFICES ASSUME DemoNext PROVE [Next]_vars
  OBVIOUS
<1>1. CASE OpenRequest \/ Commit
  <2>1. Claim \in RequestHash /\ Us \in AgentId /\ Bound \in InputCommit /\ This \in Validator
    BY ClaimIsKnown, ThisAssumption
  <2>2. QED
    BY <1>1, <2>1 DEF OpenRequest, Commit, Send, Next
<1>2. ASSUME NEW i, NEW at, NEW next, Record(i, at, next) PROVE Next
  <2>1. Accepted(i) /\ RecordResolution(Claim, Outcome(i).response, Outcome(i).responseHash,
                                     ProofOf[ContextNo(i)])
    BY <1>2 DEF Record, Send, Accepted
  <2>2. QED
    BY <2>1, AcceptedIsTyped, ClaimIsKnown DEF Next
<1>3. QED
  BY <1>1, <1>2 DEF DemoNext, CheckB, CheckC, CheckD, ReadLength, ReadHead, ReadAnswer, ReadEntry, Read,
      Tamper, Die, Audit, Stranger

\* While the agent's log has the length that the run alone gives it, it is the run's.
LEMMA OneVerdict ==
  ASSUME LogInv, Progress, pc \in AfterOne, Len(head[Us]) = 1
  PROVE  /\ Len(history[Claim]) = 1
         /\ SaysOutcome(history[Claim][1], 1)
         /\ registryStatus[Claim] = Outcome(1)
<1>1. /\ registryRequest[Claim] = [agentId |-> Us, validator |-> This]
      /\ requests[Claim] = [agentId |-> Us, inputCommit |-> Bound]
      /\ \E i \in 1 .. Len(history[Claim]) : Logged(i, 1)
  BY DEF Progress, AfterOne, RequestOpen, InputsBound, FirstLogged
<1>2. requests[Claim] # None /\ registryRequest[Claim] # None
  BY <1>1, NoneAssumption, ClaimIsKnown, ThisAssumption
<1>3. Len(history[Claim]) <= 1 /\ Len(history[Claim]) \in Nat
  <2>1. history[Claim] \in Seq(Entry)
    BY ClaimIsKnown DEF LogInv, TypeOK
  <2>2. requests[Claim].agentId = Us
    BY <1>1
  <2>3. Len(history[Claim]) <= 1
    BY <1>2, <2>2, ClaimIsKnown DEF LogInv, HistoriesFit
  <2>4. QED
    BY <2>1, <2>3, LenProperties
<1>4. Len(history[Claim]) = 1 /\ Logged(1, 1)
  <2>1. PICK i \in 1 .. Len(history[Claim]) : Logged(i, 1)
    BY <1>1
  <2>2. i = 1 /\ Len(history[Claim]) = 1
    <3>1. \A k \in Nat : \A m \in 1 .. k : k <= 1 => m = 1 /\ k = 1
      OBVIOUS
    <3>2. QED
      BY <1>3, <3>1
  <2>3. QED
    BY <2>1, <2>2
<1>5. registryStatus[Claim] = [response |-> Last(history[Claim]).response,
                               responseHash |-> Last(history[Claim]).responseHash]
  BY <1>1, <1>2, <1>4, ClaimIsKnown DEF LogInv, RegistryMirrorsLatest, RegistryAccepts
<1>6. QED
  BY <1>4, <1>5 DEF Last, Logged, SaysOutcome, Outcome

\* The same for both verdicts.
LEMMA TwoVerdicts ==
  ASSUME LogInv, Progress, pc \in AfterTwo, Len(head[Us]) = 2
  PROVE  /\ Len(history[Claim]) = 2
         /\ SaysOutcome(history[Claim][1], 1)
         /\ SaysOutcome(history[Claim][2], 2)
         /\ registryStatus[Claim] = Outcome(2)
<1>1. /\ registryRequest[Claim] = [agentId |-> Us, validator |-> This]
      /\ requests[Claim] = [agentId |-> Us, inputCommit |-> Bound]
      /\ \E i, j \in 1 .. Len(history[Claim]) : i < j /\ Logged(i, 1) /\ Logged(j, 2)
  BY DEF Progress, AfterTwo, RequestOpen, InputsBound, BothLogged
<1>2. requests[Claim] # None /\ registryRequest[Claim] # None
  BY <1>1, NoneAssumption, ClaimIsKnown, ThisAssumption
<1>3. Len(history[Claim]) <= 2 /\ Len(history[Claim]) \in Nat
  <2>1. history[Claim] \in Seq(Entry)
    BY ClaimIsKnown DEF LogInv, TypeOK
  <2>2. requests[Claim].agentId = Us
    BY <1>1
  <2>3. Len(history[Claim]) <= 2
    BY <1>2, <2>2, ClaimIsKnown DEF LogInv, HistoriesFit
  <2>4. QED
    BY <2>1, <2>3, LenProperties
<1>4. Len(history[Claim]) = 2 /\ Logged(1, 1) /\ Logged(2, 2)
  <2>1. PICK i, j \in 1 .. Len(history[Claim]) : i < j /\ Logged(i, 1) /\ Logged(j, 2)
    BY <1>1
  <2>2. i = 1 /\ j = 2 /\ Len(history[Claim]) = 2
    <3>1. \A k \in Nat : \A m, n \in 1 .. k : k <= 2 /\ m < n => m = 1 /\ n = 2 /\ k = 2
      OBVIOUS
    <3>2. QED
      BY <1>3, <2>1, <3>1
  <2>3. QED
    BY <2>1, <2>2
<1>5. registryStatus[Claim] = [response |-> Last(history[Claim]).response,
                               responseHash |-> Last(history[Claim]).responseHash]
  BY <1>1, <1>2, <1>4, ClaimIsKnown DEF LogInv, RegistryMirrorsLatest, RegistryAccepts
<1>6. QED
  BY <1>4, <1>5 DEF Last, Logged, SaysOutcome, Outcome

\* The outcomes depend on the chain that the claim is about only.
LEMMA OutcomesAreFixed ==
  ASSUME even' = even
  PROVE  /\ \A i : Outcome(i)' = Outcome(i) /\ ContextNo(i)' = ContextNo(i)
         /\ \A i : Accepted(i)' <=> Accepted(i)
         /\ \A e, i : SaysOutcome(e, i)' <=> SaysOutcome(e, i)
         /\ Tampered' <=> Tampered
<1>1. \A b : ParityVerdict(b)' = ParityVerdict(b)
  BY DEF ParityVerdict
<1>2. Moving' = Moving
  BY <1>1 DEF Moving
<1>3. B0' = B0
  BY <1>2 DEF B0
<1>4. \A i : Outcome(i)' = Outcome(i)
  BY <1>3 DEF Outcome, ParityVerdict
<1>5. \A i : ContextNo(i)' = ContextNo(i)
  BY <1>4 DEF ContextNo
<1>6. Flipped' = Flipped
  BY <1>4 DEF Flipped
<1>7. \A i : Accepted(i)' <=> Accepted(i)
  BY <1>5 DEF Accepted
<1>8. \A e, i : SaysOutcome(e, i)' <=> SaysOutcome(e, i)
  BY <1>4 DEF SaysOutcome
<1>9. Tampered' <=> Tampered
  BY <1>5, <1>6 DEF Tampered, Verify
<1>10. QED
  BY <1>4, <1>5, <1>7, <1>8, <1>9

\* What the run has achieved stays achieved.
LEMMA AchievementsLast ==
  ASSUME LogInv, LogInv', LogGrows, even' = even
  PROVE  /\ RequestOpen => RequestOpen'
         /\ InputsBound => InputsBound'
         /\ FirstLogged => FirstLogged'
         /\ BothLogged => BothLogged'
         /\ \A i : Accepted(i)' <=> Accepted(i)
         /\ Tampered' <=> Tampered
<1>1. RequestOpen => RequestOpen'
  BY NoneAssumption, ClaimIsKnown, ThisAssumption DEF RequestOpen, LogGrows
<1>2. InputsBound => InputsBound'
  BY NoneAssumption, ClaimIsKnown DEF InputsBound, LogGrows
<1>3. /\ 1 .. Len(history[Claim]) \subseteq 1 .. Len(history'[Claim])
      /\ \A i \in 1 .. Len(history[Claim]) : \A n : Logged(i, n) => Logged(i, n)'
  <2>1. ASSUME NEW i \in 1 .. Len(history[Claim]), NEW n, Logged(i, n)
        PROVE  Logged(i, n)'
    <3>1. /\ VerdictOf(history'[Claim][i]) = VerdictOf(history[Claim][i])
          /\ calldata'[Claim][i] = calldata[Claim][i]
      BY DEF LogGrows
    <3>2. /\ history'[Claim][i].response = history[Claim][i].response
          /\ history'[Claim][i].responseHash = history[Claim][i].responseHash
      BY <3>1, VerdictDeterminesHash
    <3>3. Outcome(n)' = Outcome(n) /\ ContextNo(n)' = ContextNo(n)
      BY OutcomesAreFixed
    <3>4. QED
      BY <2>1, <3>1, <3>2, <3>3 DEF Logged, SaysOutcome
  <2>2. /\ Len(history[Claim]) \in Nat /\ Len(history'[Claim]) \in Nat
        /\ Len(history[Claim]) <= Len(history'[Claim])
    BY ClaimIsKnown, LenProperties DEF LogInv, TypeOK, LogGrows
  <2>3. \A k, m \in Nat : k <= m => 1 .. k \subseteq 1 .. m
    OBVIOUS
  <2>4. QED
    BY <2>1, <2>2, <2>3
<1>4. FirstLogged => FirstLogged'
  BY <1>3 DEF FirstLogged
<1>5. BothLogged => BothLogged'
  BY <1>3 DEF BothLogged
<1>6. QED
  BY <1>1, <1>2, <1>4, <1>5, OutcomesAreFixed

\* What a verdict of the run's appends.
LEMMA RunRecords ==
  ASSUME LogInv, InputsBound, NEW i, NEW at, NEW next, Record(i, at, next),
         NEW n, n = Len(history[Claim]) + 1
  PROVE  /\ Accepted(i)
         /\ Len(history'[Claim]) = n
         /\ Logged(n, i)'
         /\ history'[Claim][n].prevEntry = head[Us]
         /\ Len(head'[Us]) = Len(head[Us]) + 1
<1>1. /\ Accepted(i) /\ even' = even
      /\ RecordResolution(Claim, Outcome(i).response, Outcome(i).responseHash,
                          ProofOf[ContextNo(i)])
  BY DEF Record, Send, Accepted
<1>2. requests[Claim].agentId = Us
  BY DEF InputsBound
<1> DEFINE resp == Outcome(i).response
           rh == Outcome(i).responseHash
           p == ProofOf[ContextNo(i)]
           e == [response |-> resp, responseHash |-> rh, inputCommit |-> requests[Claim].inputCommit,
                 prevEntry |-> head[Us], challenged |-> FALSE]
<1>3. resp \in Response /\ rh \in ResponseHash /\ p \in Proof
  BY <1>1, AcceptedIsTyped
<1>4. /\ e \in Entry 
      /\ history' = [history EXCEPT ![Claim] = Append(@, e)]
      /\ \E link \in HeadLink : head' = [head EXCEPT ![Us] = Append(@, link)]
  <2> HIDE DEF resp, rh, p
  <2>1. RecordResolution(Claim, resp, rh, p)
    BY <1>1 DEF resp, rh, p
  <2>2. QED
    BY <1>2, <1>3, <2>1, RecordAppends, ClaimIsKnown DEF LogInv
<1>5. /\ e.response = resp /\ e.responseHash = rh /\ e.prevEntry = head[Us]
  OBVIOUS
<1>6. calldata' = [calldata EXCEPT ![Claim] = Append(@, p)]
  BY <1>1 DEF RecordResolution
<1> HIDE DEF e, p, resp, rh
<1>7. /\ history \in [RequestHash -> Seq(Entry)] /\ head \in [AgentId -> Seq(HeadLink)]
      /\ calldata \in [RequestHash -> Seq(Proof)] /\ Len(calldata[Claim]) = Len(history[Claim])
  BY ClaimIsKnown DEF LogInv, TypeOK, HeadHash, AuditReverifies
<1>8. Len(history'[Claim]) = n /\ history'[Claim][n] = e
  BY <1>4, <1>7, ClaimIsKnown, AppendProperties
<1>9. calldata'[Claim][n] = p
  BY <1>3, <1>6, <1>7, ClaimIsKnown, AppendProperties
<1>10. Len(head'[Us]) = Len(head[Us]) + 1
  BY <1>4, <1>7, ClaimIsKnown, AppendProperties
<1>11. Outcome(i)' = Outcome(i) /\ ContextNo(i)' = ContextNo(i)
  BY <1>1, OutcomesAreFixed
<1>12. QED
  BY <1>1, <1>5, <1>8, <1>9, <1>10, <1>11 DEF Logged, SaysOutcome, resp, rh, p

\* What is added to the views of the nodes is the view after the step.
LEMMA PastGrows ==
  ASSUME LogInv, LogInv', LogGrows, PastIsTrue, Shown
  PROVE  PastIsTrue'
<1>1. View' \in ViewType
  BY ClaimIsKnown DEF View, ViewType, LogInv, TypeOK
<1> DEFINE v == View'
<1>2. past' = Append(past, v)
  BY DEF Shown
<1>3. v.entries = history'[Claim]
  BY DEF View
<1> HIDE DEF v
<1>4. /\ past \in Seq(ViewType) /\ past' \in Seq(ViewType) /\ past' # <<>>
      /\ Len(past) \in Nat
      /\ Len(past') = Len(past) + 1
      /\ past'[Len(past')] = v
      /\ \A n \in 1 .. Len(past) : past'[n] = past[n]
  <2>1. past \in Seq(ViewType) /\ v \in ViewType
    BY <1>1 DEF PastIsTrue, v
  <2>2. QED
    BY <1>2, <2>1, AppendProperties, LenProperties
<1>5. ASSUME NEW n \in 1 .. Len(past)
      PROVE  /\ Len(past'[n].entries) <= Len(history'[Claim])
             /\ \A i \in 1 .. Len(past'[n].entries) :
                  VerdictOf(past'[n].entries[i]) = VerdictOf(history'[Claim][i])
  <2> DEFINE s == past[n].entries
  <2>1. /\ Len(s) <= Len(history[Claim]) /\ Len(s) \in Nat /\ Len(history[Claim]) \in Nat
        /\ Len(history'[Claim]) \in Nat
        /\ \A i \in 1 .. Len(s) : VerdictOf(s[i]) = VerdictOf(history[Claim][i])
    <3>1. s \in Seq(Entry)
      <4>1. past[n] \in ViewType
        BY <1>4, ElementOfSeq
      <4>2. QED
        BY <4>1 DEF ViewType
    <3>2. history[Claim] \in Seq(Entry) /\ history'[Claim] \in Seq(Entry)
      BY ClaimIsKnown DEF LogInv, TypeOK
    <3>3. QED
      BY <3>1, <3>2, LenProperties DEF PastIsTrue
  <2>2. /\ Len(history[Claim]) <= Len(history'[Claim])
        /\ \A i \in 1 .. Len(history[Claim]) :
             VerdictOf(history'[Claim][i]) = VerdictOf(history[Claim][i])
    BY DEF LogGrows
  <2>3. past'[n].entries = s
    BY <1>4
  <2> HIDE DEF s
  <2>4. Len(s) <= Len(history'[Claim]) 
    BY <2>1, <2>2
  <2>5. ASSUME NEW i \in 1 .. Len(s) PROVE VerdictOf(s[i]) = VerdictOf(history'[Claim][i])
    <3>1. i \in 1 .. Len(history[Claim])
      BY <2>1
    <3>2. QED
      BY <2>1, <2>2, <3>1
  <2>6. QED
    BY <2>3, <2>4, <2>5
<1>6. ASSUME NEW n \in 1 .. Len(past')
      PROVE  /\ Len(past'[n].entries) <= Len(history'[Claim])
             /\ \A i \in 1 .. Len(past'[n].entries) :
                  VerdictOf(past'[n].entries[i]) = VerdictOf(history'[Claim][i])
  <2>1. CASE n \in 1 .. Len(past)
    BY <1>5, <2>1
  <2>2. CASE n = Len(past')
    <3>1. Len(history'[Claim]) \in Nat
      <4>1. history'[Claim] \in Seq(Entry)
        BY ClaimIsKnown DEF LogInv, TypeOK
      <4>2. QED
        BY <4>1, LenProperties
    <3>2. QED
      BY <1>3, <1>4, <2>2, <3>1
  <2>3. QED
    BY <1>4, <2>1, <2>2
<1>7. QED
  BY <1>4, <1>6 DEF PastIsTrue, v

\* What a read does, except for its answer: it changes what the run has read, and
\* nothing else.
Gets(at, next, name) ==
  /\ pc = at /\ pc' = next
  /\ UNCHANGED <<vars, even, past, strangers>>
  /\ DOMAIN rep' = DOMAIN rep \cup {name}
  /\ \A f \in DOMAIN rep : f # name => rep'[f] = rep[f]
  /\ lagged' \in BOOLEAN
  /\ ~lagged' => ~lagged

\* What is read from a node that is not behind is so now.
LEMMA LengthSeen ==
  ASSUME PastIsTrue, lagged \in BOOLEAN, NEW at, NEW next, NEW name, ReadLength(at, next, name)
  PROVE  Gets(at, next, name) /\ (~lagged' => rep'[name] = Len(history[Claim]))
<1>1. PICK n \in Nodes :
        /\ rep' = [f \in DOMAIN rep \cup {name} |->
                    IF f = name THEN Len(past[n].entries) ELSE rep[f]]
        /\ lagged' = (lagged \/ n # Len(past))
  BY DEF ReadLength, Read
<1>2. Len(past[Len(past)].entries) = Len(history[Claim])
  BY DEF PastIsTrue, View
<1>3. pc = at /\ pc' = next /\ UNCHANGED <<vars, even, past, strangers>>
  BY DEF ReadLength, Read
<1>4. ~lagged' => ~lagged /\ rep'[name] = Len(history[Claim])
  BY <1>1, <1>2
<1>5. QED
  BY <1>1, <1>3, <1>4 DEF Gets

LEMMA HeadSeen ==
  ASSUME PastIsTrue, lagged \in BOOLEAN, NEW at, NEW next, NEW name, ReadHead(at, next, name)
  PROVE  Gets(at, next, name) /\ (~lagged' => rep'[name] = head[Us])
<1>1. PICK n \in Nodes :
        /\ rep' = [f \in DOMAIN rep \cup {name} |->
                    IF f = name THEN past[n].head ELSE rep[f]]
        /\ lagged' = (lagged \/ n # Len(past))
  BY DEF ReadHead, Read
<1>2. past[Len(past)].head = head[Us]
  BY DEF PastIsTrue, View
<1>3. pc = at /\ pc' = next /\ UNCHANGED <<vars, even, past, strangers>>
  BY DEF ReadHead, Read
<1>4. ~lagged' => ~lagged /\ rep'[name] = head[Us]
  BY <1>1, <1>2
<1>5. QED
  BY <1>1, <1>3, <1>4 DEF Gets

LEMMA AnswerSeen ==
  ASSUME PastIsTrue, lagged \in BOOLEAN, NEW at, NEW next, NEW name, ReadAnswer(at, next, name)
  PROVE  Gets(at, next, name) /\ (~lagged' => rep'[name] = registryStatus[Claim])
<1>1. PICK n \in Nodes :
        /\ rep' = [f \in DOMAIN rep \cup {name} |->
                    IF f = name THEN past[n].answer ELSE rep[f]]
        /\ lagged' = (lagged \/ n # Len(past))
  BY DEF ReadAnswer, Read
<1>2. past[Len(past)].answer = registryStatus[Claim]
  BY DEF PastIsTrue, View
<1>3. pc = at /\ pc' = next /\ UNCHANGED <<vars, even, past, strangers>>
  BY DEF ReadAnswer, Read
<1>4. ~lagged' => ~lagged /\ rep'[name] = registryStatus[Claim]
  BY <1>1, <1>2
<1>5. QED
  BY <1>1, <1>3, <1>4 DEF Gets

\* The log of the claim has the entry v in place i.
IsEntry(v, i) == i \in 1 .. Len(history[Claim]) /\ v = VerdictOf(history[Claim][i])

\* An entry that a node has is the entry, however far the node is behind.
LEMMA EntrySeen ==
  ASSUME PastIsTrue, lagged \in BOOLEAN, Len(history[Claim]) \in Nat,
         NEW i, NEW at, NEW next, NEW name, ReadEntry(i, at, next, name)
  PROVE  Gets(at, next, name) /\ IsEntry(rep'[name], i)
<1> DEFINE having == {m \in Nodes : HasEntry(i, m)}
<1>1. PICK n \in having :
        /\ rep' = [f \in DOMAIN rep \cup {name} |-> IF f = name THEN EntryIn(i, n) ELSE rep[f]]
        /\ lagged' = (lagged \/ n # Len(past))
  BY DEF ReadEntry, Read
<1>2. i \in 1 .. Len(history[Claim]) /\ EntryIn(i, n) = VerdictOf(history[Claim][i])
  <2>1. n \in 1 .. Len(past) /\ i \in DOMAIN past[n].entries
    <3>1. n \in DOMAIN past /\ past \in Seq(ViewType)
      BY DEF Nodes, PastIsTrue
    <3>2. QED
      BY <3>1, LenProperties DEF HasEntry
  <2>2. past[n].entries \in Seq(Entry)
    <3>1. past[n] \in ViewType
      BY <2>1, ElementOfSeq DEF PastIsTrue
    <3>2. QED
      BY <3>1 DEF ViewType
  <2>3. i \in 1 .. Len(past[n].entries) /\ Len(past[n].entries) \in Nat
    BY <2>1, <2>2, LenProperties
  <2>4. /\ Len(past[n].entries) <= Len(history[Claim])
        /\ VerdictOf(past[n].entries[i]) = VerdictOf(history[Claim][i])
    BY <2>1, <2>3 DEF PastIsTrue
  <2>5. \A k, m \in Nat : k <= m /\ i \in 1 .. k => i \in 1 .. m
    OBVIOUS
  <2>6. i \in 1 .. Len(history[Claim])
    BY <2>3, <2>4, <2>5
  <2>7. QED
    BY <2>1, <2>4, <2>6 DEF EntryIn
<1>3. pc = at /\ pc' = next /\ UNCHANGED <<vars, even, past, strangers>>
  BY DEF ReadEntry, Read
<1>4. QED
  BY <1>1, <1>2, <1>3 DEF Gets, IsEntry

\* A node shows only what was so, whatever the step.
LEMMA PastStep ==
  ASSUME LogInv, LogInv', LogGrows, PastIsTrue, lagged \in BOOLEAN, [DemoNext]_<<vars, demoVars>>
  PROVE  PastIsTrue'
<1>1. CASE UNCHANGED <<vars, past>>
  BY <1>1 DEF PastIsTrue, View, vars
<1>2. CASE Shown
  BY <1>2, PastGrows
<1>3. QED
  BY <1>1, <1>2 DEF DemoNext, demoVars, OpenRequest, Commit, Record, Send, CheckB, CheckC, CheckD,
     ReadLength, ReadHead, ReadAnswer, ReadEntry, Read, Tamper, Die, Audit, Stranger

\* The facts about a step that the lemmas below start from.
DemoStep ==
  /\ LogInv /\ LogInv' /\ LogGrows
  /\ PastIsTrue /\ PastIsTrue' /\ Progress
  /\ [DemoNext]_<<vars, demoVars>>

\* The chain that the claim is about is there before the run.
LEMMA ChainIsFixed == DemoStep => even' = even
BY DEF DemoStep, DemoNext, demoVars, OpenRequest, Commit, Record, Send, CheckB, CheckC, CheckD,
   ReadLength, ReadHead, ReadAnswer, ReadEntry, Read, Tamper, Die, Audit, Stranger

\* The run gets where it is by doing what comes before.
LEMMA ProgressStep == DemoStep => Progress'
<1> SUFFICES ASSUME DemoStep PROVE Progress'
  OBVIOUS
<1>1. /\ RequestOpen => RequestOpen'
      /\ InputsBound => InputsBound'
      /\ FirstLogged => FirstLogged'
      /\ BothLogged => BothLogged'
      /\ Accepted(1)' <=> Accepted(1)
      /\ Accepted(2)' <=> Accepted(2)
      /\ Tampered' <=> Tampered
  BY ChainIsFixed, AchievementsLast DEF DemoStep
<1>2. Progress /\ lagged \in BOOLEAN
  BY DEF DemoStep, Progress
<1>3. ASSUME lagged' = lagged, pc' = pc \/ pc' = "dead" PROVE Progress'
  BY <1>1, <1>2, <1>3 DEF Progress, AfterOne, AfterTwo
<1>4. CASE OpenRequest
  <2>1. RequestOpen'
    BY <1>4, ClaimIsKnown DEF OpenRequest, Send, ValidationRequest, RequestOpen, DemoStep, LogInv, TypeOK
  <2>2. pc = "open" /\ pc' \in {"commit", "dead"} /\ lagged' = lagged
    BY <1>4 DEF OpenRequest, Send
  <2>3. QED
    BY <1>1, <1>2, <2>1, <2>2 DEF Progress, AfterOne, AfterTwo
<1>5. CASE Commit
  <2>1. InputsBound'
    BY <1>5, ClaimIsKnown DEF Commit, Send, CommitRequest, InputsBound, DemoStep, LogInv, TypeOK
  <2>2. pc = "commit" /\ pc' \in {"record1", "dead"} /\ lagged' = lagged
    BY <1>5 DEF Commit, Send
  <2>3. QED
    BY <1>1, <1>2, <2>1, <2>2 DEF Progress, AfterOne, AfterTwo
<1>6. Len(history[Claim]) \in Nat
  BY ClaimIsKnown, LenProperties DEF DemoStep, LogInv, TypeOK
<1>7. CASE Record(1, "record1", "length1")
  <2>1. pc = "record1" /\ pc' \in {"length1", "dead"} /\ lagged' = lagged
    BY <1>7 DEF Record, Send
  <2>2. InputsBound
    BY <1>2, <2>1 DEF Progress, AfterOne, AfterTwo
  <2>3. PICK n : n = Len(history[Claim]) + 1
    OBVIOUS
  <2>4. Accepted(1) /\ Len(history'[Claim]) = n /\ Logged(n, 1)'
    BY <1>7, <2>2, <2>3, RunRecords DEF DemoStep
  <2>5. FirstLogged'
    BY <1>6, <2>3, <2>4 DEF FirstLogged
  <2>6. QED
    BY <1>1, <1>2, <2>1, <2>4, <2>5 DEF Progress, AfterOne, AfterTwo
<1>8. CASE Record(2, "record2", "length2")
  <2>1. pc = "record2" /\ pc' \in {"length2", "dead"} /\ lagged' = lagged
    BY <1>8 DEF Record, Send
  <2>2. InputsBound /\ FirstLogged
    BY <1>2, <2>1 DEF Progress, AfterOne, AfterTwo
  <2>3. PICK n : n = Len(history[Claim]) + 1
    OBVIOUS
  <2>4. Accepted(2) /\ Len(history'[Claim]) = n /\ Logged(n, 2)'
    BY <1>8, <2>2, <2>3, RunRecords DEF DemoStep
  <2>5. BothLogged'
    <3>1. PICK i \in 1 .. Len(history[Claim]) : Logged(i, 1)
      BY <2>2 DEF FirstLogged
    <3>2. Logged(i, 1)'
      <4>1. /\ VerdictOf(history'[Claim][i]) = VerdictOf(history[Claim][i])
            /\ calldata'[Claim][i] = calldata[Claim][i]
        BY DEF DemoStep, LogGrows
      <4>2. /\ history'[Claim][i].response = history[Claim][i].response
            /\ history'[Claim][i].responseHash = history[Claim][i].responseHash
        BY <4>1, VerdictDeterminesHash
      <4>3. Outcome(1)' = Outcome(1) /\ ContextNo(1)' = ContextNo(1)
        BY ChainIsFixed, OutcomesAreFixed
      <4>4. QED
        BY <3>1, <4>1, <4>2, <4>3 DEF Logged, SaysOutcome
    <3>3. i \in 1 .. n /\ n \in 1 .. n /\ i < n
      BY <1>6, <2>3
    <3>4. QED
      BY <2>4, <3>2, <3>3 DEF BothLogged
  <2>6. QED
    BY <1>1, <1>2, <2>1, <2>2, <2>4, <2>5 DEF Progress, AfterOne, AfterTwo
<1>9. CASE CheckB \/ CheckC \/ CheckD
  <2>1. /\ lagged' \in BOOLEAN
        /\ \/ pc = "length1" /\ pc' = "entry1"
           \/ pc = "entry1" /\ pc' = "head1"
           \/ pc = "head1" /\ pc' = "answer1"
           \/ pc = "answer1" /\ pc' = "tamper"
           \/ pc = "lengthC" /\ pc' = "record2"
           \/ pc = "length2" /\ pc' = "entry2"
           \/ pc = "entry2" /\ pc' = "head2"
           \/ pc = "head2" /\ pc' = "answer2"
           \/ pc = "answer2" /\ pc' = "saved"
    BY <1>2, <1>9 DEF CheckB, CheckC, CheckD, ReadLength, ReadHead, ReadAnswer, ReadEntry, Read
  <2>2. QED
    BY <1>1, <1>2, <2>1 DEF Progress, AfterOne, AfterTwo
<1>10. CASE Tamper
  <2>1. ~Tampered /\ pc = "tamper" /\ pc' = "lengthC" /\ lagged' = lagged
    BY <1>10 DEF Tamper, Tampered
  <2>2. QED
    BY <1>1, <1>2, <2>1 DEF Progress, AfterOne, AfterTwo
<1>11. CASE Audit
  <2>1. pc = "saved" /\ pc' = "audited" /\ lagged' = lagged
    BY <1>11 DEF Audit
  <2>2. QED
    BY <1>1, <1>2, <2>1 DEF Progress, AfterOne, AfterTwo
<1>12. CASE Die \/ Stranger \/ UNCHANGED <<vars, demoVars>>
  <2>1. lagged' = lagged /\ (pc' = pc \/ pc' = "dead")
    BY <1>12 DEF Die, Stranger, demoVars
  <2>2. QED
    BY <1>3, <2>1
<1>13. QED
  BY <1>4, <1>5, <1>7, <1>8, <1>9, <1>10, <1>11, <1>12 DEF DemoStep, DemoNext

\* An entry that was read is the entry, as the log only grows.
LEMMA EntriesStep == DemoStep /\ EntriesReadAreTrue => EntriesReadAreTrue'
<1> SUFFICES ASSUME DemoStep, EntriesReadAreTrue PROVE EntriesReadAreTrue'
  OBVIOUS
<1>1. history[Claim] \in Seq(Entry) /\ history'[Claim] \in Seq(Entry)
  BY ClaimIsKnown DEF DemoStep, LogInv, TypeOK
<1>2. /\ Len(history[Claim]) \in Nat /\ Len(history'[Claim]) \in Nat
      /\ DOMAIN history[Claim] = 1 .. Len(history[Claim])
      /\ DOMAIN history'[Claim] = 1 .. Len(history'[Claim])
  BY <1>1, LenProperties
<1>3. \A v, i : IsEntry(v, i) => IsEntry(v, i)'
  <2>1. \A k, m \in Nat : k <= m => 1 .. k \subseteq 1 .. m
    OBVIOUS
  <2>2. QED
    BY <1>2, <2>1 DEF DemoStep, LogGrows, IsEntry
<1>4. /\ "entry1" \in DOMAIN rep => IsEntry(rep["entry1"], 1)
      /\ "entry2" \in DOMAIN rep => IsEntry(rep["entry2"], 2)
  BY <1>2 DEF EntriesReadAreTrue, IsEntry
<1> DEFINE True1 == "entry1" \in DOMAIN rep' => IsEntry(rep["entry1"], 1)'
           True2 == "entry2" \in DOMAIN rep' => IsEntry(rep["entry2"], 2)'
<1>5. SUFFICES True1 /\ True2
  BY <1>2, <1>5 DEF EntriesReadAreTrue, IsEntry
<1>6. PastIsTrue /\ lagged \in BOOLEAN
  BY DEF DemoStep, Progress
<1>7. ASSUME NEW at, NEW next, NEW name, Gets(at, next, name)
      PROVE  (name # "entry1" => True1) /\ (name # "entry2" => True2)
  BY <1>3, <1>4, <1>7 DEF Gets
<1> HIDE DEF True1, True2
<1>8. CASE ReadLength("length1", "entry1", "length1")
  BY <1>6, <1>7, <1>8, LengthSeen
<1>9. CASE ReadLength("lengthC", "record2", "lengthC")
  BY <1>6, <1>7, <1>9, LengthSeen
<1>10. CASE ReadLength("length2", "entry2", "length2")
  BY <1>6, <1>7, <1>10, LengthSeen
<1>11. CASE ReadHead("head1", "answer1", "head1")
  BY <1>6, <1>7, <1>11, HeadSeen
<1>12. CASE ReadHead("head2", "answer2", "head2")
  BY <1>6, <1>7, <1>12, HeadSeen
<1>13. CASE ReadAnswer("answer1", "tamper", "answer1")
  BY <1>6, <1>7, <1>13, AnswerSeen
<1>14. CASE ReadAnswer("answer2", "saved", "answer2")
  BY <1>6, <1>7, <1>14, AnswerSeen
<1>15. CASE ReadEntry(1, "entry1", "head1", "entry1")
  <2>1. Gets("entry1", "head1", "entry1") /\ IsEntry(rep'["entry1"], 1)
    BY <1>2, <1>6, <1>15, EntrySeen
  <2>2. True1
    BY <1>3, <2>1 DEF Gets, IsEntry, vars, True1
  <2>3. QED
    BY <1>7, <2>1, <2>2
<1>16. CASE ReadEntry(2, "entry2", "head2", "entry2")
  <2>1. Gets("entry2", "head2", "entry2") /\ IsEntry(rep'["entry2"], 2)
    BY <1>2, <1>6, <1>16, EntrySeen
  <2>2. True2
    BY <1>3, <2>1 DEF Gets, IsEntry, vars, True2
  <2>3. QED
    BY <1>7, <2>1, <2>2
<1>17. CASE Audit
  <2>1. /\ DOMAIN rep' = DOMAIN rep \cup {"audit", "current"}
        /\ \A f \in DOMAIN rep : f \notin {"audit", "current"} => rep'[f] = rep[f]
    BY <1>17 DEF Audit
  <2>2. QED
    BY <1>3, <1>4, <2>1 DEF True1, True2
<1>18. CASE UNCHANGED rep
  BY <1>3, <1>4, <1>18 DEF True1, True2
<1>19. QED
  BY <1>8, <1>9, <1>10, <1>11, <1>12, <1>13, <1>14, <1>15, <1>16, <1>17, <1>18
     DEF DemoStep, DemoNext, demoVars, OpenRequest, Commit, Record, Send, CheckB, CheckC, CheckD,
         Tamper, Die, Stranger

\* The run's verdicts are in the log of its agent.
LEMMA VerdictsCount ==
  ASSUME LogInv, Progress
  PROVE  /\ Len(head[Us]) \in Nat
         /\ pc \in AfterOne => 1 <= Len(head[Us])
         /\ pc \in AfterTwo => 2 <= Len(head[Us])
<1>1. /\ Len(history[Claim]) \in Nat /\ Len(head[Us]) \in Nat
  BY ClaimIsKnown, LenProperties DEF LogInv, TypeOK, HeadHash
<1>2. ASSUME InputsBound PROVE Len(history[Claim]) <= Len(head[Us])
  <2>1. requests[Claim] # None /\ requests[Claim].agentId = Us
    BY <1>2, NoneAssumption, ClaimIsKnown DEF InputsBound
  <2>2. QED
    BY <2>1, ClaimIsKnown DEF LogInv, HistoriesFit
<1>3. ASSUME pc \in AfterOne PROVE 1 <= Len(head[Us])
  <2>1. InputsBound /\ FirstLogged
    BY <1>3 DEF Progress, AfterOne
  <2>2. 1 <= Len(history[Claim])
    BY <1>1, <2>1 DEF FirstLogged
  <2>3. QED
    BY <1>1, <1>2, <2>1, <2>2
<1>4. ASSUME pc \in AfterTwo PROVE 2 <= Len(head[Us])
  <2>1. InputsBound /\ BothLogged
    BY <1>4 DEF Progress, AfterTwo
  <2>2. 2 <= Len(history[Claim])
    BY <1>1, <2>1 DEF BothLogged
  <2>3. QED
    BY <1>1, <1>2, <2>1, <2>2
<1>5. QED
  BY <1>1, <1>3, <1>4

\* A step that records nothing for the agent leaves what was read as true as it was.
LEMMA SeenIsKept ==
  ASSUME DemoStep, SeenFirst, SeenSecond, rep' = rep, lagged' = lagged,
         pc' = pc \/ pc' = "dead" \/ (pc = "tamper" /\ pc' = "lengthC")
  PROVE  SeenFirst' /\ SeenSecond'
<1>1. /\ Outcome(1)' = Outcome(1) /\ Outcome(2)' = Outcome(2)
      /\ \A e, i : SaysOutcome(e, i)' <=> SaysOutcome(e, i)
  BY ChainIsFixed, OutcomesAreFixed
<1>2. /\ Length1OK => Length1OK'
      /\ Entry1OK => Entry1OK'
      /\ head'[Us] = head[Us] /\ Head1OK => Head1OK'
      /\ Answer1OK => Answer1OK'
      /\ LengthCOK => LengthCOK'
      /\ Length2OK => Length2OK'
      /\ Entry2OK => Entry2OK'
      /\ Head2OK => Head2OK'
      /\ Answer2OK => Answer2OK'
  BY <1>1 DEF Length1OK, Entry1OK, Answer1OK, LengthCOK, Length2OK, Entry2OK, Head2OK,
     Answer2OK, Head1OK
<1> DEFINE n == Len(head[Us])
           m == Len(head'[Us])
<1>3. /\ n \in Nat /\ m \in Nat
      /\ n <= m
      /\ m = n => head'[Us] = head[Us]
      /\ pc \in AfterOne => 1 <= n
      /\ pc \in AfterTwo => 2 <= n
  BY VerdictsCount, ClaimIsKnown, LenProperties DEF DemoStep, LogGrows, LogInv, TypeOK, HeadHash
<1> HIDE DEF n, m
<1>4. ASSUME pc' \in AfterOne, m = 1
      PROVE  pc \in AfterOne /\ n = 1 /\ head'[Us] = head[Us]
  <2>1. pc \in AfterOne
    BY <1>4 DEF AfterOne
  <2>2. QED
    BY <1>3, <1>4, <2>1
<1>5. ASSUME pc' \in AfterTwo, m = 2
      PROVE  pc \in AfterTwo /\ pc' = pc /\ n = 2 /\ head'[Us] = head[Us]
  <2>1. pc \in AfterTwo /\ pc' = pc
    BY <1>5 DEF AfterTwo
  <2>2. QED
    BY <1>3, <1>5, <2>1
<1>6. SeenFirst'
  <2> SUFFICES ASSUME pc' \in AfterOne, ~lagged', m = 1 PROVE SeenFirst'
    BY DEF SeenFirst, m
  <2>1. pc \in AfterOne /\ ~lagged /\ n = 1 /\ head'[Us] = head[Us]
    BY <1>4
  <2>2. /\ pc # "length1" => Length1OK
        /\ pc \notin {"length1", "entry1"} => Entry1OK
        /\ pc \notin {"length1", "entry1", "head1"} => Head1OK
        /\ pc \in {"tamper", "lengthC", "record2"} => Answer1OK
        /\ pc = "record2" => LengthCOK
    BY <2>1 DEF SeenFirst, n
  <2>3. QED
    BY <1>2, <2>1, <2>2 DEF SeenFirst, AfterOne
<1>7. SeenSecond'
  <2> SUFFICES ASSUME pc' \in AfterTwo, ~lagged', m = 2 PROVE SeenSecond'
    BY DEF SeenSecond, m
  <2>1. pc \in AfterTwo /\ ~lagged /\ pc' = pc /\ n = 2 /\ head'[Us] = head[Us]
    BY <1>5
  <2>2. VerdictOf(history'[Claim][2]) = VerdictOf(history[Claim][2])
    <3>1. Len(history[Claim]) = 2
      BY <2>1, TwoVerdicts DEF DemoStep, n
    <3>2. QED
      BY <3>1 DEF DemoStep, LogGrows
  <2>3. history'[Claim][2].prevEntry = history[Claim][2].prevEntry
    BY <2>2, VerdictDeterminesHash
  <2>4. /\ Length1OK /\ Entry1OK /\ Answer1OK /\ LengthCOK
        /\ "head1" \in DOMAIN rep /\ Len(rep["head1"]) = 1
        /\ history[Claim][2].prevEntry = rep["head1"]
        /\ pc # "length2" => Length2OK
        /\ pc \notin {"length2", "entry2"} => Entry2OK
        /\ pc \in {"answer2", "saved", "audited"} => Head2OK
        /\ pc \in {"saved", "audited"} => Answer2OK
    BY <2>1 DEF SeenSecond, n
  <2>5. QED
    BY <1>2, <2>1, <2>3, <2>4 DEF SeenSecond
<1>8. QED
  BY <1>6, <1>7

\* A read leaves what else was read.
LEMMA OthersAreKept ==
  ASSUME NEW at, NEW next, NEW name, Gets(at, next, name)
  PROVE  /\ name # "length1" => (Length1OK => Length1OK')
         /\ name # "entry1" => (Entry1OK => Entry1OK')
         /\ name # "head1" => (Head1OK => Head1OK')
         /\ name # "answer1" => (Answer1OK => Answer1OK')
         /\ name # "lengthC" => (LengthCOK => LengthCOK')
         /\ name # "length2" => (Length2OK => Length2OK')
         /\ name \notin {"entry2", "head1"} /\ "head1" \in DOMAIN rep => (Entry2OK => Entry2OK')
         /\ name # "head2" => (Head2OK => Head2OK')
         /\ name # "answer2" => (Answer2OK => Answer2OK')
<1>1. /\ Outcome(1)' = Outcome(1) /\ Outcome(2)' = Outcome(2)
      /\ \A e, i : SaysOutcome(e, i)' <=> SaysOutcome(e, i)
  BY OutcomesAreFixed DEF Gets
<1>2. /\ DOMAIN rep' = DOMAIN rep \cup {name}
      /\ \A f \in DOMAIN rep : f # name => rep'[f] = rep[f]
      /\ head' = head
  BY DEF Gets, vars
<1>3. QED
  BY <1>1, <1>2 DEF Length1OK, Entry1OK, Answer1OK, LengthCOK, Length2OK, Entry2OK, Head2OK,
     Answer2OK, Head1OK

\* Each read of checks B, C and D gets what it should.
LEMMA Length1Seen ==
  ASSUME DemoStep, SeenFirst, ReadLength("length1", "entry1", "length1")
  PROVE  SeenFirst' /\ SeenSecond'
<1>1. PastIsTrue /\ lagged \in BOOLEAN /\ Len(history[Claim]) \in Nat
  BY ClaimIsKnown, LenProperties DEF DemoStep, Progress, LogInv, TypeOK
<1>2. Gets("length1", "entry1", "length1") /\ (~lagged' => rep'["length1"] = Len(history[Claim]))
  BY <1>1, LengthSeen
<1>3. /\ pc = "length1" /\ pc' = "entry1" /\ head' = head /\ history' = history
      /\ (~lagged' => ~lagged)
  BY <1>2 DEF Gets, vars
<1>4. ASSUME ~lagged', Len(head[Us]) = 1
      PROVE  Length1OK'
  <2>1. /\ Len(history[Claim]) = 1 /\ SaysOutcome(history[Claim][1], 1)
        /\ registryStatus[Claim] = Outcome(1)
    BY <1>3, <1>4, OneVerdict DEF DemoStep, AfterOne
  <2>2. /\ Outcome(1)' = Outcome(1)
        /\ \A e, i : SaysOutcome(e, i)' <=> SaysOutcome(e, i)
    BY ChainIsFixed, OutcomesAreFixed
  <2>3. QED
    BY <1>2, <1>4, <2>1, <2>2 DEF Length1OK, Gets
<1>6. QED
  BY <1>3, <1>4 DEF SeenFirst, SeenSecond, AfterOne, AfterTwo

LEMMA Entry1Seen ==
  ASSUME DemoStep, SeenFirst, ReadEntry(1, "entry1", "head1", "entry1")
  PROVE  SeenFirst' /\ SeenSecond'
<1>1. PastIsTrue /\ lagged \in BOOLEAN /\ Len(history[Claim]) \in Nat
  BY ClaimIsKnown, LenProperties DEF DemoStep, Progress, LogInv, TypeOK
<1>2. Gets("entry1", "head1", "entry1") /\ IsEntry(rep'["entry1"], 1)
  BY <1>1, EntrySeen
<1>3. /\ pc = "entry1" /\ pc' = "head1" /\ head' = head /\ history' = history
      /\ (~lagged' => ~lagged)
  BY <1>2 DEF Gets, vars
<1>4. ASSUME ~lagged', Len(head[Us]) = 1
      PROVE  Entry1OK'
  <2>1. /\ Len(history[Claim]) = 1 /\ SaysOutcome(history[Claim][1], 1)
        /\ registryStatus[Claim] = Outcome(1)
    BY <1>3, <1>4, OneVerdict DEF DemoStep, AfterOne
  <2>2. /\ Outcome(1)' = Outcome(1)
        /\ \A e, i : SaysOutcome(e, i)' <=> SaysOutcome(e, i)
    BY ChainIsFixed, OutcomesAreFixed
  <2>3. SaysOutcome(rep'["entry1"], 1)
    BY <1>2, <2>1 DEF IsEntry, VerdictOf, SaysOutcome
  <2>4. QED
    BY <1>2, <2>2, <2>3 DEF Entry1OK, Gets
<1>5. ASSUME ~lagged', Len(head[Us]) = 1
      PROVE  Length1OK'
  BY <1>2, <1>3, <1>5, OthersAreKept DEF SeenFirst, AfterOne
<1>6. QED
  BY <1>3, <1>4, <1>5 DEF SeenFirst, SeenSecond, AfterOne, AfterTwo

LEMMA Head1Seen ==
  ASSUME DemoStep, SeenFirst, ReadHead("head1", "answer1", "head1")
  PROVE  SeenFirst' /\ SeenSecond'
<1>1. PastIsTrue /\ lagged \in BOOLEAN /\ Len(history[Claim]) \in Nat
  BY ClaimIsKnown, LenProperties DEF DemoStep, Progress, LogInv, TypeOK
<1>2. Gets("head1", "answer1", "head1") /\ (~lagged' => rep'["head1"] = head[Us])
  BY <1>1, HeadSeen
<1>3. /\ pc = "head1" /\ pc' = "answer1" /\ head' = head /\ history' = history
      /\ (~lagged' => ~lagged)
  BY <1>2 DEF Gets, vars
<1>4. ASSUME ~lagged', Len(head[Us]) = 1
      PROVE  Head1OK'
  <2>1. /\ Len(history[Claim]) = 1 /\ SaysOutcome(history[Claim][1], 1)
        /\ registryStatus[Claim] = Outcome(1)
    BY <1>3, <1>4, OneVerdict DEF DemoStep, AfterOne
  <2>2. /\ Outcome(1)' = Outcome(1)
        /\ \A e, i : SaysOutcome(e, i)' <=> SaysOutcome(e, i)
    BY ChainIsFixed, OutcomesAreFixed
  <2>3. QED
    BY <1>2, <1>3, <1>4 DEF Head1OK, Gets
<1>5. ASSUME ~lagged', Len(head[Us]) = 1
      PROVE  Length1OK' /\ Entry1OK'
  BY <1>2, <1>3, <1>5, OthersAreKept DEF SeenFirst, AfterOne
<1>6. QED
  BY <1>3, <1>4, <1>5 DEF SeenFirst, SeenSecond, AfterOne, AfterTwo

LEMMA Answer1Seen ==
  ASSUME DemoStep, SeenFirst, ReadAnswer("answer1", "tamper", "answer1")
  PROVE  SeenFirst' /\ SeenSecond'
<1>1. PastIsTrue /\ lagged \in BOOLEAN /\ Len(history[Claim]) \in Nat
  BY ClaimIsKnown, LenProperties DEF DemoStep, Progress, LogInv, TypeOK
<1>2. Gets("answer1", "tamper", "answer1") /\ (~lagged' => rep'["answer1"] = registryStatus[Claim])
  BY <1>1, AnswerSeen
<1>3. /\ pc = "answer1" /\ pc' = "tamper" /\ head' = head /\ history' = history
      /\ (~lagged' => ~lagged)
  BY <1>2 DEF Gets, vars
<1>4. ASSUME ~lagged', Len(head[Us]) = 1
      PROVE  Answer1OK'
  <2>1. /\ Len(history[Claim]) = 1 /\ SaysOutcome(history[Claim][1], 1)
        /\ registryStatus[Claim] = Outcome(1)
    BY <1>3, <1>4, OneVerdict DEF DemoStep, AfterOne
  <2>2. /\ Outcome(1)' = Outcome(1)
        /\ \A e, i : SaysOutcome(e, i)' <=> SaysOutcome(e, i)
    BY ChainIsFixed, OutcomesAreFixed
  <2>3. QED
    BY <1>2, <1>4, <2>1, <2>2 DEF Answer1OK, Gets
<1>5. ASSUME ~lagged', Len(head[Us]) = 1
      PROVE  Length1OK' /\ Entry1OK' /\ Head1OK'
  BY <1>2, <1>3, <1>5, OthersAreKept DEF SeenFirst, AfterOne
<1>6. QED
  BY <1>3, <1>4, <1>5 DEF SeenFirst, SeenSecond, AfterOne, AfterTwo

LEMMA LengthCSeen ==
  ASSUME DemoStep, SeenFirst, ReadLength("lengthC", "record2", "lengthC")
  PROVE  SeenFirst' /\ SeenSecond'
<1>1. PastIsTrue /\ lagged \in BOOLEAN /\ Len(history[Claim]) \in Nat
  BY ClaimIsKnown, LenProperties DEF DemoStep, Progress, LogInv, TypeOK
<1>2. Gets("lengthC", "record2", "lengthC") /\ (~lagged' => rep'["lengthC"] = Len(history[Claim]))
  BY <1>1, LengthSeen
<1>3. /\ pc = "lengthC" /\ pc' = "record2" /\ head' = head /\ history' = history
      /\ (~lagged' => ~lagged)
  BY <1>2 DEF Gets, vars
<1>4. ASSUME ~lagged', Len(head[Us]) = 1
      PROVE  LengthCOK'
  <2>1. /\ Len(history[Claim]) = 1 /\ SaysOutcome(history[Claim][1], 1)
        /\ registryStatus[Claim] = Outcome(1)
    BY <1>3, <1>4, OneVerdict DEF DemoStep, AfterOne
  <2>2. /\ Outcome(1)' = Outcome(1)
        /\ \A e, i : SaysOutcome(e, i)' <=> SaysOutcome(e, i)
    BY ChainIsFixed, OutcomesAreFixed
  <2>3. QED
    BY <1>2, <1>4, <2>1, <2>2 DEF LengthCOK, Gets
<1>5. ASSUME ~lagged', Len(head[Us]) = 1
      PROVE  Length1OK' /\ Entry1OK' /\ Head1OK' /\ Answer1OK'
  BY <1>2, <1>3, <1>5, OthersAreKept DEF SeenFirst, AfterOne
<1>6. QED
  BY <1>3, <1>4, <1>5 DEF SeenFirst, SeenSecond, AfterOne, AfterTwo

LEMMA Length2Seen ==
  ASSUME DemoStep, SeenSecond, ReadLength("length2", "entry2", "length2")
  PROVE  SeenFirst' /\ SeenSecond'
<1>1. PastIsTrue /\ lagged \in BOOLEAN /\ Len(history[Claim]) \in Nat
  BY ClaimIsKnown, LenProperties DEF DemoStep, Progress, LogInv, TypeOK
<1>2. Gets("length2", "entry2", "length2") /\ (~lagged' => rep'["length2"] = Len(history[Claim]))
  BY <1>1, LengthSeen
<1>3. /\ pc = "length2" /\ pc' = "entry2" /\ head' = head /\ history' = history
      /\ (~lagged' => ~lagged)
  BY <1>2 DEF Gets, vars
<1>4. ASSUME ~lagged', Len(head[Us]) = 2
      PROVE  Length2OK'
  <2>1. /\ Len(history[Claim]) = 2 /\ SaysOutcome(history[Claim][2], 2)
        /\ registryStatus[Claim] = Outcome(2)
    BY <1>3, <1>4, TwoVerdicts DEF DemoStep, AfterTwo
  <2>2. /\ Outcome(2)' = Outcome(2)
        /\ \A e, i : SaysOutcome(e, i)' <=> SaysOutcome(e, i)
    BY ChainIsFixed, OutcomesAreFixed
  <2>3. QED
    BY <1>2, <1>4, <2>1, <2>2 DEF Length2OK, Gets
<1>5. ASSUME ~lagged', Len(head[Us]) = 2
      PROVE  /\ Length1OK' /\ Entry1OK' /\ Answer1OK' /\ LengthCOK'
             /\ "head1" \in DOMAIN rep' /\ rep'["head1"] = rep["head1"]
             /\ Len(rep["head1"]) = 1
             /\ history[Claim][2].prevEntry = rep["head1"]
  <2>1. /\ Length1OK /\ Entry1OK /\ Answer1OK /\ LengthCOK
        /\ "head1" \in DOMAIN rep
        /\ Len(rep["head1"]) = 1
        /\ history[Claim][2].prevEntry = rep["head1"]
    BY <1>3, <1>5 DEF SeenSecond, AfterTwo
  <2>2. "head1" \in DOMAIN rep' /\ rep'["head1"] = rep["head1"]
    BY <1>2, <2>1 DEF Gets
  <2>3. QED
    BY <1>2, <2>1, <2>2, OthersAreKept
<1>6. QED
  BY <1>3, <1>4, <1>5 DEF SeenFirst, SeenSecond, AfterOne, AfterTwo

LEMMA Entry2Seen ==
  ASSUME DemoStep, SeenSecond, ReadEntry(2, "entry2", "head2", "entry2")
  PROVE  SeenFirst' /\ SeenSecond'
<1>1. PastIsTrue /\ lagged \in BOOLEAN /\ Len(history[Claim]) \in Nat
  BY ClaimIsKnown, LenProperties DEF DemoStep, Progress, LogInv, TypeOK
<1>2. Gets("entry2", "head2", "entry2") /\ IsEntry(rep'["entry2"], 2)
  BY <1>1, EntrySeen
<1>3. /\ pc = "entry2" /\ pc' = "head2" /\ head' = head /\ history' = history
      /\ (~lagged' => ~lagged)
  BY <1>2 DEF Gets, vars
<1>4. ASSUME ~lagged', Len(head[Us]) = 2
      PROVE  Entry2OK'
  <2>1. /\ Len(history[Claim]) = 2 /\ SaysOutcome(history[Claim][2], 2)
        /\ registryStatus[Claim] = Outcome(2)
    BY <1>3, <1>4, TwoVerdicts DEF DemoStep, AfterTwo
  <2>2. /\ Outcome(2)' = Outcome(2)
        /\ \A e, i : SaysOutcome(e, i)' <=> SaysOutcome(e, i)
    BY ChainIsFixed, OutcomesAreFixed
  <2>3. SaysOutcome(rep'["entry2"], 2)
    BY <1>2, <2>1 DEF IsEntry, VerdictOf, SaysOutcome
  <2>5. rep'["head1"] = rep["head1"] /\ history[Claim][2].prevEntry = rep["head1"]
    BY <1>2, <1>3, <1>4 DEF SeenSecond, AfterTwo, Gets
  <2>6. rep'["entry2"].prevEntry = history[Claim][2].prevEntry
    BY <1>2 DEF IsEntry, VerdictOf
  <2>4. QED
    BY <1>2, <2>2, <2>3, <2>5, <2>6 DEF Entry2OK, Gets
<1>5. ASSUME ~lagged', Len(head[Us]) = 2
      PROVE  /\ Length1OK' /\ Entry1OK' /\ Answer1OK' /\ LengthCOK'
             /\ "head1" \in DOMAIN rep' /\ rep'["head1"] = rep["head1"]
             /\ Len(rep["head1"]) = 1
             /\ history[Claim][2].prevEntry = rep["head1"]
             /\ Length2OK'
  <2>1. /\ Length1OK /\ Entry1OK /\ Answer1OK /\ LengthCOK
        /\ "head1" \in DOMAIN rep
        /\ Len(rep["head1"]) = 1
        /\ history[Claim][2].prevEntry = rep["head1"]
        /\ Length2OK
    BY <1>3, <1>5 DEF SeenSecond, AfterTwo
  <2>2. "head1" \in DOMAIN rep' /\ rep'["head1"] = rep["head1"]
    BY <1>2, <2>1 DEF Gets
  <2>3. QED
    BY <1>2, <2>1, <2>2, OthersAreKept
<1>6. QED
  BY <1>3, <1>4, <1>5 DEF SeenFirst, SeenSecond, AfterOne, AfterTwo

LEMMA Head2Seen ==
  ASSUME DemoStep, SeenSecond, ReadHead("head2", "answer2", "head2")
  PROVE  SeenFirst' /\ SeenSecond'
<1>1. PastIsTrue /\ lagged \in BOOLEAN /\ Len(history[Claim]) \in Nat
  BY ClaimIsKnown, LenProperties DEF DemoStep, Progress, LogInv, TypeOK
<1>2. Gets("head2", "answer2", "head2") /\ (~lagged' => rep'["head2"] = head[Us])
  BY <1>1, HeadSeen
<1>3. /\ pc = "head2" /\ pc' = "answer2" /\ head' = head /\ history' = history
      /\ (~lagged' => ~lagged)
  BY <1>2 DEF Gets, vars
<1>4. ASSUME ~lagged', Len(head[Us]) = 2
      PROVE  Head2OK'
  <2>1. /\ Len(history[Claim]) = 2 /\ SaysOutcome(history[Claim][2], 2)
        /\ registryStatus[Claim] = Outcome(2)
    BY <1>3, <1>4, TwoVerdicts DEF DemoStep, AfterTwo
  <2>2. /\ Outcome(2)' = Outcome(2)
        /\ \A e, i : SaysOutcome(e, i)' <=> SaysOutcome(e, i)
    BY ChainIsFixed, OutcomesAreFixed
  <2>3. QED
    BY <1>2, <1>3, <1>4 DEF Head2OK, Gets
<1>5. ASSUME ~lagged', Len(head[Us]) = 2
      PROVE  /\ Length1OK' /\ Entry1OK' /\ Answer1OK' /\ LengthCOK'
             /\ "head1" \in DOMAIN rep' /\ rep'["head1"] = rep["head1"]
             /\ Len(rep["head1"]) = 1
             /\ history[Claim][2].prevEntry = rep["head1"]
             /\ Length2OK' /\ Entry2OK'
  <2>1. /\ Length1OK /\ Entry1OK /\ Answer1OK /\ LengthCOK
        /\ "head1" \in DOMAIN rep
        /\ Len(rep["head1"]) = 1
        /\ history[Claim][2].prevEntry = rep["head1"]
        /\ Length2OK
        /\ Entry2OK
    BY <1>3, <1>5 DEF SeenSecond, AfterTwo
  <2>2. "head1" \in DOMAIN rep' /\ rep'["head1"] = rep["head1"]
    BY <1>2, <2>1 DEF Gets
  <2>3. QED
    BY <1>2, <2>1, <2>2, OthersAreKept
<1>6. QED
  BY <1>3, <1>4, <1>5 DEF SeenFirst, SeenSecond, AfterOne, AfterTwo

LEMMA Answer2Seen ==
  ASSUME DemoStep, SeenSecond, ReadAnswer("answer2", "saved", "answer2")
  PROVE  SeenFirst' /\ SeenSecond'
<1>1. PastIsTrue /\ lagged \in BOOLEAN /\ Len(history[Claim]) \in Nat
  BY ClaimIsKnown, LenProperties DEF DemoStep, Progress, LogInv, TypeOK
<1>2. Gets("answer2", "saved", "answer2") /\ (~lagged' => rep'["answer2"] = registryStatus[Claim])
  BY <1>1, AnswerSeen
<1>3. /\ pc = "answer2" /\ pc' = "saved" /\ head' = head /\ history' = history
      /\ (~lagged' => ~lagged)
  BY <1>2 DEF Gets, vars
<1>4. ASSUME ~lagged', Len(head[Us]) = 2
      PROVE  Answer2OK'
  <2>1. /\ Len(history[Claim]) = 2 /\ SaysOutcome(history[Claim][2], 2)
        /\ registryStatus[Claim] = Outcome(2)
    BY <1>3, <1>4, TwoVerdicts DEF DemoStep, AfterTwo
  <2>2. /\ Outcome(2)' = Outcome(2)
        /\ \A e, i : SaysOutcome(e, i)' <=> SaysOutcome(e, i)
    BY ChainIsFixed, OutcomesAreFixed
  <2>3. QED
    BY <1>2, <1>4, <2>1, <2>2 DEF Answer2OK, Gets
<1>5. ASSUME ~lagged', Len(head[Us]) = 2
      PROVE  /\ Length1OK' /\ Entry1OK' /\ Answer1OK' /\ LengthCOK'
             /\ "head1" \in DOMAIN rep' /\ rep'["head1"] = rep["head1"]
             /\ Len(rep["head1"]) = 1
             /\ history[Claim][2].prevEntry = rep["head1"]
             /\ Length2OK' /\ Entry2OK' /\ Head2OK'
  <2>1. /\ Length1OK /\ Entry1OK /\ Answer1OK /\ LengthCOK
        /\ "head1" \in DOMAIN rep
        /\ Len(rep["head1"]) = 1
        /\ history[Claim][2].prevEntry = rep["head1"]
        /\ Length2OK
        /\ Entry2OK
        /\ Head2OK
    BY <1>3, <1>5 DEF SeenSecond, AfterTwo
  <2>2. "head1" \in DOMAIN rep' /\ rep'["head1"] = rep["head1"]
    BY <1>2, <2>1 DEF Gets
  <2>3. QED
    BY <1>2, <2>1, <2>2, OthersAreKept
<1>6. QED
  BY <1>3, <1>4, <1>5 DEF SeenFirst, SeenSecond, AfterOne, AfterTwo

\* The second verdict is appended to what checks B and C saw, if nobody intervened.
LEMMA SecondRecorded ==
  ASSUME DemoStep, SeenFirst, Record(2, "record2", "length2")
  PROVE  SeenFirst' /\ SeenSecond'
<1>1. /\ pc = "record2" /\ pc' \in {"length2", "dead"}
      /\ UNCHANGED <<even, rep, lagged>>
  BY DEF Record, Send
<1>2. InputsBound
  BY <1>1 DEF DemoStep, Progress, AfterOne, AfterTwo
<1>3. PICK n : n = Len(history[Claim]) + 1
  OBVIOUS
<1>4. /\ history'[Claim][n].prevEntry = head[Us]
      /\ Len(head'[Us]) = Len(head[Us]) + 1
  BY <1>2, <1>3, RunRecords DEF DemoStep
<1>5. ASSUME ~lagged', Len(head'[Us]) = 2
      PROVE  /\ Length1OK' /\ Entry1OK' /\ Answer1OK' /\ LengthCOK'
             /\ "head1" \in DOMAIN rep' /\ Len(rep'["head1"]) = 1
             /\ history'[Claim][2].prevEntry = rep'["head1"]
  <2>1. Len(head[Us]) = 1
    <3>1. Len(head[Us]) \in Nat
      BY VerdictsCount DEF DemoStep
    <3>2. \A k \in Nat : k + 1 = 2 => k = 1
      OBVIOUS
    <3>3. QED
      BY <1>4, <1>5, <3>1, <3>2
  <2>2. Length1OK /\ Entry1OK /\ Head1OK /\ Answer1OK /\ LengthCOK
    BY <1>1, <1>5, <2>1 DEF SeenFirst, AfterOne
  <2>3. n = 2
    <3>1. Len(history[Claim]) = 1
      BY <1>1, <2>1, OneVerdict DEF DemoStep, AfterOne
    <3>2. QED
      BY <1>3, <3>1
  <2>4. /\ Outcome(1)' = Outcome(1)
        /\ \A e, i : SaysOutcome(e, i)' <=> SaysOutcome(e, i)
    BY <1>1, OutcomesAreFixed
  <2>5. Length1OK' /\ Entry1OK' /\ Answer1OK' /\ LengthCOK'
    BY <1>1, <2>2, <2>4 DEF Length1OK, Entry1OK, Answer1OK, LengthCOK
  <2>6. QED
    BY <1>1, <1>4, <2>1, <2>2, <2>3, <2>5 DEF Head1OK
<1>6. QED
  BY <1>1, <1>5 DEF SeenFirst, SeenSecond, AfterOne, AfterTwo

\* The audit reads once more, and leaves what the run read.
LEMMA AuditKeeps ==
  ASSUME DemoStep, SeenSecond, Audit
  PROVE  SeenFirst' /\ SeenSecond'
<1>1. /\ pc = "saved" /\ pc' = "audited" /\ UNCHANGED <<vars, even, past, lagged, strangers>>
      /\ DOMAIN rep' = DOMAIN rep \cup {"audit", "current"}
      /\ \A f \in DOMAIN rep : f \notin {"audit", "current"} => rep'[f] = rep[f]
  BY DEF Audit
<1>2. /\ Outcome(1)' = Outcome(1) /\ Outcome(2)' = Outcome(2)
      /\ \A e, i : SaysOutcome(e, i)' <=> SaysOutcome(e, i)
  BY <1>1, OutcomesAreFixed
<1>3. /\ Length1OK => Length1OK'
      /\ Entry1OK => Entry1OK'
      /\ Answer1OK => Answer1OK'
      /\ LengthCOK => LengthCOK'
      /\ Length2OK => Length2OK'
      /\ "head1" \in DOMAIN rep /\ Entry2OK => Entry2OK'
      /\ Head2OK => Head2OK'
      /\ Answer2OK => Answer2OK'
      /\ "head1" \in DOMAIN rep => "head1" \in DOMAIN rep' /\ rep'["head1"] = rep["head1"]
  BY <1>1, <1>2 DEF Length1OK, Entry1OK, Answer1OK, LengthCOK, Length2OK, Entry2OK, Head2OK,
     Answer2OK
<1>4. history' = history /\ head' = head /\ lagged' = lagged
  BY <1>1 DEF vars
<1>5. SeenFirst'
  BY <1>1 DEF SeenFirst, AfterOne
<1>6. ASSUME ~lagged', Len(head'[Us]) = 2
      PROVE  /\ Length1OK' /\ Entry1OK' /\ Answer1OK' /\ LengthCOK'
             /\ "head1" \in DOMAIN rep' /\ Len(rep'["head1"]) = 1
             /\ history'[Claim][2].prevEntry = rep'["head1"]
             /\ Length2OK' /\ Entry2OK' /\ Head2OK' /\ Answer2OK'
  <2>1. /\ Length1OK /\ Entry1OK /\ Answer1OK /\ LengthCOK
        /\ "head1" \in DOMAIN rep /\ Len(rep["head1"]) = 1
        /\ history[Claim][2].prevEntry = rep["head1"]
        /\ Length2OK /\ Entry2OK /\ Head2OK /\ Answer2OK
    BY <1>1, <1>4, <1>6 DEF SeenSecond, AfterTwo
  <2>2. QED
    BY <1>3, <1>4, <2>1
<1>7. QED
  BY <1>5, <1>6 DEF SeenSecond

\* Every step keeps what the checks have seen.
LEMMA SeenStep == DemoStep /\ SeenFirst /\ SeenSecond => SeenFirst' /\ SeenSecond'
<1> SUFFICES ASSUME DemoStep, SeenFirst, SeenSecond PROVE SeenFirst' /\ SeenSecond'
  OBVIOUS
<1>1. CASE OpenRequest \/ Commit \/ Record(1, "record1", "length1")
  <2>1. pc' \in {"commit", "record1", "length1", "dead"}
    BY <1>1 DEF OpenRequest, Commit, Record, Send
  <2>2. QED
    BY <2>1 DEF SeenFirst, SeenSecond, AfterOne, AfterTwo
<1>2. CASE CheckB
  BY <1>2, Length1Seen, Entry1Seen, Head1Seen, Answer1Seen DEF CheckB
<1>3. CASE CheckC
  BY <1>3, LengthCSeen DEF CheckC
<1>4. CASE Record(2, "record2", "length2")
  BY <1>4, SecondRecorded
<1>5. CASE CheckD
  BY <1>5, Length2Seen, Entry2Seen, Head2Seen, Answer2Seen DEF CheckD
<1>6. CASE Tamper \/ Die \/ Stranger \/ UNCHANGED <<vars, demoVars>>
  <2>1. /\ rep' = rep /\ lagged' = lagged
        /\ pc' = pc \/ pc' = "dead" \/ (pc = "tamper" /\ pc' = "lengthC")
    BY <1>6 DEF Tamper, Die, Stranger, demoVars
  <2>2. QED
    BY <2>1, SeenIsKept
<1>7. CASE Audit
  BY <1>7, AuditKeeps
<1>8. QED
  BY <1>1, <1>2, <1>3, <1>4, <1>5, <1>6, <1>7 DEF DemoStep, DemoNext

\* What a current node shows is the latest entry, whoever recorded it.
LEMMA AuditMeansStep == DemoStep /\ AuditMeansLatest => AuditMeansLatest'
<1> SUFFICES ASSUME DemoStep, AuditMeansLatest PROVE AuditMeansLatest'
  OBVIOUS
<1>1. CASE Audit
  <2>1. PICK n \in Nodes :
          /\ rep' = [f \in DOMAIN rep \cup {"audit", "current"} |->
                       CASE f = "audit" -> AuditOK(past[n].answer)
                         [] f = "current" -> n = Len(past)
                         [] OTHER -> rep[f]]
    BY <1>1 DEF Audit
  <2>2. pc = "saved" /\ UNCHANGED <<vars, even>>
    BY <1>1 DEF Audit
  <2>3. rep'["audit"] = AuditOK(past[n].answer) /\ rep'["current"] = (n = Len(past))
    BY <2>1
  <2>4. /\ Accepted(1) /\ Accepted(2) /\ ~Tampered /\ RequestOpen /\ InputsBound /\ BothLogged
    BY <2>2 DEF DemoStep, Progress, AfterTwo
  <2>5. past[Len(past)].answer = registryStatus[Claim]
    BY DEF DemoStep, PastIsTrue, View
  <2>6. registryStatus[Claim] = [response |-> Last(history[Claim]).response,
                                 responseHash |-> Last(history[Claim]).responseHash]
    <3>1. registryRequest[Claim] # None /\ registryRequest[Claim].validator = This
      BY <2>4, NoneAssumption, ClaimIsKnown, ThisAssumption DEF RequestOpen
    <3>2. history[Claim] # <<>>
      BY <2>4 DEF BothLogged
    <3>3. QED
      BY <3>1, <3>2, ClaimIsKnown DEF DemoStep, LogInv, RegistryMirrorsLatest, RegistryAccepts
  <2>7. AuditOK(registryStatus[Claim]) = (registryStatus[Claim] = Outcome(2))
    <3>1. \A i \in 1 .. 2 : <<ProofOf[ContextNo(i)], ContextNo(i)>> \in Accepts
      <4>1. \A i \in 1 .. 2 : i = 1 \/ i = 2
        OBVIOUS
      <4>2. QED
        BY <2>4, <4>1 DEF Accepted
    <3>2. QED
      BY <2>4, <3>1, Zenon DEF AuditOK, Tampered
  <2>8. (registryStatus[Claim] = Outcome(2)) = SaysOutcome(Last(history[Claim]), 2)
    BY <2>6 DEF SaysOutcome, Outcome
  <2>9. SaysOutcome(Last(history[Claim]), 2)' = SaysOutcome(Last(history[Claim]), 2)
    <3>1. Outcome(2)' = Outcome(2)
      BY <2>2, OutcomesAreFixed
    <3>2. history' = history
      BY <2>2 DEF vars
    <3>3. QED
      BY <3>1, <3>2 DEF SaysOutcome
  <2>10. ASSUME rep'["current"] PROVE rep'["audit"] = SaysOutcome(Last(history[Claim]), 2)'
    <3>1. n = Len(past)
      BY <2>3, <2>10
    <3>2. rep'["audit"] = AuditOK(registryStatus[Claim])
      BY <2>3, <2>5, <3>1
    <3>3. QED
      BY <2>7, <2>8, <2>9, <3>2
  <2>11. QED
    BY <2>10 DEF AuditMeansLatest
<1>2. ASSUME ~Audit PROVE pc' # "audited" \/ UNCHANGED <<vars, demoVars>>
  BY <1>2 DEF DemoStep, DemoNext, OpenRequest, Commit, Record, Send, CheckB, CheckC, CheckD,
     ReadLength, ReadHead, ReadAnswer, ReadEntry, Read, Tamper, Die, Stranger
<1>3. CASE UNCHANGED <<vars, demoVars>>
  <2>1. Outcome(2)' = Outcome(2) /\ history' = history /\ rep' = rep /\ pc' = pc
    BY <1>3, OutcomesAreFixed DEF vars, demoVars
  <2>2. QED
    BY <2>1 DEF AuditMeansLatest, SaysOutcome
<1>4. CASE pc' # "audited"
  BY <1>4 DEF AuditMeansLatest
<1>5. QED
  BY <1>1, <1>2, <1>3, <1>4

\* A set of numbers has a least one.
LEMMA LeastNumber ==
  ASSUME NEW T, T \subseteq Nat, T # {}
  PROVE  \E n \in T : \A m \in T : n <= m
<1> DEFINE R == OpToRel(<, Nat)
<1>1. IsWellFoundedOn(R, Nat)
  BY NatLessThanWellFounded
<1>2. \A m, n \in Nat : m < n => <<m, n>> \in R
  BY DEF OpToRel
<1> HIDE DEF R
<1>3. \E n \in T : \A m \in T : <<m, n>> \notin R
  BY <1>1, WFMin
<1>4. ASSUME NEW n \in T, NEW m \in T, <<m, n>> \notin R PROVE n <= m
  <2>1. n \in Nat /\ m \in Nat
    OBVIOUS
  <2>2. ~(m < n)
    BY <1>2, <1>4, <2>1
  <2>3. QED
    BY <2>1, <2>2
<1>5. QED
  BY <1>3, <1>4

\* The two blocks of the run differ in their verdicts whenever two neighbours do.
LEMMA FirstMove == (Outcome(1).response # Outcome(2).response) = (Moving # {})
<1>1. Outcome(1).response = ParityVerdict(B0) /\ Outcome(2).response = ParityVerdict(B0 + 1)
  <2>1. B0 \in Nat
    <3>1. Moving \subseteq Nat
      BY DEF Moving
    <3>2. Moving # {} => Min(Moving) \in Moving
      BY <3>1, LeastNumber DEF Min
    <3>3. QED
      BY <3>1, <3>2 DEF B0
  <2>2. B0 + 1 - 1 = B0 /\ B0 + 2 - 1 = B0 + 1
    BY <2>1
  <2>3. QED
    BY <2>2 DEF Outcome
<1>2. Moving # {} => B0 \in Moving
  <2>1. Moving \subseteq Nat
    BY DEF Moving
  <2>2. Moving # {} => Min(Moving) \in Moving
    BY <2>1, LeastNumber DEF Min
  <2>3. QED
    BY <2>2 DEF B0
<1>3. Moving = {} => ParityVerdict(B0) = ParityVerdict(B0 + 1)
  <2>1. 0 \in 0 .. Window - 1
    BY WindowAssumption
  <2>2. QED
    BY <2>1 DEF Moving, B0
<1>4. QED
  BY <1>1, <1>2, <1>3 DEF Moving

\* The inductive invariant holds in the beginning, and every step keeps it.
LEMMA DemoBegin == DemoInit => LogInv /\ DemoInv
<1> SUFFICES ASSUME DemoInit PROVE LogInv /\ DemoInv
  OBVIOUS
<1>1. LogInv
  BY LogBegin DEF DemoInit
<1>2. PastIsTrue
  <2>1. View \in ViewType
    BY <1>1, ClaimIsKnown DEF View, ViewType, LogInv, TypeOK
  <2>2. View.entries = <<>> /\ history[Claim] = <<>>
    BY ClaimIsKnown DEF DemoInit, Init, View
  <2> DEFINE v == View
  <2>3. past = <<v>> /\ v.entries = <<>> /\ history[Claim] = <<>> /\ v \in ViewType
    BY <2>1, <2>2 DEF DemoInit
  <2> HIDE DEF v
  <2>4. past \in Seq(ViewType) /\ Len(past) = 1 /\ past[1] = v
    BY <2>3
  <2>5. QED
    BY <2>3, <2>4 DEF PastIsTrue, v
<1>3. Progress /\ SeenFirst /\ SeenSecond
  BY DEF DemoInit, Progress, SeenFirst, SeenSecond, AfterOne, AfterTwo
<1>4. EntriesReadAreTrue /\ AuditMeansLatest
  BY DEF DemoInit, EntriesReadAreTrue, AuditMeansLatest
<1>5. QED
  BY <1>1, <1>2, <1>3, <1>4 DEF DemoInv

LEMMA DemoKeeps == LogInv /\ DemoInv /\ [DemoNext]_<<vars, demoVars>> => LogInv' /\ DemoInv'
<1> SUFFICES ASSUME LogInv, DemoInv, [DemoNext]_<<vars, demoVars>> PROVE LogInv' /\ DemoInv'
  OBVIOUS
<1>1. [Next]_vars
  BY DemoStepIsCall DEF vars
<1>2. LogInv' /\ LogGrows
  BY <1>1, StepGrows
<1>3. PastIsTrue'
  BY <1>2, PastStep DEF DemoInv, Progress
<1>4. DemoStep
  BY <1>2, <1>3 DEF DemoStep, DemoInv
<1>5. QED
  BY <1>2, <1>3, <1>4, ProgressStep, SeenStep, EntriesStep, AuditMeansStep DEF DemoInv

LEMMA DemoInvariant == DemoSpec => [](LogInv /\ DemoInv)
BY DemoBegin, DemoKeeps, PTL DEF DemoSpec

\* The state file that the run saves is true of the chain for ever.
THEOREM SavedStaysOnChain == DemoSpec => []SavedIsOnChain
<1>1. LogInv /\ DemoInv => SavedIsOnChain
  <2> SUFFICES ASSUME LogInv, DemoInv, Saved PROVE SavedIsOnChain
    BY DEF SavedIsOnChain
  <2>1. RequestOpen /\ InputsBound /\ BothLogged
    BY DEF DemoInv, Progress, Saved, AfterTwo
  <2>2. DOMAIN history[Claim] = 1 .. Len(history[Claim])
    BY ClaimIsKnown, LenProperties DEF LogInv, TypeOK
  <2>3. QED
    BY <2>1, <2>2 DEF SavedIsOnChain, RequestOpen, InputsBound, BothLogged, Logged
<1>2. QED
  BY <1>1, DemoInvariant, PTL

\* The acceptance checks report what they should when nobody disturbs them.
THEOREM UndisturbedChecksHold == DemoSpec => []ChecksHold
<1>1. LogInv /\ DemoInv => ChecksHold
  <2> SUFFICES ASSUME LogInv, DemoInv, Saved, ~lagged, Len(head[Us]) = 2 PROVE ChecksHold
    BY DEF ChecksHold
  <2>1. /\ Length1OK /\ Entry1OK /\ Answer1OK /\ LengthCOK
        /\ Len(rep["head1"]) = 1
        /\ Length2OK /\ Entry2OK /\ Head2OK /\ Answer2OK
    BY DEF DemoInv, SeenSecond, Saved, AfterTwo
  <2>2. rep["head2"] # rep["head1"]
    BY <2>1 DEF Head2OK
  <2>3. (rep["answer2"].response # rep["answer1"].response) = (Moving # {})
    BY <2>1, FirstMove DEF Answer1OK, Answer2OK
  <2>4. QED
    BY <2>1, <2>2, <2>3 DEF ChecksHold, Length1OK, Entry1OK, Answer1OK, LengthCOK, Length2OK,
       Entry2OK, Answer2OK
<1>2. QED
  BY <1>1, DemoInvariant, PTL

\* An entry that the run has read is the entry, also when the node was behind.
THEOREM ReadEntriesAreTrue == DemoSpec => []EntriesReadAreTrue
<1>1. DemoInv => EntriesReadAreTrue
  BY DEF DemoInv
<1>2. QED
  BY <1>1, DemoInvariant, PTL

\* An audit of a current node passes exactly if the last saved verdict is the latest.
THEOREM AuditShowsLatest == DemoSpec => []AuditMeansLatest
<1>1. DemoInv => AuditMeansLatest
  BY DEF DemoInv
<1>2. QED
  BY <1>1, DemoInvariant, PTL

================================================================================
