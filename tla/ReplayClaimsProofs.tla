--------------------------- MODULE ReplayClaimsProofs ---------------------------
(****************************************************************************)
(* Theorems about the life of a claim, for every set of claims, blocks and  *)
(* answers of others, and any number of reorganisations and audits.         *)
(****************************************************************************)
EXTENDS ReplayClaims, SequenceTheorems, TLAPS

\* What an auditor replays, by the rule of the claim.
Replay(b) == IF claim.rule = "parity" THEN ParityVerdict(b) ELSE TxCountVerdict(b.txCount)

\* A resolved attestation is of the outcome of a block, once there is one.
Attested ==
  /\ attestation # None
  /\ attestation.root \in Evidence
  /\ attestation.root.verdict = Outcome(attestation.root.block)
  /\ attestation.verdict = IF attestation.root.verdict = 100 THEN "PASS" ELSE "FAIL"
  /\ Mined

OperatorOK ==
  /\ attestation # None =>
       Attested \/ (attestation.verdict = "INDETERMINATE" /\ attestation.root = None)
  /\ record # None =>
       Attested /\ record = Answer(attestation.root.verdict, attestation.root)

\* The registry shows the answer nobody gave, or one that was given; ours is the record.
RegistryOK ==
  /\ request = None => answers = {}
  /\ request # None => request.answer \in answers \cup {Answer(0, None)}
  /\ request # None /\ request.validator = Us => record # None \/ answers = {}
  /\ request # None /\ request.validator = Us => answers \subseteq {record}

\* Evidence is published before an audit begins, and an audit has read what was there.
AuditOK ==
  /\ audit.at \in {"idle", "status", claim.rule}
  /\ audit.at # "idle" =>
       /\ Attested /\ attestation.root # None
       /\ audit.answer \in answers \cup {Answer(0, None)}
       /\ audit.answer \in AnyAnswer
  /\ audit.at = claim.rule =>
       /\ Mined /\ audit.block \in Block
       /\ disturbed \/ audit.block = chain[claim.height]

ResultsOK ==
  \A x \in results :
    /\ Attested /\ attestation.root # None /\ Mined
    /\ x.answer \in answers \cup {Answer(0, None)}
    /\ disturbed \/ x.block = chain[claim.height]
    /\ x.passed = (EvidenceOK(x.answer) /\ x.answer.response = Replay(x.block))

ClaimInv ==
  /\ TypeOK /\ Len(chain) <= MaxHeight
  /\ OperatorOK /\ RegistryOK /\ AuditOK /\ ResultsOK

--------------------------------------------------------------------------------
(* The auditors' functions and the engine's words.                          *)

\* Both rules replay to the outcome by the words of the claim: a number is even if its
\* remainder by two is zero, and a count is above the threshold if it is not at most it.
LEMMA ReplayIsOutcome ==
  ASSUME claim \in Claim, NEW b \in Block
  PROVE  Replay(b) = Outcome(b) /\ Outcome(b) \in {0, 100}
<1>1. /\ claim.rule \in {"parity", "txcount"} /\ claim.threshold \in Nat
      /\ b.hash \in Nat /\ b.txCount \in Nat
  BY ClaimAssumption, BlockAssumption
<1>2. CASE claim.rule = "parity"
  <2>1. b.hash % 2 = 0 <=> \E k \in 0 .. b.hash : b.hash = 2 * k
    <3> DEFINE n == b.hash
    <3>1. n \in Nat
      BY <1>1
    <3> HIDE DEF n
    <3>2. n \div 2 \in 0 .. n /\ n = 2 * (n \div 2) + (n % 2)
      BY <3>1
    <3>3. ASSUME NEW k \in 0 .. n, n = 2 * k PROVE n % 2 = 0
      BY <3>1, <3>3
    <3>4. QED
      BY <3>1, <3>2, <3>3 DEF n
  <2>2. Outcome(b) = IF \E k \in 0 .. b.hash : b.hash = 2 * k THEN 100 ELSE 0
    BY <1>2 DEF Outcome
  <2>3. QED
    BY <1>2, <2>1, <2>2 DEF Replay, ParityVerdict
<1>3. CASE claim.rule = "txcount"
  <2>1. b.txCount > claim.threshold <=> ~(b.txCount <= claim.threshold)
    BY <1>1
  <2>2. Outcome(b) = IF b.txCount <= claim.threshold THEN 0 ELSE 100
    BY <1>3 DEF Outcome
  <2>3. QED
    BY <1>3, <2>1, <2>2 DEF Replay, TxCountVerdict
<1>4. QED
  BY <1>1, <1>2, <1>3

--------------------------------------------------------------------------------
(* The steps.                                                               *)

\* Bitcoin's blocks below the last one stay, and the claim's goes only if it is replaced.
LEMMA BitcoinStep ==
  ASSUME ClaimInv, NEW b \in Block, Mine(b) \/ Reorg(b)
  PROVE  ClaimInv'
<1>1. /\ chain \in Seq(Block) /\ Len(chain) \in Nat /\ claim.height \in Nat \ {0}
      /\ Len(chain) <= MaxHeight
  BY LenProperties, ClaimAssumption DEF ClaimInv, TypeOK
<1>2. UNCHANGED <<claim, operatorVars, registryVars, auditVars>>
  BY DEF Mine, Reorg
<1>3. /\ chain' \in Seq(Block) /\ Len(chain) <= Len(chain') /\ Len(chain') <= MaxHeight
      /\ reorgs' \in 0 .. MaxReorgs /\ disturbed' \in BOOLEAN
      /\ disturbed => disturbed'
      /\ Mined => disturbed' \/ chain'[claim.height] = chain[claim.height]
  <2>1. CASE Mine(b)
    <3>1. /\ chain' \in Seq(Block) /\ Len(chain') = Len(chain) + 1
          /\ \A i \in 1 .. Len(chain) : chain'[i] = chain[i]
      BY <1>1, <2>1, AppendProperties DEF Mine
    <3>2. Len(chain) < MaxHeight /\ reorgs' = reorgs /\ disturbed' = disturbed
      BY <2>1 DEF Mine
    <3>3. QED
      BY <1>1, <3>1, <3>2, BoundsAssumption DEF Mined, ClaimInv, TypeOK
  <2>2. CASE Reorg(b)
    <3>1. /\ chain # <<>> /\ chain' = [chain EXCEPT ![Len(chain)] = b]
          /\ reorgs < MaxReorgs /\ reorgs' = reorgs + 1
          /\ disturbed' = (disturbed \/ Len(chain) = claim.height)
      BY <2>2 DEF Reorg
    <3>2. /\ chain' \in Seq(Block) /\ Len(chain') = Len(chain)
          /\ \A i \in 1 .. Len(chain) : i # Len(chain) => chain'[i] = chain[i]
      BY <1>1, <3>1, ExceptSeq
    <3>3. ASSUME Mined
          PROVE  disturbed' \/ chain'[claim.height] = chain[claim.height]
      <4>1. claim.height \in 1 .. Len(chain)
        BY <1>1, <3>3 DEF Mined
      <4>2. QED
        BY <3>1, <3>2, <4>1
    <3>4. reorgs' \in 0 .. MaxReorgs /\ disturbed' \in BOOLEAN
      BY <3>1, BoundsAssumption DEF ClaimInv, TypeOK
    <3>5. disturbed => disturbed'
      BY <3>1
    <3>6. QED
      BY <1>1, <3>2, <3>3, <3>4, <3>5
  <2>3. QED
    BY <2>1, <2>2
<1>4. TypeOK' /\ (Len(chain) <= MaxHeight)'
  BY <1>2, <1>3 DEF ClaimInv, TypeOK, operatorVars, registryVars, auditVars
<1>5. Mined => Mined'
  BY <1>1, <1>2, <1>3, LenProperties DEF Mined
<1>6. /\ Attested => Attested'
      /\ \A a : Outcome(a)' = Outcome(a) /\ Replay(a)' = Replay(a)
  BY <1>2, <1>5 DEF Attested, Outcome, Replay, ParityVerdict, TxCountVerdict, operatorVars
<1>7. OperatorOK' /\ RegistryOK'
  BY <1>2, <1>6 DEF ClaimInv, OperatorOK, RegistryOK, operatorVars, registryVars
<1>8. AuditOK'
  BY <1>2, <1>3, <1>5, <1>6 DEF ClaimInv, AuditOK, operatorVars, registryVars, auditVars
<1>9. ResultsOK'
  BY <1>2, <1>3, <1>5, <1>6 DEF ClaimInv, ResultsOK, EvidenceOK, operatorVars, registryVars,
     auditVars
<1>10. QED
  BY <1>4, <1>7, <1>8, <1>9 DEF ClaimInv

\* What the registry and the auditors have stays as it is when they do not act.
LEMMA OthersStay ==
  ASSUME ClaimInv, UNCHANGED <<claim, bitcoinVars>>, Attested => UNCHANGED attestation
  PROVE  /\ Mined' = Mined
         /\ \A a : Outcome(a)' = Outcome(a) /\ Replay(a)' = Replay(a)
         /\ Attested => Attested'
         /\ UNCHANGED registryVars /\ UNCHANGED auditVars => AuditOK' /\ ResultsOK'
<1>1. Mined' = Mined
  BY DEF Mined, bitcoinVars
<1>2. \A a : Outcome(a)' = Outcome(a) /\ Replay(a)' = Replay(a)
  BY DEF Outcome, Replay, ParityVerdict, TxCountVerdict
<1>3. Attested => Attested'
  BY <1>1, <1>2 DEF Attested
<1>4. ASSUME UNCHANGED registryVars, UNCHANGED auditVars PROVE AuditOK' /\ ResultsOK'
  BY <1>1, <1>2, <1>3, <1>4 DEF ClaimInv, AuditOK, ResultsOK, EvidenceOK, registryVars,
     auditVars, bitcoinVars
<1>5. QED
  BY <1>1, <1>2, <1>3, <1>4

\* The engine attests at most once what is not void, and the adapter maps it once.
LEMMA OperatorStep ==
  ASSUME ClaimInv,
         \/ Commit \/ ResolveVoid \/ ToErc8004Validation
         \/ \E length \in HexLength, prefixed \in BOOLEAN : Resolve(length, prefixed)
  PROVE  ClaimInv'
<1>1. UNCHANGED <<claim, bitcoinVars, registryVars, auditVars>>
  BY DEF Commit, ResolveVoid, Resolve, Attest, ToErc8004Validation
<1>2. claim \in Claim /\ chain \in Seq(Block) /\ Len(chain) \in Nat
  BY LenProperties DEF ClaimInv, TypeOK
<1>3. CASE Commit
  <2>1. UNCHANGED <<attestation, record>> /\ committedAt' \in 0 .. MaxHeight
    BY <1>2, <1>3 DEF Commit, ClaimInv
  <2>2. QED
    BY <1>1, <2>1, OthersStay DEF ClaimInv, TypeOK, OperatorOK, RegistryOK, registryVars,
       auditVars, bitcoinVars
<1>4. CASE ResolveVoid
  <2>1. /\ record = None /\ UNCHANGED <<committedAt, record>>
        /\ attestation'.verdict = "INDETERMINATE" /\ attestation'.root = None
        /\ attestation' \in Attestation /\ ~Attested
    BY <1>4 DEF ResolveVoid, Unresolved, Attest, Attested, Attestation
  <2>2. QED
    BY <1>1, <2>1, OthersStay DEF ClaimInv, TypeOK, OperatorOK, RegistryOK, registryVars,
       auditVars, bitcoinVars
<1>5. ASSUME NEW length \in HexLength, NEW prefixed \in BOOLEAN, Resolve(length, prefixed)
      PROVE  ClaimInv'
  <2> DEFINE b == chain[claim.height]
  <2>1. b \in Block
    <3>1. claim.height \in 1 .. Len(chain)
      BY <1>2, <1>5, ClaimAssumption DEF Resolve, Mined
    <3>2. QED
      BY <1>2, <3>1, ElementOfSeq
  <2>2. /\ record = None /\ UNCHANGED <<committedAt, record>> /\ Mined
        /\ attestation' = [verdict |-> IF Outcome(b) = 100 THEN "PASS" ELSE "FAIL",
                           root |-> [block |-> b, verdict |-> Outcome(b)],
                           length |-> length, prefixed |-> prefixed]
        /\ ~Attested
    BY <1>5 DEF Resolve, Unresolved, Attest, Attested
  <2>3. Outcome(b) \in {0, 100}
    BY <1>2, <2>1, ReplayIsOutcome
  <2> HIDE DEF b
  <2>4. attestation' \in Attestation /\ attestation' # None
    <3>1. [block |-> b, verdict |-> Outcome(b)] \in Evidence
      BY <2>1, <2>3 DEF Evidence
    <3>2. QED
      BY <2>2, <3>1, NoneAssumption DEF Attestation
  <2>5. /\ attestation'.root \in Evidence /\ attestation'.root.verdict = Outcome(b)
        /\ attestation'.root.block = b
        /\ attestation'.verdict = IF attestation'.root.verdict = 100 THEN "PASS" ELSE "FAIL"
    BY <2>1, <2>2, <2>3 DEF Evidence
  <2>6. Attested'
    BY <1>1, <2>2, <2>4, <2>5, OthersStay DEF Attested, bitcoinVars
  <2>7. QED
    BY <1>1, <2>2, <2>4, <2>6, OthersStay DEF ClaimInv, TypeOK, OperatorOK, RegistryOK,
       registryVars, auditVars, bitcoinVars
<1>6. CASE ToErc8004Validation
  <2>1. /\ attestation # None /\ record = None /\ UNCHANGED <<committedAt, attestation>>
        /\ attestation.verdict \in {"PASS", "FAIL"}
        /\ record' = Answer(IF attestation.verdict = "PASS" THEN 100 ELSE 0, attestation.root)
    BY <1>6 DEF ToErc8004Validation, IsScored, Score, ScoreOf
  <2>2. Attested /\ attestation.root.verdict \in {0, 100}
    BY <2>1 DEF ClaimInv, OperatorOK, Attested, Evidence
  <2>3. record' = Answer(attestation.root.verdict, attestation.root)
    BY <2>1, <2>2 DEF Attested
  <2>4. record' \in [response : {0, 100}, responseHash : Evidence]
    BY <2>2, <2>3 DEF Answer, Attested
  <2>5. QED
    BY <1>1, <2>1, <2>2, <2>3, <2>4, OthersStay DEF ClaimInv, TypeOK, OperatorOK, RegistryOK,
       registryVars, auditVars, bitcoinVars
<1>7. QED
  BY <1>3, <1>4, <1>5, <1>6

\* An answer is remembered, whoever gives it.
LEMMA RegistryStep ==
  ASSUME ClaimInv,
         \/ \E v \in {Us, Other} : ValidationRequest(v)
         \/ ValidationResponse
         \/ \E resp \in Response, rh \in Published \cup {None} : OtherResponse(resp, rh)
  PROVE  ClaimInv'
<1>1. UNCHANGED <<claim, bitcoinVars, operatorVars, auditVars>>
  BY DEF ValidationRequest, ValidationResponse, OtherResponse, Give
<1>2. /\ Mined' = Mined /\ (Attested => Attested')
      /\ \A a : Outcome(a)' = Outcome(a) /\ Replay(a)' = Replay(a)
  BY <1>1, OthersStay DEF operatorVars
<1>3. /\ answers \subseteq answers' /\ TypeOK' /\ RegistryOK'
  <2>1. CASE \E v \in {Us, Other} : ValidationRequest(v)
    <3>1. PICK v \in {Us, Other} : ValidationRequest(v)
      BY <2>1
    <3>2. /\ request = None /\ answers' = answers
          /\ request' = [validator |-> v, answer |-> Answer(0, None)]
      BY <3>1 DEF ValidationRequest
    <3>3. Answer(0, None) \in AnyAnswer
      BY DEF Answer, AnyAnswer
    <3>4. request' \in Request /\ request'.answer = Answer(0, None)
      BY <3>2, <3>3 DEF Request
    <3>5. TypeOK'
      BY <1>1, <3>2, <3>4 DEF ClaimInv, TypeOK, bitcoinVars, operatorVars, auditVars
    <3>6. QED
      BY <3>2, <3>4, <3>5 DEF ClaimInv, RegistryOK
  <2>2. ASSUME NEW answer \in AnyAnswer, Give(answer), request # None,
               request.validator = Us => record # None /\ answer = record
        PROVE  answers \subseteq answers' /\ TypeOK' /\ RegistryOK'
    <3>1. /\ request' = [request EXCEPT !.answer = answer]
          /\ answers' = answers \cup {answer}
      BY <2>2 DEF Give
    <3>2. request \in Request
      BY <2>2 DEF ClaimInv, TypeOK
    <3>3. request' \in Request /\ request'.answer = answer /\ request'.validator = request.validator
      BY <3>1, <3>2 DEF Request
    <3>4. TypeOK'
      BY <1>1, <3>1, <3>3 DEF ClaimInv, TypeOK, bitcoinVars, operatorVars, auditVars
    <3>5. RegistryOK'
      BY <1>1, <2>2, <3>1, <3>3, NoneAssumption DEF ClaimInv, RegistryOK, operatorVars
    <3>6. QED
      BY <3>1, <3>4, <3>5
  <2>3. CASE ValidationResponse
    <3>1. record # None /\ request # None /\ Give(record)
      BY <2>3 DEF ValidationResponse
    <3>2. record \in AnyAnswer
      BY <3>1 DEF ClaimInv, TypeOK, AnyAnswer
    <3>3. QED
      BY <2>2, <3>1, <3>2
  <2>4. CASE \E resp \in Response, rh \in Published \cup {None} : OtherResponse(resp, rh)
    <3>1. PICK resp \in Response, rh \in Published \cup {None} : OtherResponse(resp, rh)
      BY <2>4
    <3>2. request # None /\ request.validator # Us /\ Give(Answer(resp, rh))
      BY <3>1, ValidatorAssumption DEF OtherResponse
    <3>3. rh \in Evidence \cup {None}
      BY DEF Published, ClaimInv, TypeOK, Attestation
    <3>4. Answer(resp, rh) \in AnyAnswer
      BY <3>3 DEF Answer, AnyAnswer
    <3>5. QED
      BY <2>2, <3>2, <3>4
  <2>5. QED
    BY <2>1, <2>3, <2>4
<1>4. OperatorOK'
  BY <1>1, <1>2 DEF ClaimInv, OperatorOK, operatorVars
<1>5. AuditOK' /\ ResultsOK'
  BY <1>1, <1>2, <1>3 DEF ClaimInv, AuditOK, ResultsOK, EvidenceOK, operatorVars, auditVars,
     bitcoinVars
<1>6. QED
  BY <1>1, <1>3, <1>4, <1>5 DEF ClaimInv, bitcoinVars

\* An audit begins with what the registry shows, goes on with the block of the chain,
\* and concludes by comparing the two; it changes nothing but its own state.
LEMMA AuditStep ==
  ASSUME ClaimInv, ReadStatus \/ ReadHash \/ ConcludeParity \/ ConcludeTxCount \/ Abort
  PROVE  ClaimInv'
<1>1. UNCHANGED <<claim, bitcoinVars, operatorVars, registryVars>>
  BY DEF ReadStatus, ReadHash, ConcludeParity, ConcludeTxCount, Conclude, Abort
<1>2. /\ Mined' = Mined /\ (Attested => Attested')
      /\ \A a : Outcome(a)' = Outcome(a) /\ Replay(a)' = Replay(a)
  BY <1>1, OthersStay DEF operatorVars
<1>3. OperatorOK' /\ RegistryOK' /\ (Len(chain) <= MaxHeight)'
  BY <1>1, <1>2 DEF ClaimInv, OperatorOK, RegistryOK, operatorVars, registryVars, bitcoinVars
<1>4. claim.rule # "status" /\ claim.rule # "idle" /\ claim.rule \in {"parity", "txcount"}
  BY ClaimAssumption DEF ClaimInv, TypeOK
<1>5. ASSUME audit' = Idle, results' = results PROVE ClaimInv'
  BY <1>1, <1>2, <1>3, <1>4, <1>5 DEF ClaimInv, TypeOK, AuditOK, ResultsOK, Idle, EvidenceOK,
     operatorVars, registryVars, bitcoinVars
<1>6. CASE ReadStatus
  <2>1. /\ request # None /\ Published \notin {{}, {None}} /\ results' = results
        /\ audit'.at = "status" /\ audit'.answer = request.answer
    BY <1>6 DEF ReadStatus
  <2>2. Attested /\ attestation.root # None
    BY <2>1 DEF Published, ClaimInv, OperatorOK
  <2>3. /\ request.answer \in answers \cup {Answer(0, None)}
        /\ request.answer \in AnyAnswer
    BY <2>1 DEF ClaimInv, RegistryOK, TypeOK, Request
  <2>4. TypeOK'
    BY <1>1, <2>1, <2>3 DEF ClaimInv, TypeOK, operatorVars, registryVars, bitcoinVars
  <2>5. AuditOK'
    BY <1>1, <1>2, <1>4, <2>1, <2>2, <2>3 DEF AuditOK, operatorVars, registryVars
  <2>6. ResultsOK'
    BY <1>1, <1>2, <2>1 DEF ClaimInv, ResultsOK, EvidenceOK, operatorVars, registryVars,
       bitcoinVars
  <2>7. QED
    BY <1>3, <2>4, <2>5, <2>6 DEF ClaimInv
<1>7. CASE ReadHash
  <2>1. /\ audit.at = "status" /\ Mined /\ results' = results
        /\ audit'.at = claim.rule /\ audit'.answer = audit.answer
        /\ audit'.block = chain[claim.height]
    BY <1>7 DEF ReadHash
  <2>2. /\ Attested /\ attestation.root # None
        /\ audit.answer \in answers \cup {Answer(0, None)}
        /\ audit.answer \in AnyAnswer
    BY <2>1 DEF ClaimInv, AuditOK
  <2>3. chain[claim.height] \in Block
    <3>1. claim.height \in 1 .. Len(chain)
      BY <2>1, ClaimAssumption, LenProperties DEF Mined, ClaimInv, TypeOK
    <3>2. QED
      BY <3>1, ElementOfSeq DEF ClaimInv, TypeOK
  <2>4. TypeOK'
    BY <1>1, <2>1, <2>2 DEF ClaimInv, TypeOK, operatorVars, registryVars, bitcoinVars
  <2>5. AuditOK'
    BY <1>1, <1>2, <1>4, <2>1, <2>2, <2>3 DEF AuditOK, operatorVars, registryVars, bitcoinVars
  <2>6. ResultsOK'
    BY <1>1, <1>2, <2>1 DEF ClaimInv, ResultsOK, EvidenceOK, operatorVars, registryVars,
       bitcoinVars
  <2>7. QED
    BY <1>3, <2>4, <2>5, <2>6 DEF ClaimInv
<1>8. CASE ConcludeParity \/ ConcludeTxCount
  <2> DEFINE x == [answer |-> audit.answer, block |-> audit.block,
                   passed |-> EvidenceOK(audit.answer) /\ audit.answer.response = Replay(audit.block)]
  <2>1. audit.at = claim.rule /\ audit' = Idle /\ results' = results \cup {x}
    BY <1>4, <1>8 DEF ConcludeParity, ConcludeTxCount, Conclude, Replays, Replay, ClaimInv, AuditOK
  <2>2. /\ Attested /\ attestation.root # None /\ Mined
        /\ audit.answer \in answers \cup {Answer(0, None)}
        /\ audit.answer \in AnyAnswer /\ audit.block \in Block
        /\ disturbed \/ audit.block = chain[claim.height]
    BY <1>4, <2>1 DEF ClaimInv, AuditOK
  <2>3. x.passed \in BOOLEAN
    BY DEF EvidenceOK
  <2>4. /\ x \in [answer : AnyAnswer, block : Block, passed : BOOLEAN]
        /\ x.answer = audit.answer /\ x.block = audit.block
        /\ x.passed = (EvidenceOK(x.answer) /\ x.answer.response = Replay(x.block))
    BY <2>2, <2>3
  <2> HIDE DEF x
  <2>5. TypeOK'
    BY <1>1, <2>1, <2>4 DEF ClaimInv, TypeOK, operatorVars, registryVars, bitcoinVars
  <2>6. AuditOK'
    BY <1>1, <1>4, <2>1 DEF AuditOK, Idle
  <2>7. ResultsOK'
    BY <1>1, <1>2, <2>1, <2>2, <2>4 DEF ClaimInv, ResultsOK, EvidenceOK, operatorVars,
       registryVars, bitcoinVars
  <2>8. QED
    BY <1>3, <2>5, <2>6, <2>7 DEF ClaimInv
<1>9. QED
  BY <1>5, <1>6, <1>7, <1>8 DEF Abort

LEMMA ClaimInit == Init => ClaimInv
<1> SUFFICES ASSUME Init PROVE ClaimInv
  OBVIOUS
<1>1. chain \in Seq(Block) /\ Len(chain) <= MaxHeight
  BY BoundsAssumption DEF Init
<1>2. TypeOK
  <2>1. claim \in Claim /\ disturbed \in BOOLEAN /\ reorgs \in 0 .. MaxReorgs
    <3>1. claim \in Claim
      BY DEF Init
    <3>2. disturbed = FALSE
      BY DEF Init
    <3>3. reorgs = 0
      BY DEF Init
    <3>4. 0 \in 0 .. MaxReorgs
      BY BoundsAssumption
    <3>5. QED
      BY <3>1, <3>2, <3>3, <3>4
  <2>2. committedAt = None /\ attestation = None /\ record = None /\ request = None
    BY DEF Init
  <2>3. answers = {} /\ results = {} /\ audit = Idle
    BY DEF Init
  <2>4. QED
    BY <1>1, <2>1, <2>2, <2>3 DEF TypeOK
<1>3. OperatorOK /\ RegistryOK /\ ResultsOK
  BY DEF Init, OperatorOK, RegistryOK, ResultsOK
<1>4. AuditOK
  BY ClaimAssumption DEF Init, AuditOK, Idle
<1>5. QED
  BY <1>1, <1>2, <1>3, <1>4 DEF ClaimInv

LEMMA ClaimStep == ClaimInv /\ [Next]_vars => ClaimInv'
<1> SUFFICES ASSUME ClaimInv, [Next]_vars PROVE ClaimInv'
  OBVIOUS
<1>1. CASE UNCHANGED vars
  BY <1>1, OthersStay DEF vars, operatorVars, registryVars, auditVars, bitcoinVars, ClaimInv,
     TypeOK, OperatorOK, RegistryOK
<1>2. QED
  BY <1>1, BitcoinStep, OperatorStep, RegistryStep, AuditStep DEF Next

LEMMA ClaimInvariant == Spec => []ClaimInv
BY ClaimInit, ClaimStep, PTL DEF Spec

--------------------------------------------------------------------------------
(* The theorems.                                                            *)

\* Every variable has its type; a record answers 0 or 100 with the hash of evidence,
\* and never the void.
THEOREM TypeCorrect == Spec => []TypeOK
<1>1. ClaimInv => TypeOK
  BY DEF ClaimInv
<1>2. QED
  BY <1>1, ClaimInvariant, PTL

\* An audit passes only on an answer that the registry was given, not on the zero
\* that it shows before.
THEOREM PassesAreAnswered == Spec => []PassMeansAnswered
<1>1. ClaimInv => PassMeansAnswered
  <2> SUFFICES ASSUME ClaimInv, NEW x \in results, x.passed PROVE x.answer \in answers
    BY DEF PassMeansAnswered, Passes
  <2>1. /\ x.answer.responseHash = attestation.root /\ attestation.root # None
        /\ x.answer \in answers \cup {Answer(0, None)}
    BY DEF ClaimInv, ResultsOK, EvidenceOK
  <2>2. QED
    BY <2>1 DEF Answer
<1>2. QED
  BY <1>1, ClaimInvariant, PTL

\* Two audits that pass agree on the verdict, unless the claim's block was replaced.
THEOREM AuditsAgree == Spec => []PassesAgree
<1>1. ClaimInv => PassesAgree
  <2> SUFFICES ASSUME ClaimInv, ~disturbed, NEW x \in results, x.passed,
                      NEW y \in results, y.passed
               PROVE  x.answer.response = y.answer.response
    BY DEF PassesAgree, Passes
  <2>1. x.answer.response = Replay(x.block) /\ y.answer.response = Replay(y.block)
    BY DEF ClaimInv, ResultsOK
  <2>2. x.block = chain[claim.height] /\ y.block = chain[claim.height]
    BY DEF ClaimInv, ResultsOK
  <2>3. QED
    BY <2>1, <2>2
<1>2. QED
  BY <1>1, ClaimInvariant, PTL

\* What the adapter emits passes every audit that sees the block it was resolved with.
THEOREM HonestAnswersPass == Spec => []HonestAnswerPasses
<1>1. ClaimInv => HonestAnswerPasses
  <2> SUFFICES ASSUME ClaimInv, NEW x \in results, record # None, x.answer = record,
                      x.block = record.responseHash.block
               PROVE  x.passed
    BY DEF HonestAnswerPasses
  <2>1. /\ Attested /\ record = Answer(attestation.root.verdict, attestation.root)
        /\ x.passed = (EvidenceOK(x.answer) /\ x.answer.response = Replay(x.block))
    BY DEF ClaimInv, OperatorOK, ResultsOK
  <2>2. /\ x.block = attestation.root.block /\ x.answer.responseHash = attestation.root
        /\ x.answer.response = Outcome(attestation.root.block)
    BY <2>1 DEF Answer, Attested
  <2>3. attestation.root.block \in Block /\ claim \in Claim
    BY <2>1 DEF Attested, Evidence, ClaimInv, TypeOK
  <2>4. QED
    BY <2>1, <2>2, <2>3, ReplayIsOutcome DEF EvidenceOK
<1>2. QED
  BY <1>1, ClaimInvariant, PTL

\* Our validator answers with the outcome of a block that was mined, and nothing else.
THEOREM AnswersAreOutcomes == Spec => []AnswersFollowOutcome
<1>1. ClaimInv => AnswersFollowOutcome
  <2> SUFFICES ASSUME ClaimInv, request # None, request.validator = Us, NEW answer \in answers
               PROVE  /\ Mined
                      /\ answer.responseHash \in Evidence
                      /\ answer.response = Outcome(answer.responseHash.block)
    BY DEF AnswersFollowOutcome
  <2>1. record # None /\ answer = record
    BY DEF ClaimInv, RegistryOK
  <2>2. Attested /\ answer = Answer(attestation.root.verdict, attestation.root)
    BY <2>1 DEF ClaimInv, OperatorOK
  <2>3. QED
    BY <2>2 DEF Answer, Attested
<1>2. QED
  BY <1>1, ClaimInvariant, PTL

================================================================================
