----------------------- MODULE ResolutionValidatorProofs -----------------------
(****************************************************************************)
(* Theorems about the contract, for every set of agents, requests, proofs   *)
(* and callers, and every verifier (Accepts is any relation).               *)
(****************************************************************************)
EXTENDS ResolutionValidator, Integers, SequenceTheorems, TLAPS

--------------------------------------------------------------------------------
(* IsPrefix, Append and SubSeq, on which the facts about hash chains rest.  *)

\* A prefix is a shorter sequence that agrees element by element.
LEMMA PrefixByElements ==
  ASSUME NEW S, NEW s \in Seq(S), NEW t \in Seq(S)
  PROVE  IsPrefix(s, t) <=> Len(s) <= Len(t) /\ \A i \in 1 .. Len(s) : s[i] = t[i]
<1>1. ASSUME Len(s) <= Len(t)
      PROVE  /\ SubSeq(t, 1, Len(s)) \in Seq(S)
             /\ Len(SubSeq(t, 1, Len(s))) = Len(s)
             /\ \A i \in 1 .. Len(s) : SubSeq(t, 1, Len(s))[i] = t[i]
  <2>1. Len(s) \in Nat /\ Len(t) \in Nat
    BY LenProperties
  <2>2. \A i \in 1 .. Len(s) : t[i] \in S
    BY <1>1, <2>1, ElementOfSeq
  <2>3. /\ SubSeq(t, 1, Len(s)) \in Seq(S)
        /\ Len(SubSeq(t, 1, Len(s))) = IF 1 <= Len(s) THEN Len(s) - 1 + 1 ELSE 0
        /\ \A i \in 1 .. Len(s) - 1 + 1 : SubSeq(t, 1, Len(s))[i] = t[1 + i - 1]
    BY <2>1, <2>2, SubSeqProperties
  <2>4. QED
    BY <2>1, <2>3
<1>2. SubSeq(s, 1, Len(s)) = s
  BY SubSeqFull
<1>3. QED
  BY <1>1, <1>2, SeqEqual DEF IsPrefix

\* The first n elements of a sequence, as a sequence.
LEMMA FirstElements ==
  ASSUME NEW S, NEW s \in Seq(S), NEW n \in 0 .. Len(s)
  PROVE  /\ SubSeq(s, 1, n) \in Seq(S)
         /\ Len(SubSeq(s, 1, n)) = n
         /\ \A i \in 1 .. n : SubSeq(s, 1, n)[i] = s[i]
<1>1. Len(s) \in Nat
  BY LenProperties
<1>2. \A i \in 1 .. n : s[i] \in S
  BY <1>1, ElementOfSeq
<1>3. /\ SubSeq(s, 1, n) \in Seq(S)
      /\ Len(SubSeq(s, 1, n)) = IF 1 <= n THEN n - 1 + 1 ELSE 0
      /\ \A i \in 1 .. n - 1 + 1 : SubSeq(s, 1, n)[i] = s[1 + i - 1]
  BY <1>1, <1>2, SubSeqProperties
<1>4. QED
  BY <1>1, <1>3

\* The first elements are a prefix, and a prefix is the first elements.
LEMMA FirstElementsPrefix ==
  ASSUME NEW S, NEW s \in Seq(S), NEW n \in 0 .. Len(s)
  PROVE  IsPrefix(SubSeq(s, 1, n), s)
<1> DEFINE p == SubSeq(s, 1, n)
<1>1. p \in Seq(S) /\ Len(p) = n /\ \A i \in 1 .. n : p[i] = s[i]
  BY FirstElements
<1>2. Len(s) \in Nat
  BY LenProperties
<1> HIDE DEF p
<1>3. IsPrefix(p, s)
  BY <1>1, <1>2, PrefixByElements
<1>4. QED
  BY <1>3 DEF p

LEMMA PrefixReflexive ==
  ASSUME NEW S, NEW s \in Seq(S)
  PROVE  IsPrefix(s, s)
BY LenProperties DEF IsPrefix

LEMMA PrefixTransitive ==
  ASSUME NEW S, NEW s \in Seq(S), NEW t \in Seq(S), NEW u \in Seq(S),
         IsPrefix(s, t), IsPrefix(t, u)
  PROVE  IsPrefix(s, u)
<1>1. Len(s) \in Nat /\ Len(t) \in Nat /\ Len(u) \in Nat
  BY LenProperties
<1>2. Len(s) <= Len(t) /\ \A i \in 1 .. Len(s) : s[i] = t[i]
  BY PrefixByElements
<1>3. Len(t) <= Len(u) /\ \A i \in 1 .. Len(t) : t[i] = u[i]
  BY PrefixByElements
<1>4. QED
  BY <1>1, <1>2, <1>3, PrefixByElements

\* Appending extends a sequence and every prefix it had.
LEMMA PrefixOfAppend ==
  ASSUME NEW S, NEW s \in Seq(S), NEW t \in Seq(S), NEW e \in S, IsPrefix(s, t)
  PROVE  IsPrefix(s, Append(t, e))
<1> DEFINE u == Append(t, e)
<1>1. /\ u \in Seq(S)
      /\ Len(u) = Len(t) + 1
      /\ \A i \in 1 .. Len(t) : u[i] = t[i]
  BY AppendProperties
<1>2. Len(t) \in Nat
  BY LenProperties
<1> HIDE DEF u
<1>3. IsPrefix(t, u)
  BY <1>1, <1>2, PrefixByElements
<1>4. IsPrefix(s, u)
  BY <1>1, <1>3, PrefixTransitive
<1>5. QED
  BY <1>4 DEF u

\* Appending leaves the first elements alone.
LEMMA FirstElementsOfAppend ==
  ASSUME NEW S, NEW s \in Seq(S), NEW e \in S, NEW n \in 0 .. Len(s)
  PROVE  SubSeq(Append(s, e), 1, n) = SubSeq(s, 1, n)
<1> DEFINE t == Append(s, e)
<1>1. /\ Len(s) \in Nat
      /\ t \in Seq(S)
      /\ Len(t) = Len(s) + 1
      /\ \A i \in 1 .. Len(s) : t[i] = s[i]
  BY AppendProperties, LenProperties
<1> HIDE DEF t
<1>2. n \in 0 .. Len(t)
  BY <1>1
<1>3. /\ SubSeq(t, 1, n) \in Seq(S)
      /\ Len(SubSeq(t, 1, n)) = n
      /\ \A i \in 1 .. n : SubSeq(t, 1, n)[i] = t[i]
  BY <1>1, <1>2, FirstElements
<1>4. /\ SubSeq(s, 1, n) \in Seq(S)
      /\ Len(SubSeq(s, 1, n)) = n
      /\ \A i \in 1 .. n : SubSeq(s, 1, n)[i] = s[i]
  BY FirstElements
<1>5. SubSeq(t, 1, n) = SubSeq(s, 1, n)
  BY <1>1, <1>3, <1>4, SeqEqual
<1>6. QED
  BY <1>5 DEF t

\* The first Len(s) elements of a sequence that s is a prefix of are s.
LEMMA PrefixIsFirstElements ==
  ASSUME NEW S, NEW s \in Seq(S), NEW t \in Seq(S), IsPrefix(s, t)
  PROVE  /\ Len(s) \in 0 .. Len(t)
         /\ s = SubSeq(t, 1, Len(s))
BY SubSeqFull, LenProperties DEF IsPrefix

\* Two prefixes of one sequence of the same length are equal.
LEMMA PrefixDeterminedByLength ==
  ASSUME NEW S, NEW s \in Seq(S), NEW t \in Seq(S), NEW u \in Seq(S),
         IsPrefix(s, u), IsPrefix(t, u), Len(s) = Len(t)
  PROVE  s = t
BY PrefixIsFirstElements

--------------------------------------------------------------------------------
(* What the two kinds of write to a history do.                             *)

\* Challenging an entry, or settling its challenge, moves its flag and nothing
\* else of any history.
LEMMA FlagOnly ==
  ASSUME TypeOK, NEW r \in RequestHash, NEW i \in DOMAIN history[r], NEW b \in BOOLEAN,
         history' = [history EXCEPT ![r][i].challenged = b]
  PROVE  /\ history' \in [RequestHash -> Seq(Entry)]
         /\ \A q \in RequestHash :
              /\ Len(history'[q]) = Len(history[q])
              /\ \A j \in 1 .. Len(history[q]) :
                   VerdictOf(history'[q][j]) = VerdictOf(history[q][j])
<1> DEFINE e == history[r][i]
           f == [e EXCEPT !.challenged = b]
           s == [history[r] EXCEPT ![i] = f]
<1>1. history \in [RequestHash -> Seq(Entry)]
  BY DEF TypeOK
<1>2. history[r] \in Seq(Entry) /\ i \in 1 .. Len(history[r])
  BY <1>1, LenProperties
<1>3. e \in Entry
  BY <1>2, ElementOfSeq
<1>4. f \in Entry /\ VerdictOf(f) = VerdictOf(e)
  BY <1>3 DEF Entry, VerdictOf
<1>5. history' = [history EXCEPT ![r] = s]
  OBVIOUS
<1> HIDE DEF f
<1>6. /\ s \in Seq(Entry)
      /\ Len(s) = Len(history[r])
      /\ \A j \in 1 .. Len(history[r]) : s[j] = IF j = i THEN f ELSE history[r][j]
  BY <1>2, <1>4, ExceptSeq
<1> HIDE DEF s
<1>7. history' \in [RequestHash -> Seq(Entry)]
  BY <1>1, <1>5, <1>6
<1>8. ASSUME NEW q \in RequestHash
      PROVE  /\ Len(history'[q]) = Len(history[q])
             /\ \A j \in 1 .. Len(history[q]) :
                  VerdictOf(history'[q][j]) = VerdictOf(history[q][j])
  <2>1. CASE q = r
    <3>1. history'[q] = s
      BY <1>1, <1>5, <2>1
    <3>2. ASSUME NEW j \in 1 .. Len(history[q])
          PROVE  VerdictOf(s[j]) = VerdictOf(history[q][j])
      BY <1>4, <1>6, <2>1
    <3>3. QED
      BY <1>6, <2>1, <3>1, <3>2
  <2>2. CASE q # r
    BY <1>1, <1>5, <2>2
  <2>3. QED
    BY <2>1, <2>2
<1>9. QED
  BY <1>7, <1>8

\* A step of recordResolution, seen as the entry it appends and the link it
\* appends: the entry extends the history of the request, the link the head of
\* the agent that the request belongs to.
LEMMA RecordAppends ==
  ASSUME TypeOK, NEW r \in RequestHash, NEW resp \in Response, NEW rh \in ResponseHash,
         NEW p \in Proof, RecordResolution(r, resp, rh, p)
  PROVE  LET a    == requests[r].agentId
             ic   == requests[r].inputCommit
             e    == [response |-> resp, responseHash |-> rh, inputCommit |-> ic,
                      prevEntry |-> head[a], challenged |-> FALSE]
             link == EntryHash(r, Len(history[r]), resp, rh, ic)
         IN /\ requests[r] \in RequestRecord /\ a \in AgentId
            /\ e \in Entry /\ link \in HeadLink
            /\ history' = [history EXCEPT ![r] = Append(@, e)]
            /\ head' = [head EXCEPT ![a] = Append(@, link)]
            /\ history' \in [RequestHash -> Seq(Entry)]
            /\ head' \in [AgentId -> HeadHash]
<1>1. requests[r] \in RequestRecord
  BY DEF TypeOK, RecordResolution
<1> DEFINE a    == requests[r].agentId
           ic   == requests[r].inputCommit
           e    == [response |-> resp, responseHash |-> rh, inputCommit |-> ic,
                    prevEntry |-> head[a], challenged |-> FALSE]
           link == EntryHash(r, Len(history[r]), resp, rh, ic)
<1>2. a \in AgentId /\ ic \in Commitment
  BY <1>1 DEF RequestRecord
<1>3. Len(history[r]) \in Nat
  BY LenProperties DEF TypeOK
<1>4. head[a] \in HeadHash
  BY <1>2 DEF TypeOK
<1>5. e \in Entry
  BY <1>2, <1>4 DEF Entry
<1>6. link \in HeadLink
  BY <1>2, <1>3 DEF HeadLink, EntryHash
<1>7. history' = [history EXCEPT ![r] = Append(@, e)]
  BY DEF RecordResolution
<1>8. head' = [head EXCEPT ![a] = Append(@, link)]
  BY <1>2 DEF RecordResolution, ChainHead, TypeOK
<1> HIDE DEF e, link
<1>9. Append(history[r], e) \in Seq(Entry)
  BY <1>5, AppendProperties DEF TypeOK
<1>10. Append(head[a], link) \in HeadHash
  BY <1>4, <1>6, AppendProperties DEF HeadHash
<1>11. history' \in [RequestHash -> Seq(Entry)]
  BY <1>7, <1>9 DEF TypeOK
<1>12. head' \in [AgentId -> HeadHash]
  BY <1>8, <1>10 DEF TypeOK
<1>13. QED
  BY <1>1, <1>2, <1>5, <1>6, <1>7, <1>8, <1>11, <1>12 DEF e, link

\* The entry that recordResolution writes says what its arguments say.
LEMMA RecordedEntry ==
  ASSUME TypeOK, NEW r \in RequestHash, NEW resp \in Response, NEW rh \in ResponseHash,
         NEW p \in Proof, RecordResolution(r, resp, rh, p)
  PROVE  \E e \in Entry :
           /\ e.response = resp
           /\ e.responseHash = rh
           /\ e.inputCommit = requests[r].inputCommit
           /\ history' = [history EXCEPT ![r] = Append(@, e)]
<1> DEFINE e == [response |-> resp, responseHash |-> rh,
                 inputCommit |-> requests[r].inputCommit,
                 prevEntry |-> head[requests[r].agentId], challenged |-> FALSE]
<1>1. e \in Entry /\ history' = [history EXCEPT ![r] = Append(@, e)]
  BY RecordAppends
<1>2. /\ e.response = resp
      /\ e.responseHash = rh
      /\ e.inputCommit = requests[r].inputCommit
  OBVIOUS
<1> HIDE DEF e
<1>3. QED
  BY <1>1, <1>2

--------------------------------------------------------------------------------
(* Type correctness.                                                        *)

LEMMA TypeInit == Init => TypeOK
BY DEF Init, TypeOK, HeadHash

LEMMA TypeStep == TypeOK /\ [Next]_vars => TypeOK'
<1> SUFFICES ASSUME TypeOK, [Next]_vars PROVE TypeOK'
  OBVIOUS
<1>1. ASSUME NEW a \in AgentId, NEW r \in RequestHash, NEW v \in Validator,
             ValidationRequest(a, r, v)
      PROVE  TypeOK'
  BY <1>1 DEF ValidationRequest, contractVars, TypeOK, RegistryRecord
<1>2. ASSUME NEW r \in RequestHash, NEW v \in Validator, NEW resp \in Response,
             NEW rh \in ResponseHash, OtherResponse(r, v, resp, rh)
      PROVE  TypeOK'
  BY <1>2 DEF OtherResponse, contractVars, TypeOK, Answer
<1>3. ASSUME NEW a \in AgentId, NEW r \in RequestHash, NEW ic \in InputCommit,
             CommitRequest(a, r, ic)
      PROVE  TypeOK'
  BY <1>3 DEF CommitRequest, IsBound, TypeOK, RequestRecord, Commitment
<1>4. ASSUME NEW r \in RequestHash, NEW resp \in Response, NEW rh \in ResponseHash,
             NEW p \in Proof, RecordResolution(r, resp, rh, p)
      PROVE  TypeOK'
  <2>1. /\ history' \in [RequestHash -> Seq(Entry)]
        /\ head' \in [AgentId -> HeadHash]
    BY <1>4, RecordAppends
  <2>2. registryStatus' \in [RequestHash -> Answer \cup {None}]
    BY <1>4 DEF RecordResolution, TypeOK, Answer
  <2>3. calldata' \in [RequestHash -> Seq(Proof)]
    <3>1. Append(calldata[r], p) \in Seq(Proof)
      BY AppendProperties DEF TypeOK
    <3>2. calldata' = [calldata EXCEPT ![r] = Append(calldata[r], p)]
      BY <1>4 DEF RecordResolution
    <3>3. QED
      BY <3>1, <3>2 DEF TypeOK
  <2>4. UNCHANGED <<requests, headAnchoredTo, registryRequest>>
    BY <1>4 DEF RecordResolution
  <2>5. QED
    BY <2>1, <2>2, <2>3, <2>4 DEF TypeOK
<1>5. ASSUME NEW a \in AgentId, NEW ref \in BitcoinRef, AnchorHead(a, ref)
      PROVE  TypeOK'
  BY <1>5 DEF AnchorHead, HeadToFreeze, TypeOK
<1>6. ASSUME NEW r \in RequestHash, NEW i \in 1 .. Len(history[r]), Challenge(r, i)
      PROVE  TypeOK'
  <2>1. history' \in [RequestHash -> Seq(Entry)]
    BY <1>6, FlagOnly DEF Challenge
  <2>2. QED
    BY <1>6, <2>1 DEF Challenge, TypeOK
<1>7. ASSUME NEW r \in RequestHash, NEW i \in 1 .. Len(history[r]), ResolveChallenge(r, i)
      PROVE  TypeOK'
  <2>1. history' \in [RequestHash -> Seq(Entry)]
    BY <1>7, FlagOnly DEF ResolveChallenge
  <2>2. QED
    BY <1>7, <2>1 DEF ResolveChallenge, TypeOK
<1>8. CASE UNCHANGED vars
  BY <1>8 DEF vars, TypeOK
<1>9. QED
  BY <1>1, <1>2, <1>3, <1>4, <1>5, <1>6, <1>7, <1>8 DEF Next

\* Every variable keeps its type; no request is ever bound to a zero commitment.
THEOREM TypeCorrect == Spec => []TypeOK
BY TypeInit, TypeStep, PTL DEF Spec

--------------------------------------------------------------------------------
(* The hash chain and the histories account for each other.                 *)

ChainInv == EntriesChained /\ HeadCommitsToHistory

\* What an entry says determines its hash.
LEMMA VerdictDeterminesHash ==
  ASSUME NEW e, NEW f, VerdictOf(e) = VerdictOf(f)
  PROVE  /\ e.response = f.response
         /\ e.responseHash = f.responseHash
         /\ e.inputCommit = f.inputCommit
         /\ e.prevEntry = f.prevEntry
         /\ \A r, i : HashOf(r, i, e) = HashOf(r, i, f)
BY DEF VerdictOf, HashOf

\* A step that keeps the requests there are, the heads, and what the entries say
\* keeps the chain.
LEMMA ChainKept ==
  ASSUME TypeOK, TypeOK', ChainInv,
         \A r \in RequestHash : requests[r] # None => requests'[r] = requests[r],
         head' = head,
         \A r \in RequestHash :
           /\ Len(history'[r]) = Len(history[r])
           /\ \A i \in 1 .. Len(history[r]) :
                VerdictOf(history'[r][i]) = VerdictOf(history[r][i])
  PROVE  ChainInv'
<1>1. ASSUME NEW r \in RequestHash, NEW i \in 1 .. Len(history[r])
      PROVE  /\ HashOf(r, i, history'[r][i]) = HashOf(r, i, history[r][i])
             /\ history'[r][i].prevEntry = history[r][i].prevEntry
  BY VerdictDeterminesHash
<1>2. EntriesChained'
  <2>1. ASSUME NEW r \in RequestHash, NEW i \in 1 .. Len(history[r])
        PROVE  /\ requests'[r] # None
               /\ IsPrefix(Append(history'[r][i].prevEntry, HashOf(r, i, history'[r][i])),
                           head'[requests'[r].agentId])
    BY <1>1, <2>1 DEF ChainInv, EntriesChained
  <2>2. QED
    BY <2>1 DEF EntriesChained
<1>3. HeadCommitsToHistory'
  <2>1. ASSUME NEW a \in AgentId, NEW n \in 1 .. Len(head[a])
        PROVE  \E r \in RequestHash : \E i \in 1 .. Len(history'[r]) :
                 /\ requests'[r] # None
                 /\ requests'[r].agentId = a
                 /\ head[a][n] = HashOf(r, i, history'[r][i])
                 /\ history'[r][i].prevEntry = SubSeq(head[a], 1, n - 1)
    <3>1. PICK r \in RequestHash : \E i \in 1 .. Len(history[r]) :
            /\ requests[r] # None
            /\ requests[r].agentId = a
            /\ head[a][n] = HashOf(r, i, history[r][i])
            /\ history[r][i].prevEntry = SubSeq(head[a], 1, n - 1)
      BY DEF ChainInv, HeadCommitsToHistory
    <3>2. PICK i \in 1 .. Len(history[r]) :
            /\ head[a][n] = HashOf(r, i, history[r][i])
            /\ history[r][i].prevEntry = SubSeq(head[a], 1, n - 1)
      BY <3>1
    <3>3. QED
      BY <1>1, <3>1, <3>2
  <2>2. QED
    BY <2>1 DEF HeadCommitsToHistory
<1>4. QED
  BY <1>2, <1>3 DEF ChainInv

\* recordResolution keeps the chain: what it appends to the history of the request
\* is what it appends to the head of the agent.
LEMMA ChainRecord ==
  ASSUME TypeOK, ChainInv, NEW r \in RequestHash, NEW resp \in Response,
         NEW rh \in ResponseHash, NEW p \in Proof, RecordResolution(r, resp, rh, p)
  PROVE  ChainInv'
<1> DEFINE a    == requests[r].agentId
           ic   == requests[r].inputCommit
           e    == [response |-> resp, responseHash |-> rh, inputCommit |-> ic,
                    prevEntry |-> head[a], challenged |-> FALSE]
           link == EntryHash(r, Len(history[r]), resp, rh, ic)
           last == Len(history[r]) + 1
<1>1. /\ requests[r] # None /\ requests' = requests
      /\ a \in AgentId
      /\ e \in Entry /\ link \in HeadLink
      /\ history' = [history EXCEPT ![r] = Append(@, e)]
      /\ head' = [head EXCEPT ![a] = Append(@, link)]
  BY RecordAppends DEF RecordResolution
<1>2. /\ history \in [RequestHash -> Seq(Entry)]
      /\ head \in [AgentId -> HeadHash]
  BY DEF TypeOK
<1>3. e.prevEntry = head[a] /\ Len(history[r]) \in Nat /\ HashOf(r, last, e) = link
  <2>1. Len(history[r]) \in Nat
    BY <1>2, LenProperties
  <2>2. HashOf(r, last, e) = link
    BY <2>1 DEF HashOf, EntryHash
  <2>3. QED
    BY <2>1, <2>2
<1> HIDE DEF e, link, a
<1>4. /\ Len(history'[r]) = last
      /\ history'[r][last] = e
      /\ \A i \in 1 .. Len(history[r]) : history'[r][i] = history[r][i]
      /\ \A q \in RequestHash \ {r} : history'[q] = history[q]
  <2>1. history'[r] = Append(history[r], e)
    BY <1>1, <1>2
  <2>2. QED
    BY <1>1, <1>2, <2>1, AppendProperties
<1>5. /\ head'[a] \in HeadHash
      /\ Len(head'[a]) = Len(head[a]) + 1
      /\ head'[a][Len(head[a]) + 1] = link
      /\ \A n \in 1 .. Len(head[a]) : head'[a][n] = head[a][n]
      /\ \A b \in AgentId \ {a} : head'[b] = head[b]
  <2>1. head'[a] = Append(head[a], link)
    BY <1>1, <1>2
  <2>2. QED
    BY <1>1, <1>2, <2>1, AppendProperties DEF HeadHash
<1>6. \A n \in 0 .. Len(head[a]) : SubSeq(head'[a], 1, n) = SubSeq(head[a], 1, n)
  <2>1. head'[a] = Append(head[a], link)
    BY <1>1, <1>2
  <2>2. QED
    BY <1>1, <1>2, <2>1, FirstElementsOfAppend DEF HeadHash
<1>7. EntriesChained'
  <2>1. ASSUME NEW q \in RequestHash, NEW i \in 1 .. Len(history[q])
        PROVE  /\ requests[q] # None
               /\ history'[q][i] = history[q][i]
               /\ IsPrefix(Append(history[q][i].prevEntry, HashOf(q, i, history[q][i])),
                           head'[requests[q].agentId])
    <3> DEFINE b == requests[q].agentId
               f == history[q][i]
               h == Append(f.prevEntry, HashOf(q, i, f))
    <3>1. requests[q] # None /\ IsPrefix(h, head[b])
      BY DEF ChainInv, EntriesChained
    <3>2. b \in AgentId
      BY <3>1 DEF TypeOK, RequestRecord
    <3>3. f \in Entry /\ i \in Nat \ {0}
      BY <1>2, ElementOfSeq, LenProperties
    <3>4. h \in HeadHash
      <4>1. f.prevEntry \in HeadHash
        BY <3>3 DEF Entry
      <4>2. HashOf(q, i, f) \in HeadLink
        BY <3>3 DEF HashOf, EntryHash, HeadLink, Entry
      <4>3. QED
        BY <4>1, <4>2, AppendProperties DEF HeadHash
    <3>5. history'[q][i] = f
      BY <1>4
    <3> HIDE DEF h
    <3>6. IsPrefix(h, head'[b])
      <4>1. CASE b = a
        <5>1. head'[b] = Append(head[b], link)
          BY <1>1, <1>2, <4>1
        <5>2. head[b] \in HeadHash
          BY <1>2, <3>2
        <5>3. QED
          BY <1>1, <3>1, <3>4, <5>1, <5>2, PrefixOfAppend DEF HeadHash
      <4>2. CASE b # a
        BY <1>5, <3>1, <3>2, <4>2
      <4>3. QED
        BY <4>1, <4>2
    <3>7. QED
      BY <3>1, <3>5, <3>6 DEF h
  <2>2. IsPrefix(Append(e.prevEntry, HashOf(r, last, e)), head'[a])
    <3>1. head'[a] = Append(head[a], link)
      BY <1>1, <1>2
    <3>2. Append(e.prevEntry, HashOf(r, last, e)) = head'[a]
      BY <1>3, <3>1
    <3>3. QED
      BY <1>5, <3>2, PrefixReflexive DEF HeadHash
  <2>3. ASSUME NEW q \in RequestHash, NEW i \in 1 .. Len(history'[q])
        PROVE  /\ requests[q] # None
               /\ IsPrefix(Append(history'[q][i].prevEntry, HashOf(q, i, history'[q][i])),
                           head'[requests[q].agentId])
    <3>1. CASE q = r /\ i = last
      BY <1>1, <1>4, <2>2, <3>1 DEF a
    <3>2. CASE ~(q = r /\ i = last)
      <4>1. i \in 1 .. Len(history[q])
        BY <1>3, <1>4, <3>2
      <4>2. QED
        BY <2>1, <4>1
    <3>3. QED
      BY <3>1, <3>2
  <2>4. QED
    BY <1>1, <2>3 DEF EntriesChained
<1>8. HeadCommitsToHistory'
  <2>1. ASSUME NEW b \in AgentId, NEW n \in 1 .. Len(head'[b])
        PROVE  \E q \in RequestHash : \E i \in 1 .. Len(history'[q]) :
                 /\ requests'[q] # None
                 /\ requests'[q].agentId = b
                 /\ head'[b][n] = HashOf(q, i, history'[q][i])
                 /\ history'[q][i].prevEntry = SubSeq(head'[b], 1, n - 1)
    <3>0. Len(head[b]) \in Nat
      BY <1>2, LenProperties DEF HeadHash
    <3>1. CASE b = a /\ n = Len(head[a]) + 1
      <4>1. SubSeq(head'[b], 1, n - 1) = head[a]
        <5>1. SubSeq(head[a], 1, Len(head[a])) = head[a]
          BY <1>1, <1>2, SubSeqFull DEF HeadHash
        <5>2. QED
          BY <1>6, <3>0, <3>1, <5>1
      <4>2. last \in 1 .. Len(history'[r])
        BY <1>3, <1>4
      <4>3. /\ requests'[r] # None
            /\ requests'[r].agentId = b
            /\ head'[b][n] = HashOf(r, last, history'[r][last])
            /\ history'[r][last].prevEntry = SubSeq(head'[b], 1, n - 1)
        BY <1>1, <1>3, <1>4, <1>5, <3>1, <4>1 DEF a
      <4>4. QED
        BY <4>2, <4>3
    <3>2. CASE ~(b = a /\ n = Len(head[a]) + 1)
      <4>1. n \in 1 .. Len(head[b])
        BY <1>5, <3>0, <3>2
      <4>2. head'[b][n] = head[b][n] /\ SubSeq(head'[b], 1, n - 1) = SubSeq(head[b], 1, n - 1)
        <5>1. n - 1 \in 0 .. Len(head[b])
          BY <3>0, <4>1
        <5>2. CASE b = a
          BY <1>5, <1>6, <4>1, <5>1, <5>2
        <5>3. CASE b # a
          BY <1>5, <5>3
        <5>4. QED
          BY <5>2, <5>3
      <4>3. PICK q \in RequestHash : \E i \in 1 .. Len(history[q]) :
              /\ requests[q] # None
              /\ requests[q].agentId = b
              /\ head[b][n] = HashOf(q, i, history[q][i])
              /\ history[q][i].prevEntry = SubSeq(head[b], 1, n - 1)
        BY <4>1 DEF ChainInv, HeadCommitsToHistory
      <4>4. PICK i \in 1 .. Len(history[q]) :
              /\ head[b][n] = HashOf(q, i, history[q][i])
              /\ history[q][i].prevEntry = SubSeq(head[b], 1, n - 1)
        BY <4>3
      <4>5. i \in 1 .. Len(history'[q]) /\ history'[q][i] = history[q][i]
        BY <1>3, <1>4
      <4>6. QED
        BY <1>1, <4>2, <4>3, <4>4, <4>5
    <3>3. QED
      BY <3>1, <3>2
  <2>2. QED
    BY <2>1 DEF HeadCommitsToHistory
<1>9. QED
  BY <1>7, <1>8 DEF ChainInv

LEMMA ChainStep == TypeOK /\ ChainInv /\ [Next]_vars => ChainInv'
<1> SUFFICES ASSUME TypeOK, ChainInv, [Next]_vars PROVE ChainInv'
  OBVIOUS
<1>0. TypeOK'
  BY TypeStep
<1>1. ASSUME NEW a \in AgentId, NEW r \in RequestHash, NEW v \in Validator,
             ValidationRequest(a, r, v)
      PROVE  ChainInv'
  BY <1>0, <1>1, ChainKept DEF ValidationRequest, contractVars
<1>2. ASSUME NEW r \in RequestHash, NEW v \in Validator, NEW resp \in Response,
             NEW rh \in ResponseHash, OtherResponse(r, v, resp, rh)
      PROVE  ChainInv'
  BY <1>0, <1>2, ChainKept DEF OtherResponse, contractVars
<1>3. ASSUME NEW a \in AgentId, NEW r \in RequestHash, NEW ic \in InputCommit,
             CommitRequest(a, r, ic)
      PROVE  ChainInv'
  <2>1. \A q \in RequestHash : requests[q] # None => requests'[q] = requests[q]
    BY <1>3 DEF CommitRequest, IsFresh, TypeOK
  <2>2. QED
    BY <1>0, <1>3, <2>1, ChainKept DEF CommitRequest
<1>4. ASSUME NEW r \in RequestHash, NEW resp \in Response, NEW rh \in ResponseHash,
             NEW p \in Proof, RecordResolution(r, resp, rh, p)
      PROVE  ChainInv'
  BY <1>4, ChainRecord
<1>5. ASSUME NEW a \in AgentId, NEW ref \in BitcoinRef, AnchorHead(a, ref)
      PROVE  ChainInv'
  BY <1>0, <1>5, ChainKept DEF AnchorHead, HeadToFreeze
<1>6. ASSUME NEW r \in RequestHash, NEW i \in 1 .. Len(history[r]), Challenge(r, i)
      PROVE  ChainInv'
  BY <1>0, <1>6, FlagOnly, ChainKept DEF Challenge
<1>7. ASSUME NEW r \in RequestHash, NEW i \in 1 .. Len(history[r]), ResolveChallenge(r, i)
      PROVE  ChainInv'
  BY <1>0, <1>7, FlagOnly, ChainKept DEF ResolveChallenge
<1>8. CASE UNCHANGED vars
  BY <1>0, <1>8, ChainKept DEF vars
<1>9. QED
  BY <1>1, <1>2, <1>3, <1>4, <1>5, <1>6, <1>7, <1>8 DEF Next

LEMMA ChainInit == Init => ChainInv
BY DEF Init, ChainInv, EntriesChained, HeadCommitsToHistory

\* No verdict is missing from its agent's hash chain, at any time, whoever calls
\* what in which order.
THEOREM EveryEntryChained == Spec => []EntriesChained
<1>1. Init => TypeOK /\ ChainInv
  BY TypeInit, ChainInit
<1>2. TypeOK /\ ChainInv /\ [Next]_vars => TypeOK' /\ ChainInv'
  BY TypeStep, ChainStep
<1>3. ChainInv => EntriesChained
  BY DEF ChainInv
<1>4. QED
  BY <1>1, <1>2, <1>3, PTL DEF Spec

\* No head commits to anything but recorded entries of its own agent.
THEOREM HeadsCommitToHistory == Spec => []HeadCommitsToHistory
<1>1. Init => TypeOK /\ ChainInv
  BY TypeInit, ChainInit
<1>2. TypeOK /\ ChainInv /\ [Next]_vars => TypeOK' /\ ChainInv'
  BY TypeStep, ChainStep
<1>3. ChainInv => HeadCommitsToHistory
  BY DEF ChainInv
<1>4. QED
  BY <1>1, <1>2, <1>3, PTL DEF Spec

--------------------------------------------------------------------------------
(* Nothing that was written is rewritten.                                   *)

LEMMA StepRewritesNothing == TypeOK /\ [Next]_vars => NothingIsRewritten
<1> SUFFICES ASSUME TypeOK, [Next]_vars PROVE NothingIsRewritten
  OBVIOUS
<1>0. /\ history \in [RequestHash -> Seq(Entry)]
      /\ head \in [AgentId -> HeadHash]
      /\ \A r \in RequestHash : Len(history[r]) \in Nat
      /\ \A a \in AgentId : IsPrefix(head[a], head[a])
  BY LenProperties, PrefixReflexive DEF TypeOK, HeadHash
<1>1. ASSUME NEW a \in AgentId, NEW r \in RequestHash, NEW v \in Validator,
             ValidationRequest(a, r, v)
      PROVE  NothingIsRewritten
  BY <1>0, <1>1 DEF ValidationRequest, contractVars, NothingIsRewritten
<1>2. ASSUME NEW r \in RequestHash, NEW v \in Validator, NEW resp \in Response,
             NEW rh \in ResponseHash, OtherResponse(r, v, resp, rh)
      PROVE  NothingIsRewritten
  BY <1>0, <1>2 DEF OtherResponse, contractVars, NothingIsRewritten
<1>3. ASSUME NEW a \in AgentId, NEW r \in RequestHash, NEW ic \in InputCommit,
             CommitRequest(a, r, ic)
      PROVE  NothingIsRewritten
  <2>1. \A q \in RequestHash : requests[q] # None => requests'[q] = requests[q]
    BY <1>3 DEF CommitRequest, IsFresh, TypeOK
  <2>2. QED
    BY <1>0, <1>3, <2>1 DEF CommitRequest, NothingIsRewritten
<1>4. ASSUME NEW r \in RequestHash, NEW resp \in Response, NEW rh \in ResponseHash,
             NEW p \in Proof, RecordResolution(r, resp, rh, p)
      PROVE  NothingIsRewritten
  <2>1. PICK e \in Entry : history' = [history EXCEPT ![r] = Append(@, e)]
    BY <1>4, RecordAppends
  <2>2. \A q \in RequestHash :
          /\ Len(history[q]) <= Len(history'[q])
          /\ \A i \in 1 .. Len(history[q]) : history'[q][i] = history[q][i]
    BY <1>0, <2>1, AppendProperties
  <2>3. \A b \in AgentId : IsPrefix(head[b], head'[b])
    <3>1. PICK a \in AgentId, link \in HeadLink : head' = [head EXCEPT ![a] = Append(@, link)]
      BY <1>4, RecordAppends
    <3>2. IsPrefix(head[a], Append(head[a], link))
      BY <1>0, PrefixOfAppend DEF HeadHash
    <3>3. QED
      BY <1>0, <3>1, <3>2
  <2>4. UNCHANGED <<requests, headAnchoredTo>>
    BY <1>4 DEF RecordResolution
  <2>5. QED
    BY <2>2, <2>3, <2>4 DEF NothingIsRewritten
<1>5. ASSUME NEW a \in AgentId, NEW ref \in BitcoinRef, AnchorHead(a, ref)
      PROVE  NothingIsRewritten
  <2>1. \A h \in DOMAIN headAnchoredTo :
          h \in DOMAIN headAnchoredTo' /\ headAnchoredTo'[h] = headAnchoredTo[h]
    BY <1>5 DEF AnchorHead, HeadToFreeze, IsUnanchored
  <2>2. UNCHANGED <<requests, history, head>>
    BY <1>5 DEF AnchorHead, HeadToFreeze
  <2>3. QED
    BY <1>0, <2>1, <2>2 DEF NothingIsRewritten
<1>6. ASSUME NEW r \in RequestHash, NEW i \in 1 .. Len(history[r]),
             Challenge(r, i) \/ ResolveChallenge(r, i)
      PROVE  NothingIsRewritten
  <2>1. \A q \in RequestHash :
          /\ Len(history'[q]) = Len(history[q])
          /\ \A j \in 1 .. Len(history[q]) :
               VerdictOf(history'[q][j]) = VerdictOf(history[q][j])
    BY <1>6, FlagOnly DEF Challenge, ResolveChallenge
  <2>2. UNCHANGED <<requests, head, headAnchoredTo>>
    BY <1>6 DEF Challenge, ResolveChallenge
  <2>3. QED
    BY <1>0, <2>1, <2>2 DEF NothingIsRewritten
<1>7. CASE UNCHANGED vars
  BY <1>0, <1>7 DEF vars, NothingIsRewritten
<1>8. QED
  BY <1>1, <1>2, <1>3, <1>4, <1>5, <1>6, <1>7 DEF Next

\* No step of anybody rewrites a commitment, an entry, a link of a chain or an
\* anchored reference.
THEOREM NothingRewritten == Spec => AppendOnly
<1>1. TypeOK /\ [Next]_vars => [NothingIsRewritten]_vars
  BY StepRewritesNothing
<1>2. QED
  BY <1>1, TypeInit, TypeStep, PTL DEF Spec, AppendOnly

--------------------------------------------------------------------------------
(* An anchored head is evidence about one agent.                            *)

\* Two agents' heads have nothing in common: the first link of a head already
\* names a request, and a request belongs to one agent.
LEMMA HeadsDiffer ==
  ASSUME TypeOK, HeadCommitsToHistory, NEW a \in AgentId, NEW b \in AgentId,
         NEW h \in HeadHash, h # <<>>, IsPrefix(h, head[a]), IsPrefix(h, head[b])
  PROVE  a = b
<1>1. head[a] \in Seq(HeadLink) /\ head[b] \in Seq(HeadLink) /\ h \in Seq(HeadLink)
  BY DEF TypeOK, HeadHash
<1>2. 1 \in 1 .. Len(h)
  BY <1>1, EmptySeq
<1>3. /\ 1 \in 1 .. Len(head[a]) /\ h[1] = head[a][1]
      /\ 1 \in 1 .. Len(head[b]) /\ h[1] = head[b][1]
  BY <1>1, <1>2, PrefixByElements, LenProperties
<1>4. PICK q \in RequestHash : \E i \in 1 .. Len(history[q]) :
        requests[q].agentId = a /\ head[a][1] = HashOf(q, i, history[q][i])
  BY <1>3 DEF HeadCommitsToHistory
<1>5. PICK r \in RequestHash : \E i \in 1 .. Len(history[r]) :
        requests[r].agentId = b /\ head[b][1] = HashOf(r, i, history[r][i])
  BY <1>3 DEF HeadCommitsToHistory
<1>6. q = head[a][1].requestHash /\ r = head[b][1].requestHash
  BY <1>4, <1>5 DEF HashOf, EntryHash
<1>7. QED
  BY <1>3, <1>4, <1>5, <1>6

\* The heads of two agents have no beginning in common.
HeadsDisjoint ==
  \A a, b \in AgentId : \A h \in HeadHash \ {<<>>} :
    IsPrefix(h, head[a]) /\ IsPrefix(h, head[b]) => a = b

LEMMA HeadsAreDisjoint == TypeOK /\ ChainInv => HeadsDisjoint
BY HeadsDiffer DEF HeadsDisjoint, ChainInv

AnchorsAreAncestors ==
  \A h \in DOMAIN headAnchoredTo : \E a \in AgentId : IsPrefix(h, head[a])

LEMMA AnchorsStep ==
  TypeOK /\ AnchorsAreAncestors /\ [Next]_vars => AnchorsAreAncestors'
<1> SUFFICES ASSUME TypeOK, AnchorsAreAncestors, [Next]_vars PROVE AnchorsAreAncestors'
  OBVIOUS
<1>1. /\ head \in [AgentId -> Seq(HeadLink)]
      /\ head' \in [AgentId -> Seq(HeadLink)]
      /\ \A h \in DOMAIN headAnchoredTo : h \in Seq(HeadLink)
  BY TypeStep DEF TypeOK, HeadHash
<1>2. \A a \in AgentId : IsPrefix(head[a], head'[a])
  BY StepRewritesNothing DEF NothingIsRewritten
<1>3. \A h \in DOMAIN headAnchoredTo : \E a \in AgentId : IsPrefix(h, head'[a])
  <2>1. SUFFICES ASSUME NEW h \in DOMAIN headAnchoredTo
                 PROVE  \E a \in AgentId : IsPrefix(h, head'[a])
    OBVIOUS
  <2>2. PICK a \in AgentId : IsPrefix(h, head[a])
    BY DEF AnchorsAreAncestors
  <2>3. IsPrefix(h, head'[a])
    BY <1>1, <1>2, <2>2, PrefixTransitive
  <2>4. QED
    BY <2>3
<1>4. CASE headAnchoredTo' = headAnchoredTo
  BY <1>3, <1>4 DEF AnchorsAreAncestors
<1>5. ASSUME NEW a \in AgentId, NEW ref \in BitcoinRef, AnchorHead(a, ref)
      PROVE  AnchorsAreAncestors'
  <2>1. head' = head /\ DOMAIN headAnchoredTo' = DOMAIN headAnchoredTo \cup {head[a]}
    BY <1>5 DEF AnchorHead, HeadToFreeze
  <2>2. IsPrefix(head[a], head[a])
    BY <1>1, PrefixReflexive
  <2>3. QED
    BY <1>3, <2>1, <2>2 DEF AnchorsAreAncestors
<1>6. QED
  BY <1>4, <1>5 DEF Next, ValidationRequest, OtherResponse, contractVars, CommitRequest,
     RecordResolution, Challenge, ResolveChallenge, vars

\* Whatever was anchored stays an ancestor of the head of one agent, and of that
\* agent alone.
THEOREM AnchorsIdentify == Spec => []AnchorsIdentifyLogs
<1>1. Init => AnchorsAreAncestors
  BY DEF Init, AnchorsAreAncestors
<1>2. TypeOK /\ ChainInv /\ AnchorsAreAncestors => AnchorsIdentifyLogs
  <2>1. SUFFICES ASSUME TypeOK, ChainInv, AnchorsAreAncestors,
                        NEW h \in DOMAIN headAnchoredTo, h # <<>>
                 PROVE  /\ \E a \in AgentId : IsPrefix(h, head[a])
                        /\ \A a, b \in AgentId :
                             IsPrefix(h, head[a]) /\ IsPrefix(h, head[b]) => a = b
    BY DEF AnchorsIdentifyLogs
  <2>2. h \in HeadHash
    BY <2>1 DEF TypeOK
  <2>3. \A a, b \in AgentId : IsPrefix(h, head[a]) /\ IsPrefix(h, head[b]) => a = b
    BY <2>1, <2>2, HeadsDiffer DEF ChainInv
  <2>4. QED
    BY <2>1, <2>3 DEF AnchorsAreAncestors
<1>3. QED
  BY <1>1, <1>2, TypeInit, ChainInit, TypeStep, ChainStep, AnchorsStep, PTL DEF Spec

--------------------------------------------------------------------------------
(* The registry and the auditor.                                            *)

LEMMA LastSays ==
  ASSUME NEW s \in Seq(Entry), NEW t \in Seq(Entry), Len(t) = Len(s),
         \A i \in 1 .. Len(s) : VerdictOf(t[i]) = VerdictOf(s[i])
  PROVE  /\ t = <<>> <=> s = <<>>
         /\ s # <<>> => /\ Last(t).response = Last(s).response
                       /\ Last(t).responseHash = Last(s).responseHash
<1>1. Len(s) \in Nat
  BY LenProperties
<1>2. t = <<>> <=> s = <<>>
  BY EmptySeq, <1>1
<1>3. ASSUME s # <<>>
      PROVE  Last(t).response = Last(s).response /\ Last(t).responseHash = Last(s).responseHash
  <2>1. Len(s) \in 1 .. Len(s)
    BY <1>1, <1>3, EmptySeq
  <2>2. VerdictOf(t[Len(s)]) = VerdictOf(s[Len(s)])
    BY <2>1
  <2>3. QED
    BY <2>2, VerdictDeterminesHash DEF Last
<1>4. QED
  BY <1>2, <1>3

LEMMA MirrorStep ==
  TypeOK /\ RegistryMirrorsLatest /\ [Next]_vars => RegistryMirrorsLatest'
<1> SUFFICES ASSUME TypeOK, RegistryMirrorsLatest, [Next]_vars
             PROVE  RegistryMirrorsLatest'
  OBVIOUS
<1>0. /\ history \in [RequestHash -> Seq(Entry)] /\ history' \in [RequestHash -> Seq(Entry)]
      /\ registryRequest \in [RequestHash -> RegistryRecord \cup {None}]
      /\ registryStatus \in [RequestHash -> Answer \cup {None}]
  BY TypeStep DEF TypeOK
<1>1. ASSUME NEW a \in AgentId, NEW r \in RequestHash, NEW v \in Validator,
             ValidationRequest(a, r, v)
      PROVE  RegistryMirrorsLatest'
  BY <1>0, <1>1 DEF ValidationRequest, contractVars, RegistryMirrorsLatest, RegistryAccepts
<1>2. ASSUME NEW r \in RequestHash, NEW v \in Validator, NEW resp \in Response,
             NEW rh \in ResponseHash, OtherResponse(r, v, resp, rh)
      PROVE  RegistryMirrorsLatest'
  BY <1>0, <1>2 DEF OtherResponse, contractVars, RegistryMirrorsLatest, RegistryAccepts
<1>3. ASSUME NEW a \in AgentId, NEW r \in RequestHash, NEW ic \in InputCommit,
             CommitRequest(a, r, ic)
      PROVE  RegistryMirrorsLatest'
  BY <1>3 DEF CommitRequest, RegistryMirrorsLatest, RegistryAccepts
<1>4. ASSUME NEW r \in RequestHash, NEW resp \in Response, NEW rh \in ResponseHash,
             NEW p \in Proof, RecordResolution(r, resp, rh, p)
      PROVE  RegistryMirrorsLatest'
  <2>1. PICK e \in Entry : /\ e.response = resp /\ e.responseHash = rh
                           /\ history' = [history EXCEPT ![r] = Append(@, e)]
    BY <1>4, RecordedEntry
  <2>2. history'[r] # <<>> /\ Last(history'[r]) = e
    <3>1. history'[r] = Append(history[r], e)
      BY <1>0, <2>1
    <3>2. QED
      BY <1>0, <3>1, AppendProperties DEF Last
  <2>3. /\ UNCHANGED registryRequest /\ RegistryAccepts(r, This)
        /\ registryStatus' = [registryStatus EXCEPT ![r] = [response |-> resp, responseHash |-> rh]]
    BY <1>4 DEF RecordResolution
  <2>4. QED
    BY <1>0, <2>1, <2>2, <2>3 DEF RegistryMirrorsLatest, RegistryAccepts
<1>5. ASSUME NEW a \in AgentId, NEW ref \in BitcoinRef, AnchorHead(a, ref)
      PROVE  RegistryMirrorsLatest'
  BY <1>5 DEF AnchorHead, HeadToFreeze, RegistryMirrorsLatest, RegistryAccepts
<1>6. ASSUME NEW r \in RequestHash, NEW i \in 1 .. Len(history[r]),
             Challenge(r, i) \/ ResolveChallenge(r, i)
      PROVE  RegistryMirrorsLatest'
  <2>1. \A q \in RequestHash :
          /\ history'[q] = <<>> <=> history[q] = <<>>
          /\ history[q] # <<>> => /\ Last(history'[q]).response = Last(history[q]).response
                                 /\ Last(history'[q]).responseHash = Last(history[q]).responseHash
    <3>1. \A q \in RequestHash :
            /\ Len(history'[q]) = Len(history[q])
            /\ \A j \in 1 .. Len(history[q]) :
                 VerdictOf(history'[q][j]) = VerdictOf(history[q][j])
      BY <1>6, FlagOnly DEF Challenge, ResolveChallenge
    <3>2. \A q \in RequestHash : history[q] \in Seq(Entry) /\ history'[q] \in Seq(Entry)
      BY <1>0
    <3>3. QED
      BY <3>1, <3>2, LastSays
  <2>2. UNCHANGED <<registryRequest, registryStatus>>
    BY <1>6 DEF Challenge, ResolveChallenge
  <2>3. QED
    BY <2>1, <2>2 DEF RegistryMirrorsLatest, RegistryAccepts
<1>7. CASE UNCHANGED vars
  BY <1>7 DEF vars, RegistryMirrorsLatest, RegistryAccepts
<1>8. QED
  BY <1>1, <1>2, <1>3, <1>4, <1>5, <1>6, <1>7 DEF Next

\* The registry never disagrees with the contract about a verdict, whatever other
\* validators and requesters do.
THEOREM RegistryMirrors == Spec => []RegistryMirrorsLatest
<1>1. Init => RegistryMirrorsLatest
  BY DEF Init, RegistryMirrorsLatest, RegistryAccepts
<1>2. QED
  BY <1>1, TypeInit, TypeStep, MirrorStep, PTL DEF Spec

LEMMA AuditStep ==
  TypeOK /\ EntriesChained /\ AuditReverifies /\ [Next]_vars => AuditReverifies'
<1> SUFFICES ASSUME TypeOK, EntriesChained, AuditReverifies, [Next]_vars
             PROVE  AuditReverifies'
  OBVIOUS
<1>0. /\ history \in [RequestHash -> Seq(Entry)]
      /\ calldata \in [RequestHash -> Seq(Proof)]
      /\ \A q \in RequestHash : Len(history[q]) \in Nat
  BY LenProperties DEF TypeOK
\* Steps other than recordResolution keep the proofs and what the entries say.
<1>1. ASSUME calldata' = calldata,
             \A q \in RequestHash : requests[q] # None => requests'[q] = requests[q],
             \A q \in RequestHash :
               /\ Len(history'[q]) = Len(history[q])
               /\ \A j \in 1 .. Len(history[q]) :
                    VerdictOf(history'[q][j]) = VerdictOf(history[q][j])
      PROVE  AuditReverifies'
  <2>1. ASSUME NEW q \in RequestHash, NEW j \in 1 .. Len(history[q])
        PROVE  /\ requests'[q] = requests[q]
               /\ history'[q][j].response = history[q][j].response
               /\ history'[q][j].responseHash = history[q][j].responseHash
               /\ history'[q][j].inputCommit = history[q][j].inputCommit
    BY <1>1, VerdictDeterminesHash DEF EntriesChained
  <2>2. QED
    BY <1>1, <2>1 DEF AuditReverifies
<1>2. ASSUME NEW r \in RequestHash, NEW resp \in Response, NEW rh \in ResponseHash,
             NEW p \in Proof, RecordResolution(r, resp, rh, p)
      PROVE  AuditReverifies'
  <2> DEFINE ic == requests[r].inputCommit
             last == Len(history[r]) + 1
  <2>1. PICK e \in Entry : /\ e.response = resp /\ e.responseHash = rh /\ e.inputCommit = ic
                           /\ history' = [history EXCEPT ![r] = Append(@, e)]
    BY <1>2, RecordedEntry
  <2>2. /\ <<p, ContextOf(r, ic, resp, rh)>> \in Accepts
        /\ calldata' = [calldata EXCEPT ![r] = Append(@, p)]
        /\ requests' = requests
    BY <1>2 DEF RecordResolution, Verify
  <2>3. /\ Len(history'[r]) = last /\ history'[r][last] = e
        /\ \A j \in 1 .. Len(history[r]) : history'[r][j] = history[r][j]
    <3>1. history'[r] = Append(history[r], e)
      BY <1>0, <2>1
    <3>2. QED
      BY <1>0, <3>1, AppendProperties
  <2>4. /\ Len(calldata'[r]) = last /\ calldata'[r][last] = p
        /\ \A j \in 1 .. Len(history[r]) : calldata'[r][j] = calldata[r][j]
    <3>1. calldata'[r] = Append(calldata[r], p)
      BY <1>0, <2>2
    <3>2. Len(calldata[r]) = Len(history[r])
      BY DEF AuditReverifies
    <3>3. QED
      BY <1>0, <3>1, <3>2, AppendProperties
  <2>5. ASSUME NEW q \in RequestHash, q # r
        PROVE  history'[q] = history[q] /\ calldata'[q] = calldata[q]
    BY <1>0, <2>1, <2>2, <2>5
  <2>6. ASSUME NEW j \in 1 .. Len(history'[r])
        PROVE  LET f == history'[r][j] IN
               /\ f.inputCommit = ic
               /\ <<calldata'[r][j], ContextOf(r, ic, f.response, f.responseHash)>> \in Accepts
    <3>1. CASE j = last
      BY <2>1, <2>2, <2>3, <2>4, <3>1
    <3>2. CASE j # last
      <4>1. j \in 1 .. Len(history[r])
        BY <1>0, <2>3, <3>2
      <4>2. QED
        BY <2>3, <2>4, <4>1 DEF AuditReverifies
    <3>3. QED
      BY <3>1, <3>2
  <2>7. ASSUME NEW q \in RequestHash
        PROVE  /\ Len(calldata'[q]) = Len(history'[q])
               /\ \A j \in 1 .. Len(history'[q]) :
                    LET f == history'[q][j] IN
                    /\ f.inputCommit = requests[q].inputCommit
                    /\ <<calldata'[q][j],
                        ContextOf(q, requests[q].inputCommit, f.response, f.responseHash)>> \in Accepts
    <3>1. CASE q = r
      BY <2>3, <2>4, <2>6, <3>1
    <3>2. CASE q # r
      BY <2>5, <3>2 DEF AuditReverifies
    <3>3. QED
      BY <3>1, <3>2
  <2>8. QED
    BY <2>2, <2>7 DEF AuditReverifies
<1>3. ASSUME NEW a \in AgentId, NEW r \in RequestHash, NEW ic \in InputCommit,
             CommitRequest(a, r, ic)
      PROVE  AuditReverifies'
  <2>1. \A q \in RequestHash : requests[q] # None => requests'[q] = requests[q]
    BY <1>3 DEF CommitRequest, IsFresh, TypeOK
  <2>2. QED
    BY <1>1, <1>3, <2>1 DEF CommitRequest
<1>4. ASSUME NEW r \in RequestHash, NEW i \in 1 .. Len(history[r]),
             Challenge(r, i) \/ ResolveChallenge(r, i)
      PROVE  AuditReverifies'
  BY <1>1, <1>4, FlagOnly DEF Challenge, ResolveChallenge
<1>5. ASSUME UNCHANGED <<requests, history, calldata>>
      PROVE  AuditReverifies'
  BY <1>1, <1>5
<1>6. QED
  BY <1>2, <1>3, <1>4, <1>5
     DEF Next, ValidationRequest, OtherResponse, AnchorHead, contractVars, vars

\* Every verdict can be verified again, from the chain alone, at any later time.
THEOREM AuditAlwaysReverifies == Spec => []AuditReverifies
<1>1. Init => AuditReverifies
  BY DEF Init, AuditReverifies
<1>2. TypeOK /\ ChainInv => EntriesChained
  BY DEF ChainInv
<1>3. QED
  BY <1>1, <1>2, TypeInit, ChainInit, TypeStep, ChainStep, AuditStep, PTL DEF Spec

--------------------------------------------------------------------------------
(* Challenges.                                                              *)

LEMMA StepClosesByRecomputation ==
  TypeOK /\ AuditReverifies /\ [Next]_vars => [ClosesByRecomputation]_vars
<1> SUFFICES ASSUME TypeOK, AuditReverifies, Next PROVE ClosesByRecomputation
  BY DEF ClosesByRecomputation
<1>0. /\ history \in [RequestHash -> Seq(Entry)]
      /\ \A q \in RequestHash : Len(history[q]) \in Nat
  BY LenProperties DEF TypeOK
<1>1. ASSUME NEW r \in RequestHash, NEW resp \in Response, NEW rh \in ResponseHash,
             NEW p \in Proof, RecordResolution(r, resp, rh, p)
      PROVE  ClosesByRecomputation
  <2>1. PICK e \in Entry : history' = [history EXCEPT ![r] = Append(@, e)]
    BY <1>1, RecordedEntry
  <2>2. ASSUME NEW q \in RequestHash, NEW j \in 1 .. Len(history[q])
        PROVE  history'[q][j] = history[q][j]
    <3>1. CASE q = r
      BY <1>0, <2>1, <3>1, AppendProperties
    <3>2. CASE q # r
      BY <1>0, <2>1, <3>2
    <3>3. QED
      BY <3>1, <3>2
  <2>3. QED
    BY <2>2 DEF ClosesByRecomputation
<1>2. ASSUME NEW r \in RequestHash, NEW i \in 1 .. Len(history[r]), NEW b \in BOOLEAN,
             history' = [history EXCEPT ![r][i].challenged = b],
             b \/ ContextOf(r, history[r][i].inputCommit, history[r][i].response,
                           history[r][i].responseHash) \in Genuine
      PROVE  ClosesByRecomputation
  <2> DEFINE f == [history[r][i] EXCEPT !.challenged = b]
             s == [history[r] EXCEPT ![i] = f]
  <2>1. history[r][i] \in Entry
    BY <1>0, ElementOfSeq
  <2>2. f.challenged = b
    BY <2>1 DEF Entry
  <2>3. history' = [history EXCEPT ![r] = s]
    BY <1>2
  <2> HIDE DEF f
  <2>4. \A j \in 1 .. Len(history[r]) : s[j] = IF j = i THEN f ELSE history[r][j]
    BY <1>0, ExceptSeq
  <2> HIDE DEF s
  <2>5. ASSUME NEW q \in RequestHash, NEW j \in 1 .. Len(history[q])
        PROVE  history'[q][j] = IF q = r /\ j = i THEN f ELSE history[q][j]
    <3>1. CASE q = r
      BY <1>0, <2>3, <2>4, <3>1
    <3>2. CASE q # r
      BY <1>0, <2>3, <3>2
    <3>3. QED
      BY <3>1, <3>2
  <2>6. QED
    BY <1>2, <2>2, <2>5 DEF ClosesByRecomputation
<1>3. ASSUME NEW r \in RequestHash, NEW i \in 1 .. Len(history[r]), Challenge(r, i)
      PROVE  ClosesByRecomputation
  BY <1>2, <1>3 DEF Challenge
<1>4. ASSUME NEW r \in RequestHash, NEW i \in 1 .. Len(history[r]), ResolveChallenge(r, i)
      PROVE  ClosesByRecomputation
  <2>1. history[r][i].inputCommit = requests[r].inputCommit
    BY DEF AuditReverifies
  <2>2. QED
    BY <1>2, <1>4, <2>1 DEF ResolveChallenge, VerifyFull
<1>5. CASE UNCHANGED history
  BY <1>5 DEF ClosesByRecomputation
<1>6. QED
  BY <1>1, <1>3, <1>4, <1>5
     DEF Next, ValidationRequest, OtherResponse, CommitRequest, AnchorHead, contractVars

\* Nothing but recomputation closes a challenge, for any set of genuine computations.
THEOREM OnlyRecomputationCloses == Spec => OpenUntilRecomputed
<1>1. TypeOK /\ ChainInv => EntriesChained
  BY DEF ChainInv
<1>2. Init => AuditReverifies
  BY DEF Init, AuditReverifies
<1>3. QED
  BY <1>1, <1>2, TypeInit, ChainInit, TypeStep, ChainStep, AuditStep,
     StepClosesByRecomputation, PTL DEF Spec, OpenUntilRecomputed

--------------------------------------------------------------------------------
(* The contract implements the ledger its consumers rely on.                *)

LedgerInv == TypeOK /\ ChainInv /\ AnchorsAreAncestors /\ RegistryMirrorsLatest

LEMMA LedgerInvariant == Spec => []LedgerInv
<1>1. Init => LedgerInv
  <2>1. Init => AnchorsAreAncestors /\ RegistryMirrorsLatest
    BY DEF Init, AnchorsAreAncestors, RegistryMirrorsLatest, RegistryAccepts
  <2>2. QED
    BY <2>1, TypeInit, ChainInit DEF LedgerInv
<1>2. LedgerInv /\ [Next]_vars => LedgerInv'
  BY TypeStep, ChainStep, AnchorsStep, MirrorStep DEF LedgerInv
<1>3. QED
  BY <1>1, <1>2, PTL DEF Spec

\* The consumer's view of the contract, by name.
Owner == [r \in RequestHash |-> IF requests[r] = None THEN None ELSE requests[r].agentId]

LineOf(link) ==
  [request |-> link.requestHash,
   verdict |-> [response |-> link.response, responseHash |-> link.responseHash]]

Log == [a \in AgentId |-> [n \in 1 .. Len(head[a]) |-> LineOf(head[a][n])]]

Current == [r \in RequestHash |-> IF RegistryAccepts(r, This) THEN registryStatus[r] ELSE None]

FrozenLengths(a) ==
  {m \in 1 .. Len(head[a]) : SubSeq(head[a], 1, m) \in DOMAIN headAnchoredTo}

Frozen ==
  [a \in AgentId |-> [n \in FrozenLengths(a) |-> headAnchoredTo[SubSeq(head[a], 1, n)]]]

\* The frozen lengths of one log, one more of them added.
Extended(f, n, ref) == [m \in DOMAIN f \cup {n} |-> IF m = n THEN ref ELSE f[m]]

LedgerView == <<Owner, Log, Current, Frozen>>

LEMMA ViewRefinesInit == Init => Ledger!Init
<1> SUFFICES ASSUME Init PROVE Ledger!Init
  OBVIOUS
<1>1. \A a \in AgentId : 1 .. Len(head[a]) = {}
  BY DEF Init
<1>2. Owner = [r \in RequestHash |-> None] /\ Current = [r \in RequestHash |-> None]
  BY DEF Init, Owner, Current, RegistryAccepts
<1>3. Log = [a \in AgentId |-> <<>>]
  BY <1>1 DEF Log
<1>4. Frozen = [a \in AgentId |-> <<>>]
  BY <1>1 DEF Frozen, FrozenLengths
<1>5. QED
  BY <1>2, <1>3, <1>4 DEF Ledger!Init, Owner, Log, LineOf, Current, Frozen, FrozenLengths

\* Neither a challenge, nor the opening of a request at the registry, nor the answer
\* of another validator is seen.
LEMMA ViewStutters ==
  ASSUME LedgerInv,
         \/ \E a \in AgentId, r \in RequestHash, v \in Validator : ValidationRequest(a, r, v)
         \/ \E r \in RequestHash, v \in Validator, resp \in Response, rh \in ResponseHash :
              OtherResponse(r, v, resp, rh)
         \/ \E r \in RequestHash : \E i \in 1 .. Len(history[r]) :
              Challenge(r, i) \/ ResolveChallenge(r, i)
         \/ UNCHANGED vars
  PROVE  UNCHANGED LedgerView
<1>1. UNCHANGED <<requests, head, headAnchoredTo>>
  BY DEF ValidationRequest, OtherResponse, Challenge, ResolveChallenge, contractVars, vars
<1>2. UNCHANGED <<Owner, Log, Frozen>>
  BY <1>1 DEF Owner, Log, Frozen, FrozenLengths
<1>3. ASSUME NEW a \in AgentId, NEW r \in RequestHash, NEW v \in Validator,
             ValidationRequest(a, r, v)
      PROVE  Current' = Current
  <2>1. registryStatus' = registryStatus /\ registryRequest[r] = None
    BY <1>3 DEF ValidationRequest
  <2>2. registryStatus[r] = None
    BY <2>1 DEF LedgerInv, RegistryMirrorsLatest, RegistryAccepts
  <2>3. \A q \in RequestHash \ {r} : registryRequest'[q] = registryRequest[q]
    BY <1>3 DEF ValidationRequest, LedgerInv, TypeOK
  <2>4. QED
    BY <2>1, <2>2, <2>3 DEF Current, RegistryAccepts
<1>4. ASSUME NEW r \in RequestHash, NEW v \in Validator, NEW resp \in Response,
             NEW rh \in ResponseHash, OtherResponse(r, v, resp, rh)
      PROVE  Current' = Current
  <2>1. /\ registryRequest' = registryRequest /\ ~RegistryAccepts(r, This)
        /\ \A q \in RequestHash \ {r} : registryStatus'[q] = registryStatus[q]
    BY <1>4 DEF OtherResponse, RegistryAccepts, LedgerInv, TypeOK
  <2>2. QED
    BY <2>1 DEF Current, RegistryAccepts
<1>5. ASSUME UNCHANGED <<registryRequest, registryStatus>>
      PROVE  Current' = Current
  BY <1>5 DEF Current, RegistryAccepts
<1>6. Current' = Current
  BY <1>3, <1>4, <1>5 DEF Challenge, ResolveChallenge, vars
<1>7. QED
  BY <1>2, <1>6 DEF LedgerView

LEMMA CommitOpens ==
  ASSUME LedgerInv, NEW a \in AgentId, NEW r \in RequestHash, NEW ic \in InputCommit,
         CommitRequest(a, r, ic)
  PROVE  /\ Owner[r] = None
         /\ Owner' = [Owner EXCEPT ![r] = a]
         /\ UNCHANGED <<Log, Current, Frozen>>
<1>1. /\ requests[r] = None
      /\ requests' = [requests EXCEPT ![r] = [agentId |-> a, inputCommit |-> ic]]
      /\ requests \in [RequestHash -> RequestRecord \cup {None}]
      /\ [agentId |-> a, inputCommit |-> ic] # None
  BY NoneAssumption DEF CommitRequest, IsFresh, LedgerInv, TypeOK
<1>2. UNCHANGED <<head, headAnchoredTo, registryRequest, registryStatus>>
  BY DEF CommitRequest
<1>3. Owner[r] = None
  BY <1>1 DEF Owner
<1>4. Owner' = [Owner EXCEPT ![r] = a]
  BY <1>1 DEF Owner
<1>5. QED
  BY <1>2, <1>3, <1>4 DEF Log, Current, RegistryAccepts, Frozen, FrozenLengths

LEMMA RecordPublishes ==
  ASSUME LedgerInv, LedgerInv', NEW r \in RequestHash, NEW resp \in Response,
         NEW rh \in ResponseHash, NEW p \in Proof, RecordResolution(r, resp, rh, p),
         NEW a \in AgentId, a = requests[r].agentId
  PROVE  LET v == [response |-> resp, responseHash |-> rh]
         IN  /\ Owner[r] = a
             /\ Log' = [Log EXCEPT ![a] = Append(@, [request |-> r, verdict |-> v])]
             /\ Current' = [Current EXCEPT ![r] = v]
             /\ UNCHANGED <<Owner, Frozen>>
<1> DEFINE v == [response |-> resp, responseHash |-> rh]
           link == EntryHash(r, Len(history[r]), resp, rh, requests[r].inputCommit)
<1>1. /\ requests[r] # None /\ link \in HeadLink
      /\ head' = [head EXCEPT ![a] = Append(@, link)]
      /\ UNCHANGED <<requests, headAnchoredTo, registryRequest>>
      /\ RegistryAccepts(r, This)
      /\ registryStatus' = [registryStatus EXCEPT ![r] = v]
  BY RecordAppends DEF RecordResolution, LedgerInv
<1>2. LineOf(link) = [request |-> r, verdict |-> v]
  BY DEF LineOf, EntryHash
<1> HIDE DEF link, v
<1>3. head \in [AgentId -> Seq(HeadLink)] /\ registryStatus \in [RequestHash -> Answer \cup {None}]
  BY DEF LedgerInv, TypeOK, HeadHash
<1>4. /\ head'[a] = Append(head[a], link)
      /\ \A b \in AgentId \ {a} : head'[b] = head[b]
  BY <1>1, <1>3
<1>5. /\ Len(head[a]) \in Nat
      /\ Len(head'[a]) = Len(head[a]) + 1
      /\ head'[a][Len(head[a]) + 1] = link
      /\ \A n \in 1 .. Len(head[a]) : head'[a][n] = head[a][n]
      /\ head'[a] \in Seq(HeadLink)
  BY <1>1, <1>3, <1>4, AppendProperties, LenProperties
<1>6. Owner[r] = a /\ Owner' = Owner
  BY <1>1 DEF Owner
<1>7. Current' = [Current EXCEPT ![r] = v]
  BY <1>1, <1>3 DEF Current, RegistryAccepts
<1>8. Log' = [Log EXCEPT ![a] = Append(@, [request |-> r, verdict |-> v])]
  <2> DEFINE line == LineOf(link)
             lines == [n \in 1 .. Len(head[a]) |-> LineOf(head[a][n])]
             lines1 == [n \in 1 .. Len(head'[a]) |-> LineOf(head'[a][n])]
  <2>1. lines \in Seq({LineOf(x) : x \in HeadLink}) /\ Len(lines) = Len(head[a])
    <3>1. \A n \in 1 .. Len(head[a]) : LineOf(head[a][n]) \in {LineOf(x) : x \in HeadLink}
      BY <1>1, <1>3, ElementOfSeq
    <3>2. QED
      BY <1>5, <3>1, IsASeq
  <2>2. /\ Len(Append(lines, line)) = Len(head[a]) + 1
        /\ Append(lines, line) \in Seq({LineOf(x) : x \in HeadLink})
        /\ Append(lines, line)[Len(head[a]) + 1] = line
        /\ \A n \in 1 .. Len(head[a]) : Append(lines, line)[n] = LineOf(head[a][n])
    BY <1>1, <2>1, AppendProperties
  <2>3. lines1 \in Seq({LineOf(x) : x \in HeadLink}) /\ Len(lines1) = Len(head[a]) + 1
    <3>1. \A n \in 1 .. Len(head'[a]) : LineOf(head'[a][n]) \in {LineOf(x) : x \in HeadLink}
      BY <1>5, ElementOfSeq
    <3>2. QED
      BY <1>5, <3>1, IsASeq
  <2>4. \A n \in 1 .. Len(head[a]) + 1 : lines1[n] = Append(lines, line)[n]
    <3> SUFFICES ASSUME NEW n \in 1 .. Len(head[a]) + 1
                 PROVE  lines1[n] = Append(lines, line)[n]
      OBVIOUS
    <3>1. lines1[n] = LineOf(head'[a][n])
      BY <1>5
    <3>2. CASE n = Len(head[a]) + 1
      BY <1>5, <2>2, <3>1, <3>2
    <3>3. CASE n # Len(head[a]) + 1
      <4>1. n \in 1 .. Len(head[a])
        BY <1>5, <3>3
      <4>2. QED
        BY <1>5, <2>2, <3>1, <4>1
    <3>4. QED
      BY <3>2, <3>3
  <2>5. lines1 = Append(lines, line)
    BY <2>2, <2>3, <2>4, SeqEqual
  <2>6. Log[a] = lines /\ Log'[a] = lines1
    BY <1>1 DEF Log
  <2>7. \A b \in AgentId \ {a} : Log'[b] = Log[b]
    BY <1>4 DEF Log
  <2> HIDE DEF lines, lines1, line
  <2>8. Log' = [b \in AgentId |-> Log'[b]] /\ Log = [b \in AgentId |-> Log[b]]
    BY DEF Log
  <2>9. Log' = [Log EXCEPT ![a] = Append(lines, line)]
    BY <1>1, <2>5, <2>6, <2>7, <2>8
  <2>10. QED
    BY <1>1, <1>2, <2>6, <2>9 DEF line
<1>9. Frozen' = Frozen
  <2>1. \A m \in 1 .. Len(head[a]) : SubSeq(head'[a], 1, m) = SubSeq(head[a], 1, m)
    BY <1>1, <1>3, <1>4, <1>5, FirstElementsOfAppend
  <2>2. SubSeq(head'[a], 1, Len(head'[a])) \notin DOMAIN headAnchoredTo
    <3>1. SubSeq(head'[a], 1, Len(head'[a])) = head'[a] /\ head'[a] # <<>>
      BY <1>5, SubSeqFull, EmptySeq
    <3>2. SUFFICES ASSUME head'[a] \in DOMAIN headAnchoredTo PROVE FALSE
      BY <3>1
    <3>3. PICK b \in AgentId : IsPrefix(head'[a], head[b])
      BY <3>2 DEF LedgerInv, AnchorsAreAncestors
    <3>4. b # a
      <4>1. ASSUME b = a PROVE FALSE
        <5>1. Len(head'[a]) <= Len(head[a])
          BY <1>1, <1>3, <1>5, <3>3, <4>1, PrefixByElements
        <5>2. QED
          BY <1>5, <5>1
      <4>2. QED
        BY <4>1
    <3>5. IsPrefix(head'[a], head'[b]) /\ IsPrefix(head'[a], head'[a])
      BY <1>4, <1>5, <3>3, <3>4, PrefixReflexive
    <3>6. LedgerInv' => HeadsDisjoint'
      BY HeadsAreDisjoint, PTL DEF LedgerInv
    <3>7. QED
      BY <1>5, <3>1, <3>4, <3>5, <3>6 DEF HeadsDisjoint, HeadHash
  <2>3. FrozenLengths(a)' = FrozenLengths(a)
    <3>1. ASSUME NEW m \in 1 .. Len(head[a])
          PROVE  m \in FrozenLengths(a)' <=> m \in FrozenLengths(a)
      <4>1. m \in 1 .. Len(head'[a]) /\ SubSeq(head'[a], 1, m) = SubSeq(head[a], 1, m)
        BY <1>5, <2>1
      <4>2. headAnchoredTo' = headAnchoredTo
        BY <1>1
      <4>3. QED
        BY <4>1, <4>2 DEF FrozenLengths
    <3>2. Len(head'[a]) \notin FrozenLengths(a)'
      BY <1>1, <2>2 DEF FrozenLengths
    <3>3. /\ \A m \in FrozenLengths(a) : m \in 1 .. Len(head[a])
          /\ \A m \in FrozenLengths(a)' : m \in 1 .. Len(head'[a])
      BY DEF FrozenLengths
    <3>4. \A m \in FrozenLengths(a)' : m \in 1 .. Len(head[a])
      BY <1>5, <3>2, <3>3
    <3>5. QED
      BY <3>1, <3>3, <3>4
  <2>4. \A b \in AgentId \ {a} : FrozenLengths(b)' = FrozenLengths(b)
    BY <1>1, <1>4 DEF FrozenLengths
  <2>5. \A n \in FrozenLengths(a) : n \in 1 .. Len(head[a])
    BY DEF FrozenLengths
  <2>6. ASSUME NEW b \in AgentId
        PROVE  [n \in FrozenLengths(b)' |-> headAnchoredTo'[SubSeq(head'[b], 1, n)]]
               = [n \in FrozenLengths(b) |-> headAnchoredTo[SubSeq(head[b], 1, n)]]
    <3>1. FrozenLengths(b)' = FrozenLengths(b)
      BY <2>3, <2>4
    <3>2. \A n \in FrozenLengths(b) : SubSeq(head'[b], 1, n) = SubSeq(head[b], 1, n)
      BY <1>4, <2>1, <2>5
    <3>3. headAnchoredTo' = headAnchoredTo
      BY <1>1
    <3>4. \A n \in FrozenLengths(b) :
            headAnchoredTo'[SubSeq(head'[b], 1, n)] = headAnchoredTo[SubSeq(head[b], 1, n)]
      BY <3>2, <3>3
    <3> HIDE DEF FrozenLengths
    <3>5. QED
      BY <3>1, <3>4
  <2>7. QED
    BY <2>6 DEF Frozen
<1>10. QED
  BY <1>1, <1>6, <1>7, <1>8, <1>9 DEF v

\* The zero head of an agent without entries is no evidence; any other head is frozen
\* for its agent alone.
LEMMA AnchorFreezes ==
  ASSUME LedgerInv, NEW a \in AgentId, NEW ref \in BitcoinRef, AnchorHead(a, ref)
  PROVE  LET n == Len(head[a]) IN
         /\ UNCHANGED <<Owner, Log, Current>>
         /\ head[a] = <<>> => UNCHANGED Frozen
         /\ head[a] # <<>> =>
              /\ Len(Log[a]) = n /\ n > 0
              /\ n \notin DOMAIN Frozen[a]
              /\ Frozen' = [Frozen EXCEPT ![a] = Extended(@, n, ref)]
<1> DEFINE n == Len(head[a])
<1>1. /\ UNCHANGED <<requests, history, head, registryRequest, registryStatus>>
      /\ head[a] \notin DOMAIN headAnchoredTo
      /\ headAnchoredTo' = [h \in DOMAIN headAnchoredTo \cup {head[a]} |->
                              IF h = head[a] THEN ref ELSE headAnchoredTo[h]]
  BY DEF AnchorHead, HeadToFreeze, IsUnanchored
<1>2. UNCHANGED <<Owner, Log, Current>>
  BY <1>1 DEF Owner, Log, Current, RegistryAccepts
<1>3. head \in [AgentId -> Seq(HeadLink)]
  BY DEF LedgerInv, TypeOK, HeadHash
<1>4. n \in Nat /\ (n > 0 <=> head[a] # <<>>)
  BY <1>3, LenProperties, EmptySeq
<1>5. ASSUME NEW b \in AgentId, NEW m \in 1 .. Len(head[b])
      PROVE  /\ SubSeq(head[b], 1, m) \in Seq(HeadLink)
             /\ Len(SubSeq(head[b], 1, m)) = m
             /\ SubSeq(head[b], 1, m) # <<>>
             /\ IsPrefix(SubSeq(head[b], 1, m), head[b])
  <2>1. head[b] \in Seq(HeadLink) /\ m \in 0 .. Len(head[b]) /\ m > 0
    BY <1>3
  <2>2. /\ SubSeq(head[b], 1, m) \in Seq(HeadLink)
        /\ Len(SubSeq(head[b], 1, m)) = m
        /\ IsPrefix(SubSeq(head[b], 1, m), head[b])
    BY <2>1, FirstElements, FirstElementsPrefix
  <2>3. QED
    BY <2>1, <2>2, EmptySeq
\* Which beginnings are the head that is frozen now.
<1>6. ASSUME NEW b \in AgentId, NEW m \in 1 .. Len(head[b]), SubSeq(head[b], 1, m) = head[a]
      PROVE  head[a] # <<>> /\ b = a /\ m = n
  <2>1. head[a] # <<>> /\ IsPrefix(head[a], head[b]) /\ m = n
    BY <1>5, <1>6
  <2>2. IsPrefix(head[a], head[a]) /\ head[a] \in HeadHash
    BY <1>3, PrefixReflexive DEF HeadHash
  <2>3. b = a
    BY <2>1, <2>2, HeadsAreDisjoint DEF HeadsDisjoint, LedgerInv
  <2>4. QED
    BY <2>1, <2>3
<1>7. ASSUME NEW b \in AgentId, NEW m \in 1 .. Len(head[b]), ~(b = a /\ m = n)
      PROVE  /\ m \in FrozenLengths(b)' <=> m \in FrozenLengths(b)
             /\ m \in FrozenLengths(b) =>
                  headAnchoredTo'[SubSeq(head'[b], 1, m)] = headAnchoredTo[SubSeq(head[b], 1, m)]
  <2>1. SubSeq(head[b], 1, m) # head[a] /\ head' = head
    BY <1>1, <1>6, <1>7
  <2>2. /\ SubSeq(head[b], 1, m) \in DOMAIN headAnchoredTo' <=>
              SubSeq(head[b], 1, m) \in DOMAIN headAnchoredTo
        /\ SubSeq(head[b], 1, m) \in DOMAIN headAnchoredTo =>
              headAnchoredTo'[SubSeq(head[b], 1, m)] = headAnchoredTo[SubSeq(head[b], 1, m)]
    BY <1>1, <2>1
  <2>3. QED
    BY <2>1, <2>2 DEF FrozenLengths
<1>8. \A b \in AgentId : /\ \A m \in FrozenLengths(b) : m \in 1 .. Len(head[b])
                         /\ \A m \in FrozenLengths(b)' : m \in 1 .. Len(head[b])
  BY <1>1 DEF FrozenLengths
<1>9. ASSUME NEW b \in AgentId, b # a \/ head[a] = <<>>
      PROVE  Frozen'[b] = Frozen[b]
  <2>1. \A m \in 1 .. Len(head[b]) : ~(b = a /\ m = n)
    BY <1>4, <1>9
  <2>2. FrozenLengths(b)' = FrozenLengths(b)
    BY <1>7, <1>8, <2>1
  <2>3. \A m \in FrozenLengths(b) :
          headAnchoredTo'[SubSeq(head'[b], 1, m)] = headAnchoredTo[SubSeq(head[b], 1, m)]
    BY <1>7, <1>8, <2>1
  <2>4. /\ Frozen[b] = [m \in FrozenLengths(b) |-> headAnchoredTo[SubSeq(head[b], 1, m)]]
        /\ Frozen'[b] = [m \in FrozenLengths(b)' |-> headAnchoredTo'[SubSeq(head'[b], 1, m)]]
    BY DEF Frozen
  <2>5. QED
    BY <2>2, <2>3, <2>4
<1>10. Frozen = [b \in AgentId |-> Frozen[b]] /\ Frozen' = [b \in AgentId |-> Frozen'[b]]
  BY DEF Frozen
<1>11. ASSUME head[a] # <<>>
       PROVE  /\ Len(Log[a]) = n
              /\ n \notin DOMAIN Frozen[a]
              /\ Frozen'[a] = [m \in DOMAIN Frozen[a] \cup {n} |->
                                 IF m = n THEN ref ELSE Frozen[a][m]]
  <2>1. SubSeq(head[a], 1, n) = head[a] /\ n \in 1 .. Len(head[a])
    BY <1>3, <1>4, <1>11, SubSeqFull
  <2>2. DOMAIN Frozen[a] = FrozenLengths(a) /\ n \notin FrozenLengths(a)
    BY <1>1, <2>1 DEF Frozen, FrozenLengths
  <2>3. Len(Log[a]) = n
    <3>1. Log[a] = [i \in 1 .. n |-> LineOf(head[a][i])]
      BY DEF Log
    <3>2. QED
      BY <1>4, <3>1
  <2>4. n \in FrozenLengths(a)' /\ headAnchoredTo'[SubSeq(head'[a], 1, n)] = ref
    <3>1. SubSeq(head'[a], 1, n) = head[a] /\ n \in 1 .. Len(head'[a])
      BY <1>1, <2>1
    <3>2. head[a] \in DOMAIN headAnchoredTo' /\ headAnchoredTo'[head[a]] = ref
      BY <1>1
    <3>3. QED
      BY <3>1, <3>2 DEF FrozenLengths
  <2>5. FrozenLengths(a)' = FrozenLengths(a) \cup {n}
    BY <1>7, <1>8, <2>2, <2>4
  <2>6. \A m \in FrozenLengths(a) :
          headAnchoredTo'[SubSeq(head'[a], 1, m)] = headAnchoredTo[SubSeq(head[a], 1, m)]
    BY <1>7, <1>8, <2>2
  <2>7. /\ Frozen[a] = [m \in FrozenLengths(a) |-> headAnchoredTo[SubSeq(head[a], 1, m)]]
        /\ Frozen'[a] = [m \in FrozenLengths(a)' |-> headAnchoredTo'[SubSeq(head'[a], 1, m)]]
    BY DEF Frozen
  <2>8. QED
    BY <2>2, <2>3, <2>4, <2>5, <2>6, <2>7
<1>12. head[a] = <<>> => Frozen' = Frozen
  BY <1>9, <1>10
<1>13. ASSUME head[a] # <<>>
       PROVE  Frozen' = [Frozen EXCEPT ![a] = Extended(@, n, ref)]
  <2>1. /\ Frozen'[a] = Extended(Frozen[a], n, ref)
        /\ \A b \in AgentId \ {a} : Frozen'[b] = Frozen[b]
    BY <1>9, <1>11, <1>13 DEF Extended
  <2>2. QED
    BY <1>10, <2>1
<1>14. QED
  BY <1>2, <1>4, <1>11, <1>12, <1>13

\* The mapping, by the names of this module.
LEMMA MappedActions ==
  /\ \A a, r : Ledger!Open(a, r) <=>
       /\ Owner[r] = None
       /\ Owner' = [Owner EXCEPT ![r] = a]
       /\ UNCHANGED <<Log, Current, Frozen>>
  /\ \A a, r, v : Ledger!Publish(a, r, v) <=>
       /\ Owner[r] = a
       /\ Log' = [Log EXCEPT ![a] = Append(@, [request |-> r, verdict |-> v])]
       /\ Current' = [Current EXCEPT ![r] = v]
       /\ UNCHANGED <<Owner, Frozen>>
  /\ \A a, ref : Ledger!Freeze(a, ref) <=>
       LET n == Len(Log[a]) IN
       /\ n > 0
       /\ n \notin DOMAIN Frozen[a]
       /\ Frozen' = [Frozen EXCEPT ![a] = Extended(@, n, ref)]
       /\ UNCHANGED <<Owner, Log, Current>>
  /\ (UNCHANGED Ledger!ledgerVars) <=> UNCHANGED LedgerView
BY DEF Ledger!Open, Ledger!Publish, Ledger!Freeze, Ledger!ledgerVars, LedgerView, Owner, Log, LineOf,
  Current, Frozen, FrozenLengths, Extended

LEMMA ViewStep ==
  LedgerInv /\ LedgerInv' /\ [Next]_vars => [Ledger!Next]_Ledger!ledgerVars
<1> SUFFICES ASSUME LedgerInv, LedgerInv', [Next]_vars PROVE [Ledger!Next]_Ledger!ledgerVars
  OBVIOUS
<1>1. ASSUME NEW a \in AgentId, NEW r \in RequestHash, NEW ic \in InputCommit,
             CommitRequest(a, r, ic)
      PROVE  Ledger!Next
  BY <1>1, CommitOpens, MappedActions DEF Ledger!Next
<1>2. ASSUME NEW r \in RequestHash, NEW resp \in Response, NEW rh \in ResponseHash,
             NEW p \in Proof, RecordResolution(r, resp, rh, p)
      PROVE  Ledger!Next
  <2> DEFINE v == [response |-> resp, responseHash |-> rh]
  <2>1. PICK a \in AgentId : a = requests[r].agentId
    BY <1>2, RecordAppends DEF LedgerInv
  <2>2. v \in Answer
    BY DEF Answer
  <2>3. /\ Owner[r] = a
        /\ Log' = [Log EXCEPT ![a] = Append(@, [request |-> r, verdict |-> v])]
        /\ Current' = [Current EXCEPT ![r] = v]
        /\ UNCHANGED <<Owner, Frozen>>
    BY <1>2, <2>1, RecordPublishes
  <2> HIDE DEF v
  <2>4. Ledger!Publish(a, r, v)
    BY <2>3, MappedActions
  <2>5. QED
    BY <2>2, <2>4 DEF Ledger!Next
<1>3. ASSUME NEW a \in AgentId, NEW ref \in BitcoinRef, AnchorHead(a, ref)
      PROVE  [Ledger!Next]_Ledger!ledgerVars
  <2>1. CASE head[a] = <<>>
    BY <1>3, <2>1, AnchorFreezes, MappedActions DEF LedgerView
  <2>2. CASE head[a] # <<>>
    <3>1. /\ Len(Log[a]) > 0
          /\ Len(Log[a]) \notin DOMAIN Frozen[a]
          /\ Frozen' = [Frozen EXCEPT ![a] = Extended(@, Len(Log[a]), ref)]
          /\ UNCHANGED <<Owner, Log, Current>>
      BY <1>3, <2>2, AnchorFreezes
    <3>2. Ledger!Freeze(a, ref)
      BY <3>1, MappedActions
    <3>3. QED
      BY <3>2 DEF Ledger!Next
  <2>3. QED
    BY <2>1, <2>2
<1>4. ASSUME UNCHANGED LedgerView
      PROVE  UNCHANGED Ledger!ledgerVars
  BY <1>4, MappedActions
<1>5. QED
  BY <1>1, <1>2, <1>3, <1>4, ViewStutters DEF Next

\* Whatever the callers, the registry and the challengers do, a consumer of the
\* contract sees the append-only ledger.
THEOREM ContractIsLedger == Spec => ImplementsLedger
<1>1. Init => Ledger!Init
  BY ViewRefinesInit
<1>2. LedgerInv /\ LedgerInv' /\ [Next]_vars => [Ledger!Next]_Ledger!ledgerVars
  BY ViewStep
<1>3. QED
  BY <1>1, <1>2, LedgerInvariant, PTL DEF Spec, Ledger!Spec, ImplementsLedger

================================================================================
