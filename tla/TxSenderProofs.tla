----------------------------- MODULE TxSenderProofs -----------------------------
(****************************************************************************)
(* The sender's calls are serial, for any number of runs, calls and         *)
(* attempts, and nodes that take, drop, mine and forget as they please.     *)
(****************************************************************************)
EXTENDS TxSender, SequenceTheorems, FiniteSetTheorems, TLAPS

Tx == [run : Runs, call : 1 .. Len(Expected), nonce : Nat, price : Nat]

MinedTx == {mined[i].tx : i \in DOMAIN mined}

Sent == pool \cup MinedTx

Types ==
  /\ run \in Runs
  /\ pc \in {"estimate", "fire", "wait"} \cup Ended
  /\ nonce \in Nat
  /\ attempt \in 0 .. Attempts - 1
  /\ price \in Nat
  /\ awaited = None \/ (awaited \in Tx /\ awaited.run <= run)
  /\ confirmed \in [Runs -> 0 .. Len(Expected)]
  /\ pool \subseteq Tx /\ IsFiniteSet(pool)
  /\ mined \in Seq([tx : Tx, status : {0, 1}])

\* The run has a call to make, and later runs have done nothing.
Progress ==
  /\ pc \notin Ended => confirmed[run] < Len(Expected)
  /\ \A r \in Runs : r > run => confirmed[r] = 0

\* The account's nonces are used in order, one for each call of a run.
Nonces ==
  /\ \A i \in DOMAIN mined : mined[i].tx.nonce = i - 1
  /\ \A t, u \in Sent : t.run = u.run /\ t.call = u.call => t.nonce = u.nonce

\* Nothing is sent before its call, and what is in flight is of the call in doubt.
Calls ==
  /\ \A t \in Sent : t.run <= run /\ t.call <= confirmed[t.run] + 1
  /\ \A t \in pool : t.call = confirmed[t.run] + 1
  /\ \A t \in Sent : t.run = run /\ t.call = Call =>
       /\ t.nonce = nonce
       /\ pc # "estimate"
       /\ pc = "fire" => t.price < price

\* Once what is awaited is mined, nothing of its run is in flight.
Awaits ==
  pc = "wait" =>
    /\ awaited = Transaction
    /\ awaited \in MinedTx => \A t \in pool : t.run # run

SenderInv == Types /\ Progress /\ Nonces /\ Calls /\ Awaits

LEMMA MinedTypes ==
  ASSUME Types
  PROVE  /\ Len(mined) \in Nat /\ DOMAIN mined = 1 .. Len(mined)
         /\ \A i \in DOMAIN mined : mined[i].tx \in Tx
         /\ MinedTx \subseteq Tx /\ Sent \subseteq Tx
         /\ Len(Expected) \in Nat \ {0}
         /\ run \in Nat /\ confirmed[run] \in 0 .. Len(Expected)
<1>1. Len(mined) \in Nat /\ DOMAIN mined = 1 .. Len(mined)
  BY LenProperties DEF Types
<1>2. \A i \in DOMAIN mined : mined[i] \in [tx : Tx, status : {0, 1}]
  BY <1>1, ElementOfSeq DEF Types
<1>3. \A i \in DOMAIN mined : mined[i].tx \in Tx
  BY <1>2
<1>4. MinedTx \subseteq Tx
  BY <1>3 DEF MinedTx
<1>5. Len(Expected) \in Nat \ {0}
  BY ExpectedAssumption, LenProperties
<1>6. QED
  BY <1>1, <1>3, <1>4, <1>5 DEF Types, Sent, Runs

LEMMA InvInit == Init => SenderInv
<1> SUFFICES ASSUME Init PROVE SenderInv
  OBVIOUS
<1>1. Len(Expected) \in Nat \ {0}
  BY ExpectedAssumption, LenProperties
<1>2. DOMAIN mined = {} /\ MinedTx = {} /\ Sent = {}
  BY DEF Init, MinedTx, Sent
<1>3. Types
  BY <1>1, AttemptsAssumption, MaxRunsAssumption, FS_EmptySet, EmptySeq DEF Init, Types, Runs, Ended
<1>4. Progress
  BY <1>1, MaxRunsAssumption DEF Init, Progress, Runs, Ended
<1>5. QED
  BY <1>2, <1>3, <1>4 DEF Init, SenderInv, Nonces, Calls, Awaits

\* What is sent is another transaction of the call, under the nonce of the call.
LEMMA SendStep ==
  ASSUME SenderInv, pc = "fire", UNCHANGED <<run, nonce, confirmed, mined>>,
         pool' \in {pool, pool \cup {Transaction}}
  PROVE  /\ Transaction \in Tx /\ Transaction \notin Sent
         /\ pool' \subseteq Tx /\ IsFiniteSet(pool')
         /\ MinedTx' = MinedTx
         /\ Nonces'
         /\ \A t \in Sent' : t = Transaction \/ t \in Sent
         /\ \A t \in Sent' : t.run <= run /\ t.call <= confirmed[t.run] + 1
         /\ \A t \in pool' : t.call = confirmed[t.run] + 1
         /\ \A t \in Sent' : t.run = run /\ t.call = Call => t.nonce = nonce /\ t.price <= price
<1> USE MinedTypes DEF SenderInv
<1>1. /\ run \in Runs /\ Call \in 1 .. Len(Expected) /\ nonce \in Nat /\ price \in Nat
  BY DEF Types, Progress, Call, Ended
<1>2. Transaction \in Tx
  BY <1>1 DEF Transaction, Tx
<1>3. /\ Transaction.run = run /\ Transaction.call = Call /\ Transaction.nonce = nonce
      /\ Transaction.price = price
  BY DEF Transaction
<1>4. Transaction \notin Sent
  BY <1>1, <1>3 DEF Calls
<1>5. pool' \subseteq Tx /\ IsFiniteSet(pool')
  <2>1. IsFiniteSet(pool \cup {Transaction})
    BY FS_AddElement DEF Types
  <2>2. CASE pool' = pool
    BY <2>2 DEF Types
  <2>3. CASE pool' = pool \cup {Transaction}
    BY <1>2, <2>1, <2>3 DEF Types
  <2>4. QED
    BY <2>2, <2>3
<1>6. MinedTx' = MinedTx /\ Sent' \subseteq Sent \cup {Transaction}
  BY DEF MinedTx, Sent
<1> HIDE DEF Call
<1>7. \A t \in Sent : t.run = run /\ t.call = Call => t.nonce = nonce /\ t.price < price
  BY DEF Calls
<1>8. Nonces'
  BY <1>3, <1>6, <1>7 DEF Nonces
<1>9. /\ \A t \in Sent : t.run <= run /\ t.call <= confirmed[t.run] + 1
      /\ \A t \in pool : t.call = confirmed[t.run] + 1
      /\ Transaction.run <= run /\ Transaction.call = confirmed[Transaction.run] + 1
      /\ Transaction.call <= confirmed[Transaction.run] + 1
  BY <1>1, <1>3 DEF Calls, Call, Types
<1>10. \A t \in Sent' : t.run <= run /\ t.call <= confirmed[t.run] + 1
  BY <1>6, <1>9
<1>11. \A t \in pool' : t.call = confirmed[t.run] + 1
  BY <1>9
<1>12. \A t \in Sent' : t.run = run /\ t.call = Call => t.nonce = nonce /\ t.price <= price
  <2>1. \A t \in Sent : t.price \in Nat
    BY DEF Tx
  <2>2. QED
    BY <1>1, <1>3, <1>6, <1>7, <2>1
<1>13. QED
  BY <1>2, <1>4, <1>5, <1>6, <1>8, <1>10, <1>11, <1>12

\* The driver's steps.
LEMMA DriverStep ==
  ASSUME SenderInv, Driver
  PROVE  SenderInv'
<1> USE MinedTypes DEF SenderInv
<1>1. ASSUME NEW gp \in GasPrice, Estimate(gp) PROVE SenderInv'
  <2>1. UNCHANGED <<MinedTx, Sent>>
    BY <1>1 DEF Estimate, MinedTx, Sent
  <2>2. gp \in Nat
    BY GasPriceAssumption
  <2>3. Types' /\ Progress'
    BY <1>1, <2>2, AttemptsAssumption DEF Estimate, Types, Progress, Ended
  <2>4. Nonces' /\ Calls' /\ Awaits'
    BY <1>1, <2>1 DEF Estimate, Nonces, Calls, Call, Awaits
  <2>5. QED
    BY <2>3, <2>4
<1>2. CASE EstimateRaises \/ Timeout
  <2>1. UNCHANGED <<MinedTx, Sent>> /\ UNCHANGED <<run, nonce, attempt, price, awaited, confirmed, pool, mined>>
    BY <1>2 DEF EstimateRaises, Timeout, driverVars, MinedTx, Sent
  <2>2. pc' = "dead"
    BY <1>2 DEF EstimateRaises, Timeout
  <2>3. QED
    BY <2>1, <2>2 DEF Types, Progress, Nonces, Calls, Call, Awaits, Ended
<1>3. CASE SendAccepted
  <2>1. /\ pc = "fire" /\ pool' = pool \cup {Transaction} /\ awaited' = Transaction /\ pc' = "wait"
        /\ UNCHANGED <<run, nonce, attempt, price, confirmed, mined>>
    BY <1>3 DEF SendAccepted
  <2>2. Transaction' = Transaction /\ Call' = Call
    BY <2>1 DEF Transaction, Call
  <2>3. Types'
    BY <2>1, SendStep DEF Types, Transaction, Ended
  <2>4. Awaits'
    BY <2>1, <2>2, SendStep DEF Awaits, Sent
  <2>5. Calls'
    BY <2>1, <2>2, SendStep DEF Calls
  <2>6. QED
    BY <2>1, <2>3, <2>4, <2>5, SendStep DEF Progress, Ended
<1>4. CASE SendBumped
  <2>1. /\ pc = "fire" /\ pc' = "fire" /\ pool' \in {pool, pool \cup {Transaction}}
        /\ price' = price + 1 /\ nonce' = nonce /\ attempt' = attempt + 1 /\ attempt < Attempts - 1
        /\ UNCHANGED <<run, awaited, confirmed, mined>>
    BY <1>4 DEF SendBumped, NonceAfterBump, MayRetry
  <2>2. Call' = Call
    BY <2>1 DEF Call
  <2>3. Types'
    BY <2>1, SendStep, AttemptsAssumption DEF Types
  <2>4. Calls'
    <3>1. \A t \in Sent' : t.run = run /\ t.call = Call => t.nonce = nonce /\ t.price < price + 1
      <4>1. \A t \in Sent' : t \in Tx
        BY <2>1, SendStep
      <4>2. \A t \in Sent' : t.run = run /\ t.call = Call => t.nonce = nonce /\ t.price <= price
        BY <2>1, SendStep
      <4>3. price \in Nat /\ \A t \in Tx : t.price \in Nat
        BY DEF Types, Tx
      <4> HIDE DEF Tx, Call
      <4>4. QED
        BY <4>1, <4>2, <4>3
    <3>2. QED
      BY <2>1, <2>2, <3>1, SendStep DEF Calls
  <2>5. QED
    BY <2>1, <2>3, <2>4, SendStep DEF Progress, Awaits, Ended
<1>5. CASE SendRaises
  <2>1. /\ pc = "fire" /\ pc' = "dead" /\ pool' \in {pool, pool \cup {Transaction}}
        /\ UNCHANGED <<run, nonce, attempt, price, awaited, confirmed, mined>>
    BY <1>5 DEF SendRaises, driverVars
  <2>2. Call' = Call
    BY <2>1 DEF Call
  <2>3. Types'
    BY <2>1, SendStep DEF Types, Ended
  <2>4. Calls'
    BY <2>1, <2>2, SendStep DEF Calls
  <2>5. QED
    BY <2>1, <2>3, <2>4, SendStep DEF Progress, Awaits, Ended
<1>6. CASE Receipt
  <2>1. /\ pc = "wait" /\ nonce' = nonce + 1
        /\ confirmed' = [confirmed EXCEPT ![run] = @ + 1]
        /\ pc' \in {"dead", "done", "estimate"}
        /\ pc' = "estimate" => Call # Len(Expected)
        /\ UNCHANGED <<run, attempt, price, awaited, pool, mined>>
        /\ awaited \in MinedTx
    BY <1>6 DEF Receipt, MinedTx
  <2>2. UNCHANGED <<MinedTx, Sent>>
    BY <2>1 DEF MinedTx, Sent
  <2>3. /\ confirmed'[run] = confirmed[run] + 1 /\ confirmed[run] < Len(Expected)
        /\ \A r \in Runs \ {run} : confirmed'[r] = confirmed[r]
        /\ run \in Runs
    BY <2>1 DEF Types, Progress, Ended
  <2>4. Types'
    BY <2>1, <2>3 DEF Types, Ended
  <2>5. Progress'
    BY <2>1, <2>3 DEF Types, Progress, Call, Ended, Runs
  <2>6. \A t \in pool : t.run # run
    BY <2>1 DEF Awaits
  <2>7. \A t \in Sent : t.run \in Runs /\ t.call \in Nat /\ confirmed[t.run] \in Nat
    BY DEF Tx, Types
  <2>8. \A t \in Sent : t.call <= confirmed'[t.run] + 1 /\ (t.run = run => t.call <= confirmed[run] + 1)
    BY <2>3, <2>7 DEF Calls
  <2>9. \A t \in pool : t.call = confirmed'[t.run] + 1
    BY <2>3, <2>6, <2>7 DEF Calls, Sent
  <2>10. \A t \in Sent : ~(t.run = run /\ t.call = confirmed'[run] + 1)
    BY <2>3, <2>7, <2>8
  <2>11. Calls'
    BY <2>1, <2>2, <2>8, <2>9, <2>10 DEF Calls, Call
  <2>12. QED
    BY <2>1, <2>2, <2>4, <2>5, <2>11 DEF Nonces, Awaits
<1>7. QED
  BY <1>1, <1>2, <1>3, <1>4, <1>5, <1>6 DEF Driver

\* A run that follows counts the pending transactions, and begins its calls anew.
LEMMA RerunStep ==
  ASSUME SenderInv, NEW n \in PendingCounts, Rerun(n)
  PROVE  SenderInv'
<1> USE MinedTypes DEF SenderInv
<1>1. n \in Nat
  <2>1. Cardinality(pool) \in Nat
    BY FS_CardinalityType DEF Types
  <2>2. QED
    BY <2>1 DEF PendingCounts
<1>2. /\ pc \in Ended /\ run' = run + 1 /\ nonce' = n /\ pc' = "estimate" /\ run < MaxRuns
      /\ UNCHANGED <<attempt, price, awaited, confirmed, pool, mined, MinedTx, Sent>>
  BY DEF Rerun, MinedTx, Sent
<1>3. run' \in Runs /\ run' > run
  BY <1>2, MaxRunsAssumption DEF Types, Runs
<1>4. Types'
  <2>1. awaited \in Tx => awaited.run \in Nat
    BY DEF Tx, Runs
  <2>2. QED
    BY <1>1, <1>2, <1>3, <2>1 DEF Types
<1>5. Progress'
  BY <1>2, <1>3 DEF Types, Progress, Runs
<1>6. \A t \in Sent : t.run \in Nat
  BY DEF Tx, Runs
<1>7. \A t \in Sent : t.run < run'
  BY <1>2, <1>6 DEF Calls
<1>8. Calls'
  BY <1>2, <1>3, <1>6, <1>7 DEF Calls, Runs
<1>9. QED
  BY <1>2, <1>4, <1>5, <1>8 DEF Nonces, Awaits

\* The next nonce is mined: its transaction was sent, and all others with that nonce are void.
LEMMA MineStep ==
  ASSUME SenderInv, NEW t \in pool, NEW status \in {0, 1}, Mine(t, status)
  PROVE  SenderInv' /\ MinedTx' = MinedTx \cup {t}
<1> USE MinedTypes DEF SenderInv
<1> DEFINE m == [tx |-> t, status |-> status]
<1>1. /\ t.nonce = Len(mined) /\ mined' = Append(mined, m)
      /\ pool' = {other \in pool : other.nonce # t.nonce}
      /\ UNCHANGED <<run, nonce, attempt, price, awaited, confirmed, pc>>
  BY DEF Mine, driverVars
<1>2. t \in Tx /\ m \in [tx : Tx, status : {0, 1}]
  BY DEF Types
<1>3. /\ Len(mined') = Len(mined) + 1 /\ DOMAIN mined' = 1 .. Len(mined) + 1
      /\ mined' \in Seq([tx : Tx, status : {0, 1}])
      /\ \A i \in DOMAIN mined : mined'[i] = mined[i]
      /\ mined'[Len(mined) + 1].tx = t
  <2> HIDE DEF m
  <2>1. /\ mined' \in Seq([tx : Tx, status : {0, 1}])
        /\ Len(mined') = Len(mined) + 1
        /\ \A i \in 1 .. Len(mined) : mined'[i] = mined[i]
        /\ mined'[Len(mined) + 1] = m
    BY <1>1, <1>2, AppendProperties DEF Types
  <2>2. m.tx = t
    BY DEF m
  <2>3. QED
    BY <2>1, <2>2, LenProperties
<1>4. MinedTx' = MinedTx \cup {t}
  <2>1. MinedTx' = {mined'[i].tx : i \in 1 .. Len(mined) + 1}
    BY <1>3 DEF MinedTx
  <2>2. 1 .. Len(mined) + 1 = (1 .. Len(mined)) \cup {Len(mined) + 1}
    OBVIOUS
  <2>3. QED
    BY <1>3, <2>1, <2>2 DEF MinedTx
<1>5. Sent' \subseteq Sent /\ pool' \subseteq pool
  BY <1>1, <1>4 DEF Sent
<1>6. Types'
  <2>1. IsFiniteSet(pool')
    BY <1>5, FS_Subset DEF Types
  <2>2. QED
    BY <1>1, <1>3, <1>5, <2>1 DEF Types
<1>7. Nonces'
  BY <1>1, <1>3, <1>5 DEF Nonces
<1>8. Transaction' = Transaction /\ Call' = Call
  BY <1>1 DEF Transaction, Call
<1>9. Calls'
  BY <1>1, <1>5, <1>8 DEF Calls
<1>10. Awaits'
  <2>1. SUFFICES ASSUME pc = "wait", awaited \in MinedTx', NEW u \in pool', u.run = run
                 PROVE  FALSE
    BY <1>1, <1>8 DEF Awaits
  <2>2. awaited = Transaction /\ u \in pool /\ u \in Sent /\ u.nonce # t.nonce
    BY <1>1, <2>1 DEF Awaits, Sent
  <2>3. awaited = t
    BY <1>4, <2>1, <2>2 DEF Awaits
  <2>4. u.call = Call /\ u.nonce = nonce
    BY <2>1, <2>2 DEF Calls, Call
  <2>5. t.nonce = nonce
    BY <2>2, <2>3 DEF Transaction
  <2>6. QED
    BY <2>2, <2>4, <2>5
<1>11. QED
  BY <1>1, <1>4, <1>6, <1>7, <1>9, <1>10 DEF Progress

LEMMA DropStep ==
  ASSUME SenderInv, NEW t \in pool, Drop(t)
  PROVE  SenderInv'
<1> USE MinedTypes DEF SenderInv
<1>1. /\ pool' = pool \ {t}
      /\ UNCHANGED <<run, nonce, attempt, price, awaited, confirmed, pc, mined, MinedTx>>
  BY DEF Drop, driverVars, MinedTx
<1>2. pool' \subseteq pool /\ Sent' \subseteq Sent /\ IsFiniteSet(pool')
  BY <1>1, FS_Subset DEF Types, Sent
<1>3. Transaction' = Transaction /\ Call' = Call
  BY <1>1 DEF Transaction, Call
<1>4. Types' /\ Progress' /\ Nonces'
  BY <1>1, <1>2 DEF Types, Progress, Nonces
<1>5. Calls' /\ Awaits'
  BY <1>1, <1>2, <1>3 DEF Calls, Awaits
<1>6. QED
  BY <1>4, <1>5

LEMMA InvStep == SenderInv /\ [Next]_vars => SenderInv'
<1> SUFFICES ASSUME SenderInv, [Next]_vars PROVE SenderInv'
  OBVIOUS
<1>1. CASE Driver
  BY <1>1, DriverStep
<1>2. ASSUME NEW n \in PendingCounts, Rerun(n) PROVE SenderInv'
  BY <1>2, RerunStep
<1>3. ASSUME NEW t \in pool, NEW status \in {0, 1}, Mine(t, status) PROVE SenderInv'
  BY <1>3, MineStep
<1>4. ASSUME NEW t \in pool, Drop(t) PROVE SenderInv'
  BY <1>4, DropStep
<1>5. CASE UNCHANGED vars
  BY <1>5 DEF vars, driverVars, SenderInv, Types, Progress, Nonces, Calls, Awaits, Call, Sent, MinedTx, Transaction
<1>6. QED
  BY <1>1, <1>2, <1>3, <1>4, <1>5 DEF Next

\* The sender's bookkeeping is consistent, whatever the nodes do: nonces are used in
\* order, one for each call, and what is in flight belongs to the call in doubt.
THEOREM SenderInvariant == Spec => []SenderInv
BY InvInit, InvStep, PTL DEF Spec

\* Every counter of the sender stays in its range, and the chain's nonces are gapless.
THEOREM TypeCorrect == Spec => []TypeOK
<1>1. SenderInv => TypeOK
  BY MinedTypes DEF SenderInv, Types, Nonces, TypeOK, Tx
<1>2. QED
  BY <1>1, SenderInvariant, PTL

\* Whatever a run left in flight when it ended belongs to one call, and all of its
\* attempts share a nonce, so that it takes effect at most once.
THEOREM OneInDoubt == Spec => []OneCallInDoubt
<1>1. SenderInv => OneCallInDoubt
  BY DEF SenderInv, OneCallInDoubt, Calls, Nonces, Sent
<1>2. QED
  BY <1>1, SenderInvariant, PTL

--------------------------------------------------------------------------------
(* What a run finds of its own on the chain.                                *)

Own == {i \in DOMAIN mined : mined[i].tx.run = run}

\* The run's calls are on the chain in their order, those it confirmed among them;
\* and while it goes on, they have the status that they must have.
OwnCalls ==
  /\ \A i, j \in Own : i < j => mined[i].tx.call < mined[j].tx.call
  /\ \A c \in 1 .. confirmed[run] : \E i \in Own : mined[i].tx.call = c
  /\ pc # "dead" => \A i \in Own :
       mined[i].tx.call <= confirmed[run] => mined[i].status = Expected[mined[i].tx.call]
  /\ pc = "done" => confirmed[run] = Len(Expected)

LEMMA OwnInit == Init => OwnCalls
<1> SUFFICES ASSUME Init PROVE OwnCalls
  OBVIOUS
<1>1. Own = {} /\ confirmed[run] = 0 /\ pc = "estimate"
  BY MaxRunsAssumption DEF Init, Own, Runs
<1>2. QED
  BY <1>1 DEF OwnCalls

\* What is mined for the current run is its next call, and no call is mined twice.
LEMMA OwnMine ==
  ASSUME SenderInv, OwnCalls, NEW t \in pool, NEW status \in {0, 1}, Mine(t, status)
  PROVE  OwnCalls'
<1> USE MinedTypes DEF SenderInv
<1> DEFINE m == [tx |-> t, status |-> status]
<1>1. /\ t.nonce = Len(mined) /\ mined' = Append(mined, m)
      /\ UNCHANGED <<run, confirmed, pc>>
  BY DEF Mine, driverVars
<1>2. m \in [tx : Tx, status : {0, 1}] /\ m.tx = t /\ t \in Sent /\ t \in Tx
  BY DEF Types, Sent
<1> HIDE DEF m
<1>3. /\ Len(mined') = Len(mined) + 1 /\ DOMAIN mined' = 1 .. Len(mined) + 1
      /\ \A i \in DOMAIN mined : mined'[i] = mined[i]
      /\ mined'[Len(mined) + 1].tx = t
  <2>1. /\ mined' \in Seq([tx : Tx, status : {0, 1}])
        /\ Len(mined') = Len(mined) + 1
        /\ \A i \in 1 .. Len(mined) : mined'[i] = mined[i]
        /\ mined'[Len(mined) + 1] = m
    BY <1>1, <1>2, AppendProperties DEF Types
  <2>2. QED
    BY <1>2, <2>1, LenProperties
<1>4. Own \subseteq DOMAIN mined /\ Own \subseteq Own'
  BY <1>1, <1>3 DEF Own
<1>5. \A i \in Own' : i \in Own \/ (i = Len(mined) + 1 /\ t.run = run)
  BY <1>1, <1>3 DEF Own
<1>6. t.call = confirmed[t.run] + 1
  BY DEF Calls
<1>7. \A i \in Own : t.run = run => mined[i].tx.call < t.call
  <2> SUFFICES ASSUME NEW i \in Own, t.run = run PROVE mined[i].tx.call < t.call
    OBVIOUS
  <2>1. mined[i].tx \in Sent /\ mined[i].tx.nonce = i - 1 /\ mined[i].tx.run = run
    BY <1>4 DEF Sent, MinedTx, Nonces, Own
  <2>2. mined[i].tx.nonce # t.nonce
    BY <1>1, <1>4, <2>1
  <2>3. mined[i].tx.call # t.call
    BY <1>2, <2>1, <2>2 DEF Nonces
  <2>4. mined[i].tx.call \in Nat /\ mined[i].tx.call <= confirmed[run] + 1
    BY <1>4, <2>1 DEF Calls, Tx
  <2>5. QED
    BY <1>6, <2>3, <2>4
<1>8. \A i, j \in Own' : i < j => mined'[i].tx.call < mined'[j].tx.call
  <2> SUFFICES ASSUME NEW i \in Own', NEW j \in Own', i < j
               PROVE  mined'[i].tx.call < mined'[j].tx.call
    OBVIOUS
  <2>1. CASE j \in Own
    BY <1>3, <1>4, <1>5, <2>1 DEF OwnCalls
  <2>2. CASE j = Len(mined) + 1 /\ t.run = run
    <3>1. i \in Own
      BY <1>5, <2>2
    <3>2. QED
      BY <1>3, <1>4, <1>7, <2>2, <3>1
  <2>3. QED
    BY <1>5, <2>1, <2>2
<1>9. \A c \in 1 .. confirmed'[run'] : \E i \in Own' : mined'[i].tx.call = c
  BY <1>1, <1>3, <1>4 DEF OwnCalls
<1>10. pc' # "dead" => \A i \in Own' :
         mined'[i].tx.call <= confirmed'[run'] => mined'[i].status = Expected[mined'[i].tx.call]
  <2> SUFFICES ASSUME pc # "dead", NEW i \in Own', mined'[i].tx.call <= confirmed[run]
               PROVE  mined'[i].status = Expected[mined'[i].tx.call]
    BY <1>1
  <2>1. i \in Own
    BY <1>3, <1>5, <1>6
  <2>2. QED
    BY <1>3, <1>4, <2>1 DEF OwnCalls
<1>11. QED
  BY <1>1, <1>8, <1>9, <1>10 DEF OwnCalls

\* A receipt is of the call that is awaited, which is on the chain once.
LEMMA OwnReceipt ==
  ASSUME SenderInv, OwnCalls, Receipt
  PROVE  OwnCalls'
<1> USE MinedTypes DEF SenderInv
<1>1. PICK i \in DOMAIN mined :
        /\ mined[i].tx = awaited
        /\ confirmed' = [confirmed EXCEPT ![run] = @ + 1]
        /\ pc' = IF ~StatusOK(mined[i].status, Call) THEN "dead"
                 ELSE IF Call = Len(Expected) THEN "done" ELSE "estimate"
  BY DEF Receipt
<1>2. pc = "wait" /\ UNCHANGED <<run, mined>> /\ Own' = Own
  BY DEF Receipt, Own
<1>3. mined[i].tx.run = run /\ mined[i].tx.call = Call /\ i \in Own
  BY <1>1, <1>2 DEF Awaits, Transaction, Own
<1>4. confirmed'[run] = Call /\ Call = confirmed[run] + 1 /\ confirmed[run] \in Nat
  BY <1>1 DEF Types, Call
<1>5. \A j \in Own : mined[j].tx.call \in Nat /\ (mined[j].tx.call = Call => j = i)
  <2> SUFFICES ASSUME NEW j \in Own
               PROVE  mined[j].tx.call \in Nat /\ (mined[j].tx.call = Call => j = i)
    OBVIOUS
  <2>1. j \in DOMAIN mined /\ mined[j].tx \in Sent /\ mined[i].tx \in Sent /\ mined[j].tx.run = run
    BY DEF Sent, MinedTx, Own
  <2>2. mined[j].tx.nonce = j - 1 /\ mined[i].tx.nonce = i - 1
    BY <2>1 DEF Nonces
  <2>3. mined[j].tx.call \in Nat
    BY <2>1 DEF Tx
  <2>4. ASSUME mined[j].tx.call = Call PROVE j = i
    <3>1. mined[j].tx.nonce = mined[i].tx.nonce
      BY <1>3, <2>1, <2>4 DEF Nonces
    <3>2. QED
      BY <2>1, <2>2, <3>1
  <2>5. QED
    BY <2>3, <2>4
<1>6. \A c \in 1 .. confirmed'[run'] : \E j \in Own' : mined'[j].tx.call = c
  <2> SUFFICES ASSUME NEW c \in 1 .. Call PROVE \E j \in Own : mined[j].tx.call = c
    BY <1>2, <1>4
  <2>1. CASE c = Call
    BY <1>3, <2>1
  <2>2. CASE c \in 1 .. confirmed[run]
    BY <2>2 DEF OwnCalls
  <2>3. QED
    BY <1>4, <2>1, <2>2
<1>7. pc' # "dead" => \A j \in Own' :
        mined'[j].tx.call <= confirmed'[run'] => mined'[j].status = Expected[mined'[j].tx.call]
  <2> SUFFICES ASSUME pc' # "dead", NEW j \in Own, mined[j].tx.call <= Call
               PROVE  mined[j].status = Expected[mined[j].tx.call]
    BY <1>2, <1>4
  <2>1. mined[i].status = Expected[Call]
    BY <1>1 DEF StatusOK
  <2>2. CASE mined[j].tx.call = Call
    BY <1>5, <2>1, <2>2
  <2>3. CASE mined[j].tx.call <= confirmed[run]
    BY <1>2, <2>3 DEF OwnCalls
  <2>4. QED
    BY <1>4, <1>5, <2>2, <2>3
<1>8. pc' = "done" => confirmed'[run'] = Len(Expected)
  BY <1>1, <1>2, <1>4
<1>9. QED
  BY <1>2, <1>6, <1>7, <1>8 DEF OwnCalls

LEMMA OwnStep == SenderInv /\ OwnCalls /\ [Next]_vars => OwnCalls'
<1> SUFFICES ASSUME SenderInv, OwnCalls, [Next]_vars PROVE OwnCalls'
  OBVIOUS
<1>1. CASE /\ UNCHANGED <<run, confirmed, mined>>
           /\ pc' # pc => pc' \notin {"done"} /\ (pc = "dead" => pc' = "dead")
  BY <1>1 DEF OwnCalls, Own
<1>2. CASE Receipt
  BY <1>2, OwnReceipt
<1>3. ASSUME NEW n \in PendingCounts, Rerun(n) PROVE OwnCalls'
  <2>1. run' = run + 1 /\ run' \in Runs /\ pc' = "estimate" /\ UNCHANGED <<confirmed, mined>>
    BY <1>3, MaxRunsAssumption DEF Rerun, SenderInv, Types, Runs
  <2>2. confirmed'[run'] = 0
    BY <2>1 DEF SenderInv, Types, Progress, Runs
  <2>3. Own' = {}
    <3>1. \A i \in DOMAIN mined : mined[i].tx \in Sent /\ mined[i].tx.run \in Nat
      BY MinedTypes DEF SenderInv, Sent, MinedTx, Tx, Runs
    <3>2. \A i \in DOMAIN mined : mined[i].tx.run <= run
      BY <3>1 DEF SenderInv, Calls
    <3>3. run \in Nat
      BY MinedTypes DEF SenderInv
    <3>4. QED
      BY <2>1, <3>1, <3>2, <3>3 DEF Own
  <2>4. QED
    BY <2>1, <2>2, <2>3 DEF OwnCalls
<1>4. ASSUME NEW t \in pool, NEW status \in {0, 1}, Mine(t, status) PROVE OwnCalls'
  BY <1>4, OwnMine
<1>5. QED
  BY <1>1, <1>2, <1>3, <1>4 DEF Next, Driver, Estimate, EstimateRaises, SendAccepted, SendBumped,
    SendRaises, Timeout, Drop, vars, driverVars

\* A run that ends well has had all its calls executed, in their order, each with
\* the status that it must have, however many runs came before it.
THEOREM DoneIsExpected == Spec => []DoneMeansExpected
<1>1. SenderInv /\ OwnCalls => DoneMeansExpected
  <2> SUFFICES ASSUME SenderInv, OwnCalls, pc = "done"
               PROVE  /\ {mined[i].tx.call : i \in Own} = DOMAIN Expected
                      /\ \A i, j \in Own : i < j => mined[i].tx.call < mined[j].tx.call
                      /\ \A i \in Own : mined[i].status = Expected[mined[i].tx.call]
    BY DEF DoneMeansExpected, Own
  <2>1. DOMAIN Expected = 1 .. Len(Expected) /\ confirmed[run] = Len(Expected)
    BY ExpectedAssumption, LenProperties DEF OwnCalls
  <2>2. \A i \in Own : mined[i].tx.call \in 1 .. Len(Expected)
    BY MinedTypes DEF SenderInv, Own, Tx
  <2>3. QED
    BY <2>1, <2>2, MinedTypes DEF OwnCalls, SenderInv
<1>2. QED
  BY <1>1, OwnInit, OwnStep, SenderInvariant, PTL DEF Spec

--------------------------------------------------------------------------------
(* Refinement: the calls that take effect are those that are mined.         *)

Effects == [i \in DOMAIN mined |-> <<mined[i].tx.run, mined[i].tx.call>>]

\* Mining a transaction of the call in doubt is that call taking effect, for the first time.
LEMMA MineTakesEffect ==
  ASSUME SenderInv, NEW t \in pool, NEW status \in {0, 1}, Mine(t, status)
  PROVE  t.run \in Runs /\ Serial!TakeEffect(t.run)
<1> USE MinedTypes DEF SenderInv
<1> DEFINE m == [tx |-> t, status |-> status]
<1>1. t \in Tx /\ t \in Sent /\ t.run \in Runs /\ t.call = confirmed[t.run] + 1
  BY DEF Types, Sent, Calls, Tx
<1>2. confirmed[t.run] < Len(Expected)
  BY <1>1 DEF Tx, Types
<1>3. ~Serial!HasEffect(t.run, confirmed[t.run] + 1)
  <2>1. SUFFICES ASSUME NEW i \in DOMAIN mined, mined[i].tx.run = t.run, mined[i].tx.call = t.call
                 PROVE  FALSE
    BY <1>1 DEF Serial!HasEffect
  <2>2. mined[i].tx \in Sent /\ mined[i].tx.nonce = i - 1
    BY DEF Sent, MinedTx, Nonces
  <2>3. i - 1 = Len(mined)
    BY <1>1, <2>1, <2>2 DEF Nonces, Mine
  <2>4. QED
    BY <2>3
<1>4. /\ mined' = Append(mined, m) /\ confirmed' = confirmed
      /\ Len(mined) \in Nat /\ DOMAIN mined = 1 .. Len(mined)
  BY DEF Mine, driverVars
<1>5. m \in [tx : Tx, status : {0, 1}] /\ m.tx = t
  BY <1>1
<1> DEFINE e == <<t.run, t.call>>
<1>6. e \in Runs \X (1 .. Len(Expected))
  BY <1>1 DEF Tx
<1> HIDE DEF m, e
<1>7. /\ Len(mined') = Len(mined) + 1 /\ DOMAIN mined' = 1 .. Len(mined) + 1
      /\ \A i \in 1 .. Len(mined) : mined'[i] = mined[i]
      /\ mined'[Len(mined) + 1] = m
      /\ mined' \in Seq([tx : Tx, status : {0, 1}])
  <2>1. /\ mined' \in Seq([tx : Tx, status : {0, 1}])
        /\ Len(mined') = Len(mined) + 1
        /\ \A i \in 1 .. Len(mined) : mined'[i] = mined[i]
        /\ mined'[Len(mined) + 1] = m
    BY <1>4, <1>5, AppendProperties DEF Types
  <2>2. QED
    BY <2>1, LenProperties
<1>8. /\ Effects \in Seq(Runs \X (1 .. Len(Expected)))
      /\ Len(Effects) = Len(mined)
      /\ \A i \in 1 .. Len(mined) : Effects[i] = <<mined[i].tx.run, mined[i].tx.call>>
  <2>1. \A i \in 1 .. Len(mined) : <<mined[i].tx.run, mined[i].tx.call>> \in Runs \X (1 .. Len(Expected))
    BY <1>4 DEF Tx
  <2>2. QED
    BY <1>4, <2>1, IsASeq, LenProperties DEF Effects
<1>9. /\ Append(Effects, e) \in Seq(Runs \X (1 .. Len(Expected)))
      /\ Len(Append(Effects, e)) = Len(mined) + 1
      /\ \A i \in 1 .. Len(mined) : Append(Effects, e)[i] = Effects[i]
      /\ Append(Effects, e)[Len(mined) + 1] = e
  BY <1>6, <1>8, AppendProperties
<1>10. Effects' = Append(Effects, e)
  <2>1. Effects' = [i \in 1 .. Len(mined) + 1 |-> <<mined'[i].tx.run, mined'[i].tx.call>>]
    BY <1>7 DEF Effects
  <2>2. \A i \in 1 .. Len(mined) + 1 : Append(Effects, e)[i] = <<mined'[i].tx.run, mined'[i].tx.call>>
    <3> SUFFICES ASSUME NEW i \in 1 .. Len(mined) + 1
                 PROVE  Append(Effects, e)[i] = <<mined'[i].tx.run, mined'[i].tx.call>>
      OBVIOUS
    <3>1. CASE i \in 1 .. Len(mined)
      BY <1>7, <1>8, <1>9, <3>1
    <3>2. CASE i = Len(mined) + 1
      BY <1>5, <1>7, <1>9, <3>2 DEF e
    <3>3. i \in 1 .. Len(mined) \/ i = Len(mined) + 1
      BY <1>4
    <3>4. QED
      BY <3>1, <3>2, <3>3
  <2>3. \A i \in 1 .. Len(mined) + 1 : <<mined'[i].tx.run, mined'[i].tx.call>> \in Runs \X (1 .. Len(Expected))
    <3> SUFFICES ASSUME NEW i \in 1 .. Len(mined) + 1
                 PROVE  mined'[i].tx.run \in Runs /\ mined'[i].tx.call \in 1 .. Len(Expected)
      OBVIOUS
    <3>1. mined'[i] \in [tx : Tx, status : {0, 1}]
      BY <1>7, ElementOfSeq
    <3>2. mined'[i].tx \in Tx
      BY <3>1
    <3>3. QED
      BY <3>2 DEF Tx
  <2>4. /\ Effects' \in Seq(Runs \X (1 .. Len(Expected)))
        /\ Len(Effects') = Len(mined) + 1
        /\ \A i \in 1 .. Len(mined) + 1 : Effects'[i] = <<mined'[i].tx.run, mined'[i].tx.call>>
    BY <1>4, <2>1, <2>3, IsASeq
  <2>5. QED
    BY <1>9, <2>2, <2>4, SeqEqual
<1>11. QED
  BY <1>1, <1>2, <1>3, <1>4, <1>10 DEF Serial!TakeEffect, Effects, e

\* A receipt confirms the call that is awaited, and later runs have not begun.
LEMMA ReceiptConfirms ==
  ASSUME SenderInv, Receipt
  PROVE  run \in Runs /\ Serial!Confirm(run)
<1> USE MinedTypes DEF SenderInv
<1>1. PICK i \in DOMAIN mined : mined[i].tx = awaited /\ confirmed' = [confirmed EXCEPT ![run] = @ + 1]
  BY DEF Receipt
<1>2. awaited = Transaction /\ mined' = mined /\ run \in Runs
  BY DEF Receipt, Awaits, Types
<1>3. mined[i].tx.run = run /\ mined[i].tx.call = confirmed[run] + 1
  BY <1>1, <1>2 DEF Transaction, Call
<1>4. Serial!HasEffect(run, confirmed[run] + 1)
  BY <1>3 DEF Serial!HasEffect
<1>5. QED
  BY <1>1, <1>2, <1>4 DEF Serial!Confirm, Progress

\* The calls of the runs are serial and take effect at most once, whatever the nodes do.
THEOREM CallsAreSerial == Spec => ImplementsSerialCalls
<1>1. Init => Serial!Init
  BY DEF Init, Serial!Init
<1>2. ASSUME SenderInv, [Next]_vars PROVE [Serial!Next]_(Serial!vars)
  <2>1. CASE UNCHANGED <<mined, confirmed>>
    BY <2>1 DEF Serial!vars
  <2>2. CASE Receipt
    BY <1>2, <2>2, ReceiptConfirms DEF Serial!Next
  <2>3. ASSUME NEW t \in pool, NEW status \in {0, 1}, Mine(t, status)
        PROVE  Serial!Next
    BY <1>2, <2>3, MineTakesEffect DEF Serial!Next
  <2>4. QED
    BY <1>2, <2>1, <2>2, <2>3 DEF Next, Driver, Estimate, EstimateRaises, SendAccepted, SendBumped,
      SendRaises, Timeout, Rerun, Drop, vars, driverVars
<1>3. QED
  BY <1>1, <1>2, SenderInvariant, PTL DEF Spec, ImplementsSerialCalls, Serial!Spec

================================================================================
