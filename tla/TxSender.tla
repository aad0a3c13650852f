-------------------------------- MODULE TxSender --------------------------------
(****************************************************************************)
(* The sender of live-demo-v2/deploy_and_run.py (class Tx): every call is   *)
(* signed with a nonce that the program counts itself, sent again at a      *)
(* higher price when a node refuses it as underpriced or already known, and *)
(* awaited for a limited time.  An exception ends the program; it can be    *)
(* run again from the start.                                                *)
(*                                                                          *)
(* External: the nodes.  They disagree about the pool, so all transactions  *)
(* that some node has taken are kept, and any that has the next nonce can   *)
(* be mined; they may drop one; an answer may get lost; and the pending     *)
(* count may come from a node that lags.                                    *)
(****************************************************************************)
EXTENDS Naturals, Sequences, FiniteSets

CONSTANTS
  Expected,    \* the status that each call of a run must have, a sequence
  Attempts,    \* how often a call is sent; 5 in the code
  GasPrice,    \* prices that a call starts from, in steps of the increase
  MaxRuns,     \* bound on the runs of the program
  None

ASSUME AttemptsAssumption == Attempts \in Nat \ {0}
ASSUME ExpectedAssumption == Expected \in Seq({0, 1}) /\ Len(Expected) > 0
ASSUME GasPriceAssumption == GasPrice \subseteq Nat
ASSUME MaxRunsAssumption == MaxRuns \in Nat \ {0}

Runs == 1 .. MaxRuns

VARIABLES
  run,         \* the current run
  pc,          \* "estimate", "fire", "wait", or how the run ended
  nonce,       \* the program's own count
  attempt,
  price,
  awaited,     \* the transaction whose receipt is awaited
  confirmed,   \* calls of each run that returned
  pool,        \* what nodes have taken and not mined
  mined        \* the account's transactions on the chain, with their status

driverVars == <<run, nonce, attempt, price, awaited, confirmed>>
vars == <<driverVars, pc, pool, mined>>

Ended == {"done", "dead"}

Init ==
  /\ run = 1
  /\ pc = "estimate"
  /\ nonce = 0
  /\ attempt = 0
  /\ price = 0
  /\ awaited = None
  /\ confirmed = [r \in Runs |-> 0]
  /\ pool = {}
  /\ mined = <<>>

Call == confirmed[run] + 1

--------------------------------------------------------------------------------
(* One call: send, deploy or send_expect_revert, and _fire.                 *)

\* Gas is estimated on some node, and the price is what it says.
Estimate(gp) ==
  /\ pc = "estimate"
  /\ pc' = "fire"
  /\ attempt' = 0
  /\ price' = gp
  /\ UNCHANGED <<run, nonce, awaited, confirmed, pool, mined>>

\* A node that lags may take the call for one that reverts.
EstimateRaises ==
  /\ pc = "estimate"
  /\ Expected[Call] = 1
  /\ pc' = "dead"
  /\ UNCHANGED <<driverVars, pool, mined>>

Transaction == [run |-> run, call |-> Call, nonce |-> nonce, price |-> price]

SendAccepted ==
  /\ pc = "fire"
  /\ pool' = pool \cup {Transaction}
  /\ awaited' = Transaction
  /\ pc' = "wait"
  /\ UNCHANGED <<run, nonce, attempt, price, confirmed, mined>>

\* Mutant: another attempt takes another nonce.
NonceAfterBump_next == nonce + 1

NonceAfterBump == nonce

\* Mutant: the last attempt is retried, too.
MayRetry_oneMore == attempt < Attempts

MayRetry == attempt < Attempts - 1

\* "already known" may mean that the node has just taken it.
SendBumped ==
  /\ pc = "fire"
  /\ MayRetry
  /\ pool' \in {pool, pool \cup {Transaction}}
  /\ attempt' = attempt + 1
  /\ price' = price + 1
  /\ nonce' = NonceAfterBump
  /\ UNCHANGED <<run, pc, awaited, confirmed, mined>>

\* Any other error, a lost answer among them, or one more refusal.
SendRaises ==
  /\ pc = "fire"
  /\ pool' \in {pool, pool \cup {Transaction}}
  /\ pc' = "dead"
  /\ UNCHANGED <<driverVars, mined>>

\* Mutant: the assertion on the status is missing.
StatusOK_any(status, call) == TRUE

StatusOK(status, call) == status = Expected[call]

\* Mutant: the counter is advanced by the sending, not by the receipt.
Receipt_anyAttempt ==
  /\ pc = "wait"
  /\ nonce' = nonce + 1
  /\ confirmed' = [confirmed EXCEPT ![run] = @ + 1]
  /\ pc' = IF Call = Len(Expected) THEN "done" ELSE "estimate"
  /\ UNCHANGED <<run, attempt, price, awaited, pool, mined>>

Receipt ==
  /\ pc = "wait"
  /\ \E i \in DOMAIN mined :
       /\ mined[i].tx = awaited
       /\ nonce' = nonce + 1
       /\ confirmed' = [confirmed EXCEPT ![run] = @ + 1]
       /\ pc' = IF ~StatusOK(mined[i].status, Call) THEN "dead"
                ELSE IF Call = Len(Expected) THEN "done" ELSE "estimate"
  /\ UNCHANGED <<run, attempt, price, awaited, pool, mined>>

\* Mutant: the wait has no limit.
Timeout_never == FALSE /\ UNCHANGED vars

Timeout ==
  /\ pc = "wait"
  /\ pc' = "dead"
  /\ UNCHANGED <<driverVars, pool, mined>>

\* The counts that nodes may give for the account, pending ones included.
PendingCounts ==
  {n \in 0 .. Len(mined) + Cardinality(pool) :
     \A m \in Len(mined) .. n - 1 : \E t \in pool : t.nonce = m}

Rerun(n) ==
  /\ pc \in Ended
  /\ run < MaxRuns
  /\ run' = run + 1
  /\ nonce' = n
  /\ pc' = "estimate"
  /\ UNCHANGED <<attempt, price, awaited, confirmed, pool, mined>>

--------------------------------------------------------------------------------
(* The nodes.                                                               *)

Mine(t, status) ==
  /\ t.nonce = Len(mined)
  /\ mined' = Append(mined, [tx |-> t, status |-> status])
  /\ pool' = {other \in pool : other.nonce # t.nonce}
  /\ UNCHANGED <<driverVars, pc>>

Drop(t) ==
  /\ pool' = pool \ {t}
  /\ UNCHANGED <<driverVars, pc, mined>>

Driver ==
  \/ \E gp \in GasPrice : Estimate(gp)
  \/ EstimateRaises \/ SendAccepted \/ SendBumped \/ SendRaises \/ Receipt \/ Timeout

Next ==
  \/ Driver
  \/ \E n \in PendingCounts : Rerun(n)
  \/ \E t \in pool : (\E status \in {0, 1} : Mine(t, status)) \/ Drop(t)

Spec == Init /\ [][Next]_vars

\* The program runs; nothing is assumed of the nodes, for its requests and its
\* wait for a receipt are limited in time.
FairSpec == Spec /\ WF_vars(Driver)

--------------------------------------------------------------------------------
(* Properties.                                                              *)

\* The counters are in range; in particular a call is sent no more often than the
\* attempts allow.
TypeOK ==
  /\ run \in Runs
  /\ pc \in {"estimate", "fire", "wait"} \cup Ended
  /\ nonce \in Nat
  /\ attempt \in 0 .. Attempts - 1
  /\ awaited # None => awaited.run <= run
  /\ \A r \in Runs : confirmed[r] \in 0 .. Len(Expected)
  /\ \A i \in DOMAIN mined : mined[i].tx.nonce = i - 1

\* Whatever a run left in flight when it ended belongs to one call, the one after
\* those it confirmed, and can take effect once: all attempts have one nonce.
OneCallInDoubt ==
  \A t \in pool :
    /\ t.call = confirmed[t.run] + 1
    /\ \A other \in pool : other.run = t.run => other.nonce = t.nonce

\* A run that ends well has had all its calls executed, in order, each with the
\* status that it must have: no success where a revert was expected, and no
\* transaction of an earlier attempt or run taken for one of its own.
DoneMeansExpected ==
  pc = "done" =>
    LET own == {i \in DOMAIN mined : mined[i].tx.run = run} IN
    /\ {mined[i].tx.call : i \in own} = DOMAIN Expected
    /\ \A i, j \in own : i < j => mined[i].tx.call < mined[j].tx.call
    /\ \A i \in own : mined[i].status = Expected[mined[i].tx.call]

\* A run ends, however the nodes behave.
RunEnds == pc \notin Ended ~> pc \in Ended

\* The calls of the runs are serial, and take effect at most once, whatever is
\* refused, lost, dropped, replaced or mined late.
Serial == INSTANCE SerialCalls WITH
  Calls <- Len(Expected),
  effects <- [i \in DOMAIN mined |-> <<mined[i].tx.run, mined[i].tx.call>>]

ImplementsSerialCalls == Serial!Spec

================================================================================
