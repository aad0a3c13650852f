------------------------------- MODULE SerialCalls ------------------------------
(****************************************************************************)
(* What the acceptance run in live-demo-v2/deploy_and_run.py takes for      *)
(* granted of its transaction sender: the calls of a run take effect one    *)
(* after the other and at most once each, a call is confirmed only if it    *)
(* took effect, and a run that ends early leaves at most one call of which  *)
(* it does not know.                                                        *)
(****************************************************************************)
EXTENDS Naturals, Sequences

CONSTANTS Calls, Runs

VARIABLES
  effects,     \* the calls that took effect, as <<run, call>>, in their order
  confirmed    \* how many calls each run knows to have taken effect

vars == <<effects, confirmed>>

Init ==
  /\ effects = <<>>
  /\ confirmed = [r \in Runs |-> 0]

HasEffect(r, c) == \E i \in DOMAIN effects : effects[i] = <<r, c>>

\* Only the call after the confirmed ones, whether or not its run is still alive.
TakeEffect(r) ==
  /\ confirmed[r] < Calls
  /\ ~HasEffect(r, confirmed[r] + 1)
  /\ effects' = Append(effects, <<r, confirmed[r] + 1>>)
  /\ UNCHANGED confirmed

\* A run confirms nothing once a later one has begun to.
Confirm(r) ==
  /\ HasEffect(r, confirmed[r] + 1)
  /\ \A later \in Runs : later > r => confirmed[later] = 0
  /\ confirmed' = [confirmed EXCEPT ![r] = @ + 1]
  /\ UNCHANGED effects

Next == \E r \in Runs : TakeEffect(r) \/ Confirm(r)

Spec == Init /\ [][Next]_vars

================================================================================
