------------------------------- MODULE MCTxSender -------------------------------
(* Two runs of a call that must succeed and one that must revert.           *)
EXTENDS TxSender

MCExpected == <<1, 0>>

================================================================================
