---------------------------- MODULE MCBitcoinAnchor ----------------------------
(* The contract and Bitcoin over the small sets of MCResolutionValidator.   *)
EXTENDS MCResolutionValidator, BitcoinAnchor

================================================================================
