----------------------------- MODULE MCReplayClaims -----------------------------
(* Claims about the first and the second block, by either rule.             *)
EXTENDS ReplayClaims

MCClaim == {[asset |-> "btc", rule |-> "parity", height |-> 2, threshold |-> 0],
            [asset |-> "btc", rule |-> "parity", height |-> 1, threshold |-> 0],
            [asset |-> "btc", rule |-> "txcount", height |-> 1, threshold |-> 2],
            [asset |-> "series", rule |-> "parity", height |-> 1, threshold |-> 0]}

\* Odd and even; below, at and above the threshold.
MCBlock == {[hash |-> 10, txCount |-> 2], [hash |-> 11, txCount |-> 3],
            [hash |-> 13, txCount |-> 1]}

================================================================================
