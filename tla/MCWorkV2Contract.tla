---------------------------- MODULE MCWorkV2Contract ----------------------------
(* WorkV2Contract on the claims of MCWorkClaims.                            *)
EXTENDS WorkV2Contract, MCWorkClaims
================================================================================
