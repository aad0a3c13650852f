------------------------------- MODULE MCWorkLoop -------------------------------
(* WorkLoop on the claims of MCWorkClaims.                                  *)
EXTENDS WorkLoop, MCWorkClaims

MCOrder == <<"version", "n", "matrix", "derive", "listed", "input", "output">>

================================================================================
