------------------------------ MODULE MCWorkReplay ------------------------------
(* WorkReplay on the claims of MCWorkClaims.                                *)
EXTENDS WorkReplay, MCWorkClaims

MCFiles == {"python", "go"} \X AllClaims

================================================================================
