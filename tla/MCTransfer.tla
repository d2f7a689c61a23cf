------------------------------ MODULE MCTransfer ------------------------------
(* Instances of Transfer for TLC. *)
EXTENDS Transfer

CaughtModes == {"plain", "train"}
PlainMode   == {"plain"}
===============================================================================
