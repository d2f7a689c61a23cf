---------------------------- MODULE MCTransmission ----------------------------
(* An instance of Transmission for TLC. *)
EXTENDS Transmission

AllModes == {"plain", "train", "snappy"}
===============================================================================
