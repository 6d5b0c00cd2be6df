----------------------- MODULE MCSerialPoolTransition -----------------------
(* Instances of SerialPoolTransition for TLC. *)
EXTENDS SerialPoolTransition, TLC
=============================================================================
