------------------------- MODULE MCLifecycleOperation -------------------------
(* Instances of LifecycleOperation for TLC. *)
EXTENDS LifecycleOperation
=============================================================================
