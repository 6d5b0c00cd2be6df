--------------------------- MODULE MCAdmissionGate ---------------------------
(* Instances of AdmissionGate for TLC. *)
EXTENDS AdmissionGate, TLC

RunSymmetry == Permutations(Runs)
=============================================================================
