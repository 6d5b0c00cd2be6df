-------------------------- MODULE MCCleanReinstall --------------------------
(* Small instances of CleanReinstall. *)
EXTENDS CleanReinstall

=============================================================================
