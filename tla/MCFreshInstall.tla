---- MODULE MCFreshInstall ----
(* Small instances of FreshInstall. *)
EXTENDS FreshInstall
MCRunnerOrder == <<"production", "general">>
====
