---- MODULE MCPreparedInstall ----
(* Small instances of PreparedInstall. *)
EXTENDS PreparedInstall
MCDigest   == [c \in Configs |-> IF c = "b" THEN "B" ELSE "A"]
MCContract == [t \in Targets |-> IF t = FirstTarget THEN "old" ELSE "new"]
====
