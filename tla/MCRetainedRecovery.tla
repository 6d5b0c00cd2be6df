---- MODULE MCRetainedRecovery ----
(* Small instances of RetainedRecovery. *)
EXTENDS RetainedRecovery
MCDigest == [c \in Configs |-> IF c = "b" THEN "B" ELSE "A"]
====
