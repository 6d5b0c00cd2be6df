---- MODULE MCWriterPublication ----
(* Small instances of WriterPublication. *)
EXTENDS WriterPublication
====
