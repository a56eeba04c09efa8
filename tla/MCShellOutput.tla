---- MODULE MCShellOutput ----
(* An output file that grows from a byte of old content, read in two bytes. *)
EXTENDS ShellOutput
====
