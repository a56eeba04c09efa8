---- MODULE MCWorkQueue ----
(* A small queue: two stages, two deadline owners, delays 0 to 2. *)
EXTENDS WorkQueue

CONSTANTS SOURCES, CANONICAL

MCKinds == {SOURCES, CANONICAL}
MCDelays == 0..2
====
