---- MODULE MCSessionStream ----
(* One client, the engine and one other thread that publishes. *)
EXTENDS SessionStream

CONSTANTS engine, request, reader

MCWriters == {engine, request}
MCReaders == {reader}
====
