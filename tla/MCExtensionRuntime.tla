---- MODULE MCExtensionRuntime ----
(* A command of an HTTP call and an observation, over replaced runtimes. *)
EXTENDS ExtensionRuntime

CONSTANTS c1, command, observation

MCCalls == {c1}
MCCommands == {command}
MCObservations == {observation}
====
