---- MODULE MCNotifier ----
(* A session that asks, finishes and goes on while alerts are sent and deleted. *)
EXTENDS Notifier

CONSTANTS s1

MCSessions == {s1}
====
