---- MODULE ChangeSignal ----
(***************************************************************************)
(* core/change_signal.py: wakes readers after a writer committed.  It      *)
(* counts nothing and carries nothing: a reader that is woken reads the    *)
(* tables again.  Each block under the lock is one action; the events are  *)
(* set outside the lock, one by one.  The event of a stream belongs to an  *)
(* event loop: call_soon_threadsafe only asks the loop to set it.          *)
(*                                                                         *)
(* This module has no specification of its own.  A module of writers and   *)
(* readers conjoins these actions with what they do to the tables.         *)
(***************************************************************************)
EXTENDS Naturals

CONSTANTS Writers,      \* threads that commit
          Readers       \* subscriptions: at most one at a time for each reader

VARIABLES listening,    \* self._readers
          ready,        \* readers whose event is set
          batching,     \* writers inside batch(): self._batches is their number
          deferred,     \* self._pending
          owing,        \* writers that committed and have not called publish()
          sending,      \* what is left of the snapshot each publish() took
          posted        \* readers whose loop was asked to set the event

signal == <<listening, ready, batching, deferred, owing, sending, posted>>

SignalTypeOK ==
    /\ listening \subseteq Readers
    /\ ready \subseteq Readers
    /\ batching \subseteq Writers
    /\ deferred \in BOOLEAN
    /\ owing \subseteq Writers
    /\ sending \in [Writers -> SUBSET Readers]
    /\ posted \subseteq Readers

SignalInit ==
    /\ listening = {} /\ ready = {} /\ posted = {}
    /\ batching = {} /\ deferred = FALSE
    /\ owing = {} /\ sending = [w \in Writers |-> {}]

(* A writer runs its next statement only when its last publish() returned.  *)
Free(w) == w \notin owing /\ sending[w] = {}

----
(* Writers. *)

EnterBatch(w) ==
    /\ Free(w)
    /\ w \notin batching
    /\ batching' = batching \union {w}
    /\ UNCHANGED <<listening, ready, deferred, owing, sending, posted>>

(* Defect: a writer that leaves its batch publishes only its own changes. *)
LeaveBatchSilently(w) ==
    /\ Free(w)
    /\ w \in batching
    /\ batching' = batching \ {w}
    /\ deferred' = (deferred /\ batching' # {})
    /\ UNCHANGED <<listening, ready, owing, sending, posted>>

(* The last writer to leave publishes what was deferred, its own or not. *)
LeaveBatch(w) ==
    /\ Free(w)
    /\ w \in batching
    /\ batching' = batching \ {w}
    /\ IF batching' = {} /\ deferred
       THEN deferred' = FALSE /\ owing' = owing \union {w}
       ELSE UNCHANGED <<deferred, owing>>
    /\ UNCHANGED <<listening, ready, sending, posted>>

(* SqliteDatabase.write after a commit that changed rows for readers. *)
Committed(w) ==
    /\ Free(w)
    /\ owing' = owing \union {w}
    /\ UNCHANGED <<listening, ready, batching, deferred, sending, posted>>

(* publish(): under the lock it defers or takes a snapshot of the readers. *)
Publish(w) ==
    /\ w \in owing
    /\ owing' = owing \ {w}
    /\ IF batching # {}
       THEN deferred' = TRUE /\ UNCHANGED sending
       ELSE sending' = [sending EXCEPT ![w] = listening] /\ UNCHANGED deferred
    /\ UNCHANGED <<listening, ready, batching, posted>>

Deliver(w, r) ==
    /\ r \in sending[w]
    /\ sending' = [sending EXCEPT ![w] = @ \ {r}]
    /\ posted' = posted \union {r}
    /\ UNCHANGED <<listening, ready, batching, deferred, owing>>

----
(* Readers, on the event loop. *)

RunCallback(r) ==
    /\ r \in posted
    /\ posted' = posted \ {r}
    /\ ready' = ready \union {r}
    /\ UNCHANGED <<listening, batching, deferred, owing, sending>>

Subscribe(r) ==
    /\ r \notin listening
    /\ listening' = listening \union {r}
    /\ UNCHANGED <<ready, batching, deferred, owing, sending, posted>>

Clear(r) ==
    /\ ready' = ready \ {r}
    /\ UNCHANGED <<listening, batching, deferred, owing, sending, posted>>

(* Defect: the generator of a stream that is closed skips its finally.      *)
LeaveSubscribed(r) ==
    /\ ready' = ready \ {r}
    /\ posted' = posted \ {r}
    /\ UNCHANGED <<listening, batching, deferred, owing, sending>>

(* The event of a reader that left is a dead object: setting it is lost. *)
Unsubscribe(r) ==
    /\ listening' = listening \ {r}
    /\ ready' = ready \ {r}
    /\ posted' = posted \ {r}
    /\ sending' = [w \in Writers |-> sending[w] \ {r}]
    /\ UNCHANGED <<batching, deferred, owing>>

----
(* A notice for r is on its way: somebody will set its event. *)
Coming(r) ==
    \/ r \in ready \union posted
    \/ \E w \in Writers : r \in sending[w]
    \/ owing # {}
    \/ deferred /\ batching # {}
====
