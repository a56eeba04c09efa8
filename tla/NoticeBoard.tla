---- MODULE NoticeBoard ----
(***************************************************************************)
(* What core/work_queue.py promises to the rest of the engine, without     *)
(* clocks, locks or condition variables: a board on which any thread may   *)
(* pin a notice for a stage or arm a deadline for it, and from which one   *)
(* worker takes everything that is ready.  A notice leaves the board only  *)
(* in a batch that the worker takes; a deadline leaves it only in such a   *)
(* batch or because its owner clears it.  Nothing is ever delivered that   *)
(* nobody asked for.                                                       *)
(***************************************************************************)
CONSTANTS Kinds,        \* the engine stages that can have pending work
          Keys          \* the names under which producers own deadlines

VARIABLES ready,        \* stages with a pinned notice
          armed,        \* <<stage, key>> deadlines that have not fired
          open,         \* FALSE once the board was closed for shutdown
          batch,        \* the stages the worker took last
          worker        \* "busy" with a batch, "asking" for one, or "released"

vars == <<ready, armed, open, batch, worker>>

Deadlines == Kinds \X Keys

KindsOf(ids) == {id[1] : id \in ids}

Init == /\ ready = Kinds
        /\ armed = {}
        /\ open = TRUE
        /\ batch = {}
        /\ worker = "asking"

Put(kind) == /\ ready' = ready \union {kind}
             /\ UNCHANGED <<armed, open, batch, worker>>

Arm(id) == /\ armed' = armed \union {id}
           /\ UNCHANGED <<ready, open, batch, worker>>

Disarm(id) == /\ armed' = armed \ {id}
              /\ UNCHANGED <<ready, open, batch, worker>>

(* The worker receives every pinned notice and the deadlines that fired. *)
Take(fired) == /\ worker = "asking"
               /\ open
               /\ ready \union KindsOf(fired) # {}
               /\ batch' = ready \union KindsOf(fired)
               /\ ready' = {}
               /\ armed' = armed \ fired
               /\ worker' = "busy"
               /\ UNCHANGED open

Finish == /\ worker = "busy"
          /\ worker' = "asking"
          /\ batch' = {}
          /\ UNCHANGED <<ready, armed, open>>

Close == /\ open' = FALSE
         /\ UNCHANGED <<ready, armed, batch, worker>>

Release == /\ worker = "asking"
           /\ ~open
           /\ worker' = "released"
           /\ UNCHANGED <<ready, armed, open, batch>>

Next == \/ \E kind \in Kinds : Put(kind)
        \/ \E id \in Deadlines : Arm(id) \/ Disarm(id)
        \/ \E fired \in SUBSET armed : Take(fired)
        \/ Finish \/ Close \/ Release

Spec == Init /\ [][Next]_vars
====
