---- MODULE WorkQueue ----
(***************************************************************************)
(* core/work_queue.py: the one queue between every producer of work (the   *)
(* database after a commit, file and process watches, HTTP threads, failed *)
(* stages) and the single engine worker of engine/worker.py.               *)
(*                                                                         *)
(* Each method holds the condition's lock from its first to its last       *)
(* statement, so it is one action.  Condition.wait releases the lock:      *)
(* take() is therefore the actions TakeReady, Sleep and TakeClosed, and a  *)
(* sleeping worker returns to its loop by a notify or by its timeout.      *)
(* Deadlines are absolute values of time.monotonic(), the variable now.    *)
(***************************************************************************)
EXTENDS Naturals

CONSTANTS Kinds,        \* WorkKind
          SharedKeys,   \* keys of schedule: "retry", "output expiry", ...
          OwnedKeys,    \* keys of set_deadline: "mixed raw continuation", ...
          Delays,       \* delays that producers ask for, after max(0, delay)
          MaxTime,      \* bound of the clock
          None          \* no deadline, or a wait without a timeout

(* No producer gives the same key to both methods. *)
ASSUME KeysAssumption == SharedKeys \intersect OwnedKeys = {}
ASSUME DelaysAssumption == Delays \subseteq Nat
ASSUME TimeAssumption == MaxTime \in Nat
ASSUME NoneAssumption == None \notin Nat

VARIABLES pending,      \* self._pending
          deadlines,    \* self._deadlines; None where the dict has no entry
          closed,       \* self._closed
          now,          \* time.monotonic()
          worker,       \* what the engine worker is doing, see WorkerStates
          wakeAt,       \* when the current wait times out
          batch         \* the set that take() returned last

vars == <<pending, deadlines, closed, now, worker, wakeAt, batch>>

(* "taking" is inside the loop of take(), "waiting" inside Condition.wait, *)
(* "busy" outside take() with a batch, "released" after an empty return.   *)
WorkerStates == {"taking", "waiting", "busy", "released"}

SharedIds == Kinds \X SharedKeys
OwnedIds == Kinds \X OwnedKeys
Ids == SharedIds \union OwnedIds

TypeOK == /\ pending \subseteq Kinds
          /\ deadlines \in [Ids -> Nat \union {None}]
          /\ closed \in BOOLEAN
          /\ now \in Nat
          /\ worker \in WorkerStates
          /\ wakeAt \in Nat \union {None}
          /\ batch \subseteq Kinds

(* The worker starts by putting every kind, before its first take(). *)
Init == /\ pending = Kinds
        /\ deadlines = [id \in Ids |-> None]
        /\ closed = FALSE
        /\ now = 0
        /\ worker = "taking"
        /\ wakeAt = None
        /\ batch = {}

(* Condition.notify: the waiter contends for the lock and loops again. *)
Notified == IF worker = "waiting" THEN "taking" ELSE worker

----
(* Producers, on any thread. *)

(* Defect: the notice is pinned without waking the worker. *)
SilentPut(kind) == /\ pending' = pending \union {kind}
                   /\ UNCHANGED <<deadlines, closed, now, worker, wakeAt, batch>>

Put(kind) == /\ pending' = pending \union {kind}
             /\ worker' = Notified
             /\ UNCHANGED <<deadlines, closed, now, wakeAt, batch>>

Earlier(known, proposed) == known # None /\ known < proposed

(* Defect: the last producer of a shared key wins. *)
OverwritingSchedule(id, delay) ==
    /\ now + delay <= MaxTime
    /\ deadlines' = [deadlines EXCEPT ![id] = now + delay]
    /\ worker' = Notified
    /\ UNCHANGED <<pending, closed, now, wakeAt, batch>>

Schedule(id, delay) ==
    /\ now + delay <= MaxTime
    /\ LET deadline == now + delay
       IN deadlines' = [deadlines EXCEPT ![id] =
                          IF Earlier(@, deadline) THEN @ ELSE deadline]
    /\ worker' = Notified
    /\ UNCHANGED <<pending, closed, now, wakeAt, batch>>

(* Defect: the worker sleeps on although its deadline moved forward. *)
SilentSetDeadline(id, delay) ==
    /\ now + delay <= MaxTime
    /\ deadlines' = [deadlines EXCEPT ![id] = now + delay]
    /\ UNCHANGED <<pending, closed, now, worker, wakeAt, batch>>

SetDeadline(id, delay) ==
    /\ now + delay <= MaxTime
    /\ deadlines' = [deadlines EXCEPT ![id] = now + delay]
    /\ worker' = Notified
    /\ UNCHANGED <<pending, closed, now, wakeAt, batch>>

ClearDeadline(id) ==
    /\ deadlines' = [deadlines EXCEPT ![id] = None]
    /\ worker' = Notified
    /\ UNCHANGED <<pending, closed, now, wakeAt, batch>>

(* Defect: close without notify_all. *)
SilentClose == /\ closed' = TRUE
               /\ UNCHANGED <<pending, deadlines, now, worker, wakeAt, batch>>

Close == /\ closed' = TRUE
         /\ worker' = Notified
         /\ UNCHANGED <<pending, deadlines, now, wakeAt, batch>>

----
(* The worker. *)

Due == {id \in Ids : deadlines[id] # None /\ deadlines[id] <= now}

(* Defect: the identity of a deadline is made ready, not its stage. *)
ReadyIdentities == pending \union Due

Ready == pending \union {id[1] : id \in Due}

(* Defect: a due deadline is handed out and kept. *)
TakeAndKeep == /\ worker = "taking"
               /\ ~closed
               /\ Ready # {}
               /\ batch' = Ready
               /\ pending' = {}
               /\ worker' = "busy"
               /\ UNCHANGED <<deadlines, closed, now, wakeAt>>

TakeReady == /\ worker = "taking"
             /\ ~closed
             /\ Ready # {}
             /\ batch' = Ready
             /\ pending' = {}
             /\ deadlines' = [id \in Ids |-> IF id \in Due THEN None ELSE deadlines[id]]
             /\ worker' = "busy"
             /\ UNCHANGED <<closed, now, wakeAt>>

(* min(self._deadlines.values()), or no timeout for an empty dict. *)
IsEarliest(time) ==
    IF time = None
    THEN \A id \in Ids : deadlines[id] = None
    ELSE /\ \E id \in Ids : deadlines[id] = time
         /\ \A id \in Ids : deadlines[id] # None => time <= deadlines[id]

Sleep == /\ worker = "taking"
         /\ ~closed
         /\ Ready = {}
         /\ \E time \in {deadlines[id] : id \in Ids} \union {None} :
               IsEarliest(time) /\ wakeAt' = time
         /\ worker' = "waiting"
         /\ UNCHANGED <<pending, deadlines, closed, now, batch>>

Timeout == /\ worker = "waiting"
           /\ wakeAt # None
           /\ wakeAt <= now
           /\ worker' = "taking"
           /\ UNCHANGED <<pending, deadlines, closed, now, wakeAt, batch>>

TakeClosed == /\ worker = "taking"
              /\ closed
              /\ worker' = "released"
              /\ UNCHANGED <<pending, deadlines, closed, now, wakeAt, batch>>

(* The end of EngineWorker._process: every stage of the batch has run. *)
Finish == /\ worker = "busy"
          /\ worker' = "taking"
          /\ batch' = {}
          /\ UNCHANGED <<pending, deadlines, closed, now, wakeAt>>

Tick == /\ now < MaxTime
        /\ now' = now + 1
        /\ UNCHANGED <<pending, deadlines, closed, worker, wakeAt, batch>>

Produce == \/ \E kind \in Kinds : Put(kind)
           \/ \E id \in OwnedIds : ClearDeadline(id)
           \/ \E id \in OwnedIds, delay \in Delays : SetDeadline(id, delay)
           \/ \E id \in SharedIds, delay \in Delays : Schedule(id, delay)
           \/ Close

Work == TakeReady \/ Sleep \/ Timeout \/ TakeClosed \/ Finish

Next == Produce \/ Work \/ Tick

(* The thread runs whenever it can, and the clock goes on. *)
Fairness == WF_vars(Work) /\ WF_vars(Tick)

Spec == Init /\ [][Next]_vars /\ Fairness

----
(* Properties. *)

(* core/work_queue.py take(): a worker that sleeps has nothing to take and  *)
(* wakes no later than any deadline, whoever armed it after the wait began. *)
SleepCoversPromises ==
    worker = "waiting" =>
        /\ pending = {}
        /\ ~closed
        /\ \A id \in Ids : deadlines[id] # None => wakeAt # None /\ wakeAt <= deadlines[id]

(* take(): a due deadline leaves the queue only into the batch of its kind. *)
Fires(id) == deadlines[id] <= now /\ deadlines'[id] = None /\ id[1] \in batch'

(* schedule(): whatever the other producers of a shared key ask for later,  *)
(* a deadline is never postponed, and it never goes before its time came    *)
(* and the worker got its stage.                                            *)
DeadlineKept ==
    [][\A id \in SharedIds : deadlines[id] # None =>
          Fires(id) \/ (deadlines'[id] # None /\ deadlines'[id] <= deadlines[id])]_vars

(* docs/engine-events.md: a notice received during work stays in the queue. *)
(* Every notice and every shared deadline reaches the worker unless the     *)
(* queue is closed first.  The owner of a deadline may postpone or clear it *)
(* for as long as it likes (set_deadline, work_queue.py:63-81): a time that *)
(* it leaves alone does not stay in the queue.                              *)
WorkDelivered ==
    /\ \A kind \in Kinds : kind \in pending ~> kind \in batch \/ closed
    /\ \A id \in SharedIds : deadlines[id] # None ~> deadlines[id] = None \/ closed
    /\ \A id \in OwnedIds : \A t \in 0..MaxTime :
           deadlines[id] = t ~> deadlines[id] # t \/ closed

(* close() releases the worker from an idle wait and from its loop. *)
ShutdownReleases == closed ~> worker = "released"

Board == INSTANCE NoticeBoard WITH
            Keys <- SharedKeys \union OwnedKeys,
            ready <- pending,
            armed <- {id \in Ids : deadlines[id] # None},
            open <- ~closed,
            worker <- IF worker = "waiting" \/ worker = "taking" THEN "asking" ELSE worker

(* The queue implements the board: with its clock and its lock hidden, it   *)
(* hands out exactly the notices and deadlines that were asked for, once.   *)
RefinesNoticeBoard == Board!Spec
====
