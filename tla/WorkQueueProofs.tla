---- MODULE WorkQueueProofs ----
(***************************************************************************)
(* Proofs about the work queue for any stages, keys, delays and clock      *)
(* bound.  SleepCoversPromises is inductive together with the types: every *)
(* producer that could break it also wakes the worker, and the worker goes *)
(* to sleep only on an empty queue and until the earliest deadline.        *)
(***************************************************************************)
EXTENDS WorkQueue, TLAPS

IInv == TypeOK /\ SleepCoversPromises

LEMMA TypeInit == Init => TypeOK
<1> SUFFICES ASSUME Init PROVE TypeOK
  OBVIOUS
<1>1. deadlines \in [Ids -> Nat \union {None}]
  BY DEF Init
<1>2. closed \in BOOLEAN
  BY DEF Init
<1> QED
  BY <1>1, <1>2 DEF Init, TypeOK, WorkerStates

LEMMA TypeStep == TypeOK /\ [Next]_vars => TypeOK'
<1> SUFFICES ASSUME TypeOK, [Next]_vars
             PROVE  TypeOK'
  OBVIOUS
<1> USE DEF TypeOK, WorkerStates, Notified
<1>1. ASSUME NEW kind \in Kinds, Put(kind)
      PROVE  TypeOK'
  BY <1>1 DEF Put
<1>2. ASSUME NEW id \in OwnedIds, ClearDeadline(id)
      PROVE  TypeOK'
  BY <1>2 DEF ClearDeadline, Ids
<1>3. ASSUME NEW id \in OwnedIds, NEW delay \in Delays, SetDeadline(id, delay)
      PROVE  TypeOK'
  <2>1. now + delay \in Nat
    BY DelaysAssumption
  <2> QED
    BY <1>3, <2>1 DEF SetDeadline, Ids
<1>4. ASSUME NEW id \in SharedIds, NEW delay \in Delays, Schedule(id, delay)
      PROVE  TypeOK'
  <2>1. now + delay \in Nat
    BY DelaysAssumption
  <2>2. deadlines' \in [Ids -> Nat \union {None}]
    BY <1>4, <2>1 DEF Schedule, Earlier, Ids
  <2> QED
    BY <1>4, <2>2 DEF Schedule
<1>5. CASE Close
  BY <1>5 DEF Close
<1>6. CASE TakeReady
  <2>1. Ready \subseteq Kinds
    BY DEF Ready, Due, Ids, SharedIds, OwnedIds
  <2> QED
    BY <1>6, <2>1 DEF TakeReady
<1>7. CASE Sleep
  <2>1. wakeAt' \in Nat \union {None}
    BY <1>7 DEF Sleep
  <2> QED
    BY <1>7, <2>1 DEF Sleep
<1>8. CASE Timeout
  BY <1>8 DEF Timeout
<1>9. CASE TakeClosed
  BY <1>9 DEF TakeClosed
<1>10. CASE Finish
  BY <1>10 DEF Finish
<1>11. CASE Tick
  BY <1>11 DEF Tick
<1>12. CASE UNCHANGED vars
  BY <1>12 DEF vars
<1> QED
  BY <1>1, <1>2, <1>3, <1>4, <1>5, <1>6, <1>7, <1>8, <1>9, <1>10, <1>11, <1>12
     DEF Next, Produce, Work

(* Every state keeps its variables in their types. *)
THEOREM TypeCorrect == Spec => []TypeOK
  BY TypeInit, TypeStep, PTL DEF Spec

----
LEMMA SleepInit == Init => SleepCoversPromises
  BY DEF Init, SleepCoversPromises

(* A producer leaves no worker waiting. *)
LEMMA NotifyWakes == ASSUME TypeOK PROVE Notified # "waiting"
  BY DEF Notified

LEMMA SleepStep == IInv /\ [Next]_vars => SleepCoversPromises'
<1> SUFFICES ASSUME IInv, [Next]_vars
             PROVE  SleepCoversPromises'
  OBVIOUS
<1> USE DEF IInv, SleepCoversPromises
<1>1. ASSUME worker' = Notified
      PROVE  SleepCoversPromises'
  BY <1>1, NotifyWakes
<1>2. CASE Produce
  BY <1>1, <1>2 DEF Produce, Put, ClearDeadline, SetDeadline, Schedule, Close
<1>3. CASE TakeReady \/ Timeout \/ TakeClosed \/ Finish
  BY <1>3 DEF TakeReady, Timeout, TakeClosed, Finish
<1>4. CASE Sleep
  <2>1. pending' = {} /\ ~closed'
    BY <1>4 DEF Sleep, Ready
  <2>2. ASSUME NEW id \in Ids, deadlines'[id] # None
        PROVE  wakeAt' # None /\ wakeAt' <= deadlines'[id]
    <3>1. PICK time \in {deadlines[i] : i \in Ids} \union {None} :
             IsEarliest(time) /\ wakeAt' = time
      BY <1>4 DEF Sleep
    <3>2. deadlines' = deadlines
      BY <1>4 DEF Sleep
    <3> QED
      BY <2>2, <3>1, <3>2 DEF IsEarliest
  <2> QED
    BY <2>1, <2>2
<1>5. CASE Tick
  BY <1>5 DEF Tick
<1>6. CASE UNCHANGED vars
  BY <1>6 DEF vars
<1> QED
  BY <1>2, <1>3, <1>4, <1>5, <1>6 DEF Next, Work

(* A worker asleep in take() has nothing to take and wakes no later than   *)
(* any deadline: no notify is lost between the check and the wait.         *)
THEOREM NoLostWakeUp == Spec => []SleepCoversPromises
<1>1. Init => IInv
  BY TypeInit, SleepInit DEF IInv
<1>2. IInv /\ [Next]_vars => IInv'
  BY TypeStep, SleepStep DEF IInv
<1>3. IInv => SleepCoversPromises
  BY DEF IInv
<1> QED
  BY <1>1, <1>2, <1>3, PTL DEF Spec

----
LEMMA DeadlineStep ==
    ASSUME TypeOK, [Next]_vars, NEW id \in SharedIds, deadlines[id] # None
    PROVE  Fires(id) \/ (deadlines'[id] # None /\ deadlines'[id] <= deadlines[id])
<1> USE DEF TypeOK
<1>1. id \in Ids /\ deadlines[id] \in Nat
  BY DEF Ids
<1>2. ASSUME deadlines' = deadlines
      PROVE  deadlines'[id] # None /\ deadlines'[id] <= deadlines[id]
  BY <1>1, <1>2
<1>3. ASSUME NEW other \in OwnedIds, NEW value,
             deadlines' = [deadlines EXCEPT ![other] = value]
      PROVE  deadlines'[id] # None /\ deadlines'[id] <= deadlines[id]
  <2>1. other # id
    BY KeysAssumption DEF SharedIds, OwnedIds
  <2>2. deadlines'[id] = deadlines[id]
    BY <1>1, <1>3, <2>1
  <2> QED
    BY <1>1, <2>2
<1>4. ASSUME NEW other \in OwnedIds, ClearDeadline(other)
      PROVE  deadlines'[id] # None /\ deadlines'[id] <= deadlines[id]
  BY <1>3, <1>4 DEF ClearDeadline
<1>5. ASSUME NEW other \in OwnedIds, NEW delay \in Delays, SetDeadline(other, delay)
      PROVE  deadlines'[id] # None /\ deadlines'[id] <= deadlines[id]
  BY <1>3, <1>5 DEF SetDeadline
<1>6. ASSUME NEW other \in SharedIds, NEW delay \in Delays, Schedule(other, delay)
      PROVE  deadlines'[id] # None /\ deadlines'[id] <= deadlines[id]
  <2>1. now + delay \in Nat
    BY DelaysAssumption
  <2>2. CASE other # id
    <3>1. deadlines'[id] = deadlines[id]
      BY <1>1, <1>6, <2>2 DEF Schedule
    <3> QED
      BY <1>1, <3>1
  <2>3. CASE other = id
    <3>1. deadlines'[id] = IF deadlines[id] < now + delay THEN deadlines[id] ELSE now + delay
      BY <1>1, <1>6, <2>3 DEF Schedule, Earlier
    <3> QED
      BY <1>1, <2>1, <3>1, NoneAssumption
  <2> QED
    BY <2>2, <2>3
<1>7. CASE TakeReady
  <2>1. CASE id \in Due
    <3>1. deadlines'[id] = None
      BY <1>1, <1>7, <2>1 DEF TakeReady
    <3>2. deadlines[id] <= now
      BY <2>1 DEF Due
    <3>3. id[1] \in batch'
      BY <1>7, <2>1 DEF TakeReady, Ready
    <3> QED
      BY <3>1, <3>2, <3>3 DEF Fires
  <2>2. CASE id \notin Due
    <3>1. deadlines'[id] = deadlines[id]
      BY <1>1, <1>7, <2>2 DEF TakeReady
    <3> QED
      BY <1>1, <3>1
  <2> QED
    BY <2>1, <2>2
<1>8. CASE (\E kind \in Kinds : Put(kind)) \/ Close \/ Sleep \/ Timeout \/ TakeClosed \/ Finish
           \/ Tick \/ UNCHANGED vars
  BY <1>2, <1>8 DEF Put, Close, Sleep, Timeout, TakeClosed, Finish, Tick, vars
<1> QED
  BY <1>4, <1>5, <1>6, <1>7, <1>8 DEF Next, Produce, Work

(* No producer of a shared key postpones or drops the deadline of another; *)
(* the deadline ends in a batch with its stage, and not before its time.   *)
THEOREM DeadlinesAreKept == Spec => DeadlineKept
<1>1. TypeOK /\ [Next]_vars
        => [\A id \in SharedIds : deadlines[id] # None =>
              Fires(id) \/ (deadlines'[id] # None /\ deadlines'[id] <= deadlines[id])]_vars
  BY DeadlineStep
<1> QED
  BY <1>1, TypeCorrect, PTL DEF Spec, DeadlineKept

----
LEMMA BoardInit == Init => Board!Init
  BY DEF Init, Board!Init

LEMMA BoardStep == TypeOK /\ [Next]_vars => [Board!Next]_(Board!vars)
<1> SUFFICES ASSUME TypeOK, [Next]_vars
             PROVE  Board!Next \/ UNCHANGED Board!vars
  OBVIOUS
<1> DEFINE Armed == {id \in Ids : deadlines[id] # None}
           Role == IF worker = "waiting" \/ worker = "taking" THEN "asking" ELSE worker
<1> USE DEF TypeOK
<1>ids. Ids = Kinds \X (SharedKeys \union OwnedKeys)
  BY DEF Ids, SharedIds, OwnedIds
<1>notified. ASSUME worker' = Notified PROVE Role' = Role
  BY <1>notified DEF Notified
<1>1. ASSUME NEW kind \in Kinds, Put(kind)
      PROVE  Board!Put(kind)
  BY <1>1, <1>notified DEF Put, Board!Put
<1>2. ASSUME NEW id \in OwnedIds, ClearDeadline(id)
      PROVE  Board!Disarm(id)
  <2>1. Armed' = Armed \ {id}
    BY <1>2 DEF ClearDeadline, Ids
  <2> QED
    BY <1>2, <2>1, <1>notified DEF ClearDeadline, Board!Disarm
<1>3. ASSUME NEW id \in OwnedIds, NEW delay \in Delays, SetDeadline(id, delay)
      PROVE  Board!Arm(id)
  <2>1. now + delay # None
    BY DelaysAssumption, NoneAssumption
  <2>2. Armed' = Armed \union {id}
    BY <1>3, <2>1 DEF SetDeadline, Ids
  <2> QED
    BY <1>3, <2>2, <1>notified DEF SetDeadline, Board!Arm
<1>4. ASSUME NEW id \in SharedIds, NEW delay \in Delays, Schedule(id, delay)
      PROVE  Board!Arm(id)
  <2>1. now + delay # None
    BY DelaysAssumption, NoneAssumption
  <2>2. Armed' = Armed \union {id}
    BY <1>4, <2>1 DEF Schedule, Earlier, Ids
  <2> QED
    BY <1>4, <2>2, <1>notified DEF Schedule, Board!Arm
<1>5. ASSUME Close PROVE Board!Close
  BY <1>5, <1>notified DEF Close, Board!Close
<1>6. ASSUME TakeReady PROVE \E fired \in SUBSET Armed : Board!Take(fired)
  <2>1. Due \subseteq Armed
    BY DEF Due
  <2>2. Armed' = Armed \ Due
    BY <1>6 DEF TakeReady
  <2>3. Ready = pending \union Board!KindsOf(Due)
    BY DEF Ready, Board!KindsOf
  <2> QED
    BY <1>6, <2>1, <2>2, <2>3, Zenon DEF TakeReady, Board!Take
<1>7. CASE Sleep \/ Timeout
  BY <1>7 DEF Sleep, Timeout, Board!vars
<1>8. ASSUME TakeClosed PROVE Board!Release
  BY <1>8 DEF TakeClosed, Board!Release
<1>9. ASSUME Finish PROVE Board!Finish
  BY <1>9 DEF Finish, Board!Finish
<1>10. CASE Tick
  BY <1>10 DEF Tick, Board!vars
<1>11. CASE UNCHANGED vars
  BY <1>11 DEF vars, Board!vars
<1> QED
  BY <1>ids, <1>1, <1>2, <1>3, <1>4, <1>5, <1>6, <1>7, <1>8, <1>9, <1>10, <1>11
     DEF Next, Produce, Work, Ids, Board!Next, Board!Deadlines

(* With clock, lock and waits hidden, the queue hands out exactly the      *)
(* notices and deadlines that were asked for.                              *)
THEOREM ImplementsNoticeBoard == Spec => RefinesNoticeBoard
  BY BoardInit, BoardStep, TypeCorrect, PTL DEF Spec, RefinesNoticeBoard, Board!Spec
====
