---- MODULE NotifierProofs ----
(***************************************************************************)
(* Proofs about the notifier for any sessions, delays and failures.  An    *)
(* alert is armed only when its change has sent nothing, and pushed only   *)
(* before Telegram; what a scan works from is the status, or the worker    *)
(* has been told of a newer one.  A wait ends by the earliest deadline,    *)
(* and a session that needs you is always behind an alert or about to be   *)
(* seen.                                                                   *)
(***************************************************************************)
EXTENDS Notifier, WellFoundedInduction, TLAPS

(* A set of numbers that is not empty has a least member. *)
LEMMA MinIsLeast ==
    ASSUME NEW S \in SUBSET Nat, S # {}
    PROVE  Min(S) \in S /\ \A y \in S : Min(S) <= y
<1>1. PICK x \in S : \A y \in S : ~ (<<y, x>> \in OpToRel(<, Nat))
  BY NatLessThanWellFounded, WFMin
<1>2. \A y \in S : x <= y
  <2>1. ASSUME NEW y \in S PROVE ~(y < x)
    BY <1>1 DEF OpToRel
  <2> QED
    BY <2>1
<1> QED
  BY <1>2 DEF Min

LEMMA NextDelayType ==
    ASSUME TypeOK, NEW states \in [Sessions -> States]
    PROVE  /\ NextDelay(states) \in Nat \union {Forever}
           /\ NextDelay(states) = Forever =>
                  \A s \in Sessions : pending[s] = None /\ ~IsStale(s, states)
<1> DEFINE delays == {pending[s].due : s \in {x \in Sessions : pending[x] # None}}
                         \union (IF \E s \in Sessions : IsStale(s, states) THEN {Retry} ELSE {})
<1>1. delays \subseteq Nat
  <2>1. ASSUME NEW s \in Sessions, pending[s] # None PROVE pending[s].due \in Nat
    BY <2>1 DEF TypeOK, Pending
  <2> QED
    BY <2>1, DelaysAssumption
<1>2. CASE delays = {}
  BY <1>2 DEF NextDelay
<1>3. CASE delays # {}
  <2>1. NextDelay(states) = Min(delays)
    BY <1>3 DEF NextDelay
  <2> QED
    BY <2>1, <1>1, <1>3, MinIsLeast, NoneAssumption
<1> QED
  BY <1>2, <1>3

----
(* Types. *)

LEMMA RetractedType ==
    ASSUME TypeOK, NEW s \in Sessions, NEW state
    PROVE  /\ Retracted(s, state) \subseteq Delivered
           /\ \A r \in Retracted(s, state) : \E q \in delivered[s] : q.state = r.state
<1>1. ASSUME NEW r \in delivered[s], NEW q \in Remaining(r, state)
      PROVE  q \in Delivered /\ q.state = r.state
  <2>1. r \in Delivered
    BY DEF TypeOK
  <2>2. [r EXCEPT !.phase = "deleting"] \in Delivered /\ [r EXCEPT !.phase = "deleting"].state = r.state
    BY <2>1 DEF Delivered, Phases
  <2>3. q = r \/ q = [r EXCEPT !.phase = "deleting"]
    BY DEF Remaining
  <2> QED
    BY <2>1, <2>2, <2>3
<1> QED
  BY <1>1 DEF Retracted

LEMMA EarlierType == \A t \in Nat : Earlier(t) \in Nat
  BY DEF Earlier

LEMMA TypeInit == Init => TypeOK
<1> SUFFICES ASSUME Init PROVE TypeOK
  OBVIOUS
<1>1. Nothing \in [Sessions -> States] /\ Nothing \in [Sessions -> Pending \union {None}]
  BY DEF Nothing, States
<1>2. changes \in 0..MaxChanges /\ failures \in 0..MaxFailures
  BY BoundsAssumption DEF Init
<1> QED
  BY <1>1, <1>2 DEF Init, TypeOK, Places

LEMMA HandleType ==
    ASSUME TypeOK, NEW s \in Sessions, NEW c \in Channels, pending[s] # None
    PROVE  Handle(s, c) \in Delivered
  BY DelaysAssumption DEF TypeOK, Handle, Delivered, Pending, Phases

LEMMA SendType ==
    ASSUME TypeOK, NEW s \in Sessions, NEW C \in SUBSET Channels, pending[s] # None, Send(s, C)
    PROVE  /\ delivered' \in [Sessions -> SUBSET Delivered]
           /\ sends' \in [Sessions -> [Channels -> Nat]]
           /\ answered' \in [Sessions -> States]
<1>1. delivered[s] \union {Handle(s, c) : c \in C} \in SUBSET Delivered
  BY HandleType DEF TypeOK
<1>2. [c \in Channels |-> IF c \in C THEN sends[s][c] + 1 ELSE sends[s][c]] \in [Channels -> Nat]
  BY DEF TypeOK
<1>3. pending[s].state \in States
  BY DEF TypeOK, Pending, States
<1> QED
  BY <1>1, <1>2, <1>3 DEF Send, TypeOK

LEMMA FailType ==
    ASSUME TypeOK, Fail
    PROVE  pc' \in Places /\ wait' \in Nat \union {Forever} /\ failures' \in 0..MaxFailures
  BY DelaysAssumption, BoundsAssumption DEF Fail, TypeOK, Places

(* A scan compares with the states that an earlier one knew. *)
Known == pc \in {"resolving", "stale", "delivering"} => previous # None

LEMMA TypeStep == TypeOK /\ Known /\ [Next]_vars => TypeOK'
<1> SUFFICES ASSUME TypeOK, Known, [Next]_vars PROVE TypeOK'
  OBVIOUS
<1>1. ASSUME NEW s \in Sessions, ChangeStatus(s) PROVE TypeOK'
  BY <1>1, BoundsAssumption DEF ChangeStatus, TypeOK
<1>2. CASE Tick
  <2>1. wait' \in Nat \union {Forever}
    BY <1>2, EarlierType DEF Tick, TypeOK
  <2>2. pending' \in [Sessions -> Pending \union {None}]
    <3>1. ASSUME NEW s \in Sessions, pending[s] # None
          PROVE  [pending[s] EXCEPT !.due = Earlier(@)] \in Pending
      <4>1. pending[s] \in Pending
        BY <3>1 DEF TypeOK
      <4> QED
        BY <4>1, EarlierType DEF Pending
    <3> QED
      BY <1>2, <3>1 DEF Tick
  <2>3. delivered' \in [Sessions -> SUBSET Delivered]
    <3>1. ASSUME NEW s \in Sessions, NEW r \in delivered[s]
          PROVE  [r EXCEPT !.age = IF @ < Lifetime THEN @ + 1 ELSE @] \in Delivered
      <4>1. r \in Delivered
        BY DEF TypeOK
      <4> QED
        BY <4>1, DelaysAssumption DEF Delivered
    <3> QED
      BY <1>2, <3>1 DEF Tick
  <2> QED
    BY <1>2, <2>1, <2>2, <2>3 DEF Tick, TypeOK
<1>3. ASSUME NEW s \in Sessions, TelegramThread(s) PROVE TypeOK'
  <2>1. PICK r \in delivered[s], phase \in Phases :
            delivered' = [delivered EXCEPT ![s] = (@ \ {r}) \union {[r EXCEPT !.phase = phase]}]
    BY <1>3 DEF TelegramThread, Phases
  <2>2. [r EXCEPT !.phase = phase] \in Delivered
    <3>1. r \in Delivered
      BY DEF TypeOK
    <3> QED
      BY <3>1 DEF Delivered
  <2>3. delivered' \in [Sessions -> SUBSET Delivered]
    BY <2>1, <2>2 DEF TypeOK
  <2> QED
    BY <1>3, <2>3 DEF TelegramThread, TypeOK
<1>4. CASE Wake
  BY <1>4 DEF Wake, TypeOK, Places
<1>5. CASE FirstScan
  BY <1>5 DEF FirstScan, TypeOK, Places
<1>6. CASE ReadStates
  BY <1>6 DEF ReadStates, TypeOK, Places
<1>7. ASSUME NEW s \in Sessions, ResolveChange(s) PROVE TypeOK'
  <2>1. Retracted(s, current[s]) \in SUBSET Delivered
    BY RetractedType
  <2>2. current[s] \in States /\ previous \in [Sessions -> States] \union {None}
    BY DEF TypeOK
  <2>3. current[s] \in NOTIFICATION_KINDS =>
            [state |-> current[s], due |-> Delay(current[s]), pushed |-> FALSE] \in Pending
    BY DelaysAssumption DEF Pending, Delay
  <2>4. Schedule(s) => pending' \in [Sessions -> Pending \union {None}] /\ answered' \in [Sessions -> States]
    BY <2>2, <2>3 DEF Schedule, TypeOK, States
  <2>5. /\ pending' \in [Sessions -> Pending \union {None}] /\ answered' \in [Sessions -> States]
        /\ delivered' \in [Sessions -> SUBSET Delivered]
        /\ nth' \in [Sessions -> Nat] /\ dropped' \subseteq Sessions
        /\ sends' \in [Sessions -> [Channels -> Nat]]
    <3>1. [c \in Channels |-> 0] \in [Channels -> Nat]
      OBVIOUS
    <3>2. CASE previous[s] = current[s]
      BY <1>7, <3>2 DEF ResolveChange, TypeOK
    <3>3. CASE previous[s] # current[s]
      <4>1. pending' \in [Sessions -> Pending \union {None}] /\ answered' \in [Sessions -> States]
        BY <1>7, <3>3, <2>4 DEF ResolveChange
      <4>2. /\ delivered' = [delivered EXCEPT ![s] = Retracted(s, current[s])]
            /\ nth' = [nth EXCEPT ![s] = @ + 1]
            /\ sends' = [sends EXCEPT ![s] = [c \in Channels |-> 0]]
            /\ dropped' = dropped \ {s}
        BY <1>7, <3>3 DEF ResolveChange
      <4> QED
        BY <2>1, <3>1, <4>1, <4>2 DEF TypeOK
    <3> QED
      BY <3>2, <3>3
  <2> QED
    BY <1>7, <2>5 DEF ResolveChange, TypeOK
<1>8. CASE StartStale
  BY <1>8 DEF StartStale, TypeOK, Places
<1>9. ASSUME NEW s \in Sessions, ResolveStale(s) PROVE TypeOK'
  <2>1. Retracted(s, current[s]) \in SUBSET Delivered
    BY RetractedType
  <2>2. /\ pending' \in [Sessions -> Pending \union {None}]
        /\ delivered' \in [Sessions -> SUBSET Delivered]
        /\ dropped' \subseteq Sessions
    BY <1>9, <2>1 DEF ResolveStale, TypeOK
  <2> QED
    BY <1>9, <2>2 DEF ResolveStale, TypeOK
<1>10. CASE StartDelivery
  BY <1>10 DEF StartDelivery, TypeOK, Places
<1>11. ASSUME NEW s \in Sessions, Deliver(s) PROVE TypeOK'
  <2>1. CASE UNCHANGED <<pending, delivered, sends, answered>>
    BY <1>11, <2>1 DEF Deliver, TypeOK
  <2>2. CASE Disarm(s) /\ UNCHANGED <<delivered, sends, answered>>
    BY <1>11, <2>2 DEF Deliver, TypeOK, Disarm
  <2>3. CASE pending[s] # None /\ (Escalate(s) \/ Suppress(s) \/ Push(s) \/ Fallback(s))
    <3>1. pending[s] \in Pending
      BY <2>3 DEF TypeOK
    <3>2. CASE UNCHANGED <<delivered, sends, answered>> /\ Disarm(s)
      BY <1>11, <3>2 DEF Deliver, TypeOK, Disarm
    <3>3. CASE Suppress(s)
      BY <1>11, <3>1, <3>3 DEF Deliver, TypeOK, Suppress, Disarm, Pending, States
    <3>4. ASSUME NEW C \in SUBSET Channels, Send(s, C),
                 pending' \in [Sessions -> Pending \union {None}]
          PROVE  TypeOK'
      BY <1>11, <2>3, <3>4, SendType DEF Deliver, TypeOK
    <3>5. Disarm(s) => pending' \in [Sessions -> Pending \union {None}]
      BY DEF Disarm, TypeOK
    <3>6. CASE Escalate(s)
      BY <3>6, <3>2, <3>4, <3>5 DEF Escalate, DisarmEscalated, Channels
    <3>7. CASE Push(s)
      <4>1. [pending[s] EXCEPT !.pushed = TRUE, !.due = Escalation] \in Pending
        BY <3>1, DelaysAssumption DEF Pending
      <4>2. pending' \in [Sessions -> Pending \union {None}]
        BY <3>7, <3>5, <4>1 DEF Push, TypeOK
      <4> QED
        BY <3>7, <4>2, <3>4 DEF Push, Channels
    <3>8. CASE Fallback(s)
      BY <3>8, <3>4, <3>5 DEF Fallback, Channels
    <3> QED
      BY <2>3, <3>3, <3>6, <3>7, <3>8
  <2> QED
    BY <1>11, <2>1, <2>2, <2>3 DEF Deliver
<1>12. CASE Sleep
  <2>1. NextDelay(previous) \in Nat \union {Forever}
    BY <1>12, NextDelayType DEF TypeOK, Known, Sleep
  <2> QED
    BY <1>12, <2>1 DEF Sleep, TypeOK, Places
<1>13. CASE ReadFails
  BY <1>13, FailType DEF ReadFails, TypeOK
<1>15. ASSUME NEW s \in Sessions, ScheduleFails(s) PROVE TypeOK'
  <2>1. Retracted(s, current[s]) \in SUBSET Delivered
    BY RetractedType
  <2> QED
    BY <1>15, <2>1, FailType DEF ScheduleFails, Disarm, TypeOK
<1>16. ASSUME NEW s \in Sessions, SendFails(s) PROVE TypeOK'
  <2>1. /\ pending' \in [Sessions -> Pending \union {None}]
        /\ delivered' \in [Sessions -> SUBSET Delivered]
        /\ sends' \in [Sessions -> [Channels -> Nat]]
        /\ answered' \in [Sessions -> States]
        /\ dropped' \subseteq Sessions
    <3>1. CASE KeptInSending(s)
      BY <3>1 DEF KeptInSending, TypeOK
    <3>2. CASE LostInSending(s)
      <4>1. pending' \in [Sessions -> Pending \union {None}]
        BY <3>2 DEF LostInSending, Disarm, TypeOK
      <4>2. CASE Send(s, {"push"}) /\ UNCHANGED dropped
        BY <1>16, <4>1, <4>2, SendType DEF SendFails, Channels, TypeOK
      <4>3. CASE /\ UNCHANGED <<delivered, sends, answered>>
                 /\ dropped' = IF pending[s].pushed THEN dropped ELSE dropped \union {s}
        BY <4>1, <4>3 DEF TypeOK
      <4> QED
        BY <3>2, <4>2, <4>3 DEF LostInSending
    <3> QED
      BY <1>16, <3>1, <3>2 DEF SendFails
  <2> QED
    BY <1>16, <2>1, FailType DEF SendFails, TypeOK
<1>14. CASE UNCHANGED vars
  BY <1>14 DEF vars, TypeOK
<1> QED
  BY <1>1, <1>2, <1>3, <1>4, <1>5, <1>6, <1>7, <1>8, <1>9, <1>10, <1>11, <1>12, <1>13, <1>14,
     <1>15, <1>16 DEF Next, Scan

----
(* What a scan works from. *)

Clean(states) == \A s \in Sessions : pending[s] = None /\ ~IsStale(s, states)

ScanInv ==
    /\ Known
    /\ previous = None => redo = {} /\ \A s \in Sessions : pending[s] = None /\ delivered[s] = {}
    /\ pc \in {"resolving", "stale", "delivering"} /\ ~changed => current = status
    /\ pc = "delivering" => previous = current /\ redo = {}
    /\ pc = "waiting" /\ wait = Forever => previous # None /\ Clean(previous)
    /\ pc = "waiting" /\ wait = Forever /\ ~changed => previous = status

(* Time and the threads of Telegram neither arm nor age an alert into       *)
(* another state.                                                           *)
LEMMA StatesStay ==
    ASSUME TypeOK, Tick \/ \E s \in Sessions : TelegramThread(s)
    PROVE  \A s \in Sessions :
              /\ pending[s] = None => pending'[s] = None
              /\ delivered[s] = {} => delivered'[s] = {}
              /\ \A q \in delivered'[s] : \E r \in delivered[s] : r.state = q.state
<1>1. CASE Tick
  <2>1. ASSUME NEW s \in Sessions, NEW q \in delivered'[s]
        PROVE  \E r \in delivered[s] : r.state = q.state
    <3>1. PICK r \in delivered[s] : q = [r EXCEPT !.age = IF @ < Lifetime THEN @ + 1 ELSE @]
      BY <1>1, <2>1 DEF Tick
    <3>2. r \in Delivered
      BY DEF TypeOK
    <3> QED
      BY <3>1, <3>2 DEF Delivered
  <2>2. \A s \in Sessions : pending[s] = None => pending'[s] = None
    BY <1>1 DEF Tick
  <2> QED
    BY <2>1, <2>2
<1>2. ASSUME NEW s \in Sessions, TelegramThread(s)
      PROVE  \A x \in Sessions :
                /\ pending[x] = None => pending'[x] = None
                /\ delivered[x] = {} => delivered'[x] = {}
                /\ \A q \in delivered'[x] : \E r \in delivered[x] : r.state = q.state
  <2>1. PICK r \in delivered[s], phase \in Phases :
            delivered' = [delivered EXCEPT ![s] = (@ \ {r}) \union {[r EXCEPT !.phase = phase]}]
    BY <1>2 DEF TelegramThread, Phases
  <2>2. r \in Delivered
    BY DEF TypeOK
  <2>3. [r EXCEPT !.phase = phase].state = r.state
    BY <2>2 DEF Delivered
  <2>4. \A x \in Sessions : \A q \in delivered'[x] : \E p \in delivered[x] : p.state = q.state
    BY <2>1, <2>3 DEF TypeOK
  <2> QED
    BY <1>2, <2>4 DEF TelegramThread
<1> QED
  BY <1>1, <1>2

LEMMA ScanInit == Init => ScanInv
  BY DEF Init, ScanInv, Known, Nothing

LEMMA ScanStep == TypeOK /\ ScanInv /\ [Next]_vars => ScanInv'
<1> SUFFICES ASSUME TypeOK, ScanInv, [Next]_vars PROVE ScanInv'
  OBVIOUS
<1> USE DEF ScanInv, Known
<1>1. ASSUME NEW s \in Sessions, ChangeStatus(s) PROVE ScanInv'
  BY <1>1 DEF ChangeStatus, Clean, IsStale
<1>2. CASE Tick \/ \E s \in Sessions : TelegramThread(s)
  <2>1. UNCHANGED <<status, changed, pc, current, previous, redo>> /\ (wait' = Forever => wait = Forever)
    <3>1. CASE Tick
      <4>1. wait # Forever => wait' \in Nat
        BY <3>1, EarlierType DEF Tick, TypeOK
      <4> QED
        BY <3>1, <4>1, NoneAssumption DEF Tick
    <3> QED
      BY <1>2, <3>1 DEF TelegramThread
  <2>2. Clean(previous) => Clean(previous)'
    BY <1>2, <2>1, StatesStay DEF Clean, IsStale
  <2> QED
    BY <1>2, <2>1, <2>2, StatesStay
<1>4. CASE Wake
  BY <1>4 DEF Wake
<1>5. CASE FirstScan
  <2>1. status # None
    BY NoneAssumption DEF TypeOK
  <2>2. Clean(status)'
    BY <1>5 DEF FirstScan, Clean, IsStale
  <2> QED
    BY <1>5, <2>1, <2>2 DEF FirstScan
<1>6. CASE ReadStates
  BY <1>6 DEF ReadStates
<1>7. ASSUME NEW s \in Sessions, ResolveChange(s) \/ ResolveStale(s) PROVE ScanInv'
  BY <1>7 DEF ResolveChange, ResolveStale
<1>8. CASE StartStale
  BY <1>8 DEF StartStale
<1>10. CASE StartDelivery
  <2>1. current # None
    BY NoneAssumption DEF TypeOK
  <2> QED
    BY <1>10, <2>1 DEF StartDelivery
<1>11. ASSUME NEW s \in Sessions, Deliver(s) PROVE ScanInv'
  BY <1>11 DEF Deliver
<1>12. CASE Sleep
  <2>1. wait' = Forever => Clean(previous)
    BY <1>12, NextDelayType DEF Sleep, TypeOK, Clean
  <2>2. Clean(previous) => Clean(previous)'
    BY <1>12 DEF Sleep, Clean, IsStale
  <2> QED
    BY <1>12, <2>1, <2>2 DEF Sleep
<1>13. CASE ReadFails
  BY <1>13, NoneAssumption, DelaysAssumption DEF ReadFails, Fail
<1>15. ASSUME NEW s \in Sessions, ScheduleFails(s) \/ SendFails(s) PROVE ScanInv'
  BY <1>15, NoneAssumption, DelaysAssumption DEF ScheduleFails, SendFails, Fail
<1>14. CASE UNCHANGED vars
  BY <1>14 DEF vars, Clean, IsStale
<1> QED
  BY <1>1, <1>2, <1>4, <1>5, <1>6, <1>7, <1>8, <1>10, <1>11, <1>12, <1>13, <1>14, <1>15
     DEF Next, Scan

(* Every state keeps its variables in their types. *)
THEOREM TypeCorrect == Spec => []TypeOK
<1>1. Init => TypeOK /\ ScanInv
  BY TypeInit, ScanInit
<1>2. TypeOK /\ ScanInv /\ [Next]_vars => TypeOK' /\ ScanInv'
  BY TypeStep, ScanStep DEF ScanInv
<1> QED
  BY <1>1, <1>2, PTL DEF Spec

(* A worker that waits without a deadline has seen the status of every      *)
(* session and has no alert to send or to take back.                        *)
THEOREM IdleWorkersAreDone == Spec => []IdleMeansDone
<1>1. Init => TypeOK /\ ScanInv
  BY TypeInit, ScanInit
<1>2. TypeOK /\ ScanInv /\ [Next]_vars => TypeOK' /\ ScanInv'
  BY TypeStep, ScanStep DEF ScanInv
<1>3. ScanInv => IdleMeansDone
  BY DEF ScanInv, IdleMeansDone, Clean
<1> QED
  BY <1>1, <1>2, <1>3, PTL DEF Spec

----
(* What is armed has not been sent. *)

AlertsInv ==
    /\ OneAlertPerChannel
    /\ \A s \in Sessions : pending[s] # None =>
           /\ sends[s]["telegram"] = 0
           /\ ~pending[s].pushed => sends[s]["push"] = 0

LEMMA AlertsInit == Init => AlertsInv
  BY DEF Init, AlertsInv, OneAlertPerChannel, Nothing, Channels

LEMMA AlertsStep == TypeOK /\ AlertsInv /\ [Next]_vars => AlertsInv'
<1> SUFFICES ASSUME TypeOK, AlertsInv, [Next]_vars PROVE AlertsInv'
  OBVIOUS
<1>1. CASE UNCHANGED <<pending, sends>>
  BY <1>1 DEF AlertsInv, OneAlertPerChannel
<1>2. CASE Tick
  <2>1. \A s \in Sessions :
            /\ pending'[s] # None => pending[s] # None
            /\ pending'[s] # None => pending'[s].pushed = pending[s].pushed
    <3>1. ASSUME NEW s \in Sessions, pending[s] # None
          PROVE  [pending[s] EXCEPT !.due = Earlier(@)].pushed = pending[s].pushed
      BY <3>1 DEF TypeOK, Pending
    <3> QED
      BY <1>2, <3>1 DEF Tick
  <2> QED
    BY <1>2, <2>1 DEF Tick, AlertsInv, OneAlertPerChannel
<1>3. ASSUME NEW s \in Sessions, ResolveChange(s) PROVE AlertsInv'
  <2>1. CASE previous[s] # current[s]
    <3>1. \A x \in Sessions \ {s} : pending'[x] = pending[x] /\ sends'[x] = sends[x]
      BY <1>3, <2>1 DEF ResolveChange, Schedule, TypeOK
    <3>2. sends'[s] = [c \in Channels |-> 0]
      BY <1>3, <2>1 DEF ResolveChange, TypeOK
    <3> QED
      BY <3>1, <3>2 DEF AlertsInv, OneAlertPerChannel, Channels
  <2> QED
    BY <1>1, <1>3, <2>1 DEF ResolveChange
<1>4. ASSUME NEW s \in Sessions, ResolveStale(s) PROVE AlertsInv'
  BY <1>4 DEF ResolveStale, AlertsInv, OneAlertPerChannel, TypeOK
<1>5. ASSUME NEW s \in Sessions, Deliver(s) PROVE AlertsInv'
  <2>1. CASE Disarm(s) /\ UNCHANGED sends
    BY <2>1 DEF Disarm, AlertsInv, OneAlertPerChannel, TypeOK
  <2>2. ASSUME pending[s] # None, NEW C \in SUBSET Channels, Send(s, C),
               pending[s].pushed => C = {"telegram"},
               \/ Disarm(s)
               \/ C = {"push"} /\ pending' = [pending EXCEPT ![s].pushed = TRUE, ![s].due = Escalation]
        PROVE  AlertsInv'
    <3>1. \A x \in Sessions \ {s} : pending'[x] = pending[x] /\ sends'[x] = sends[x]
      BY <2>2 DEF Send, Disarm, TypeOK
    <3>2. sends'[s] = [c \in Channels |-> IF c \in C THEN sends[s][c] + 1 ELSE sends[s][c]]
      BY <2>2 DEF Send, TypeOK
    <3>3. sends[s] \in [Channels -> Nat] /\ pending[s] \in Pending
      BY <2>2 DEF TypeOK
    <3>4. \A c \in Channels : sends'[s][c] <= 1
      BY <2>2, <3>2, <3>3 DEF AlertsInv, OneAlertPerChannel, Channels, Pending
    <3>5. pending'[s] # None => sends'[s]["telegram"] = 0 /\ pending'[s].pushed = TRUE
      <4>1. CASE Disarm(s)
        BY <4>1 DEF Disarm, TypeOK
      <4>2. CASE C = {"push"} /\ pending' = [pending EXCEPT ![s].pushed = TRUE, ![s].due = Escalation]
        BY <2>2, <3>2, <3>3, <4>2 DEF AlertsInv, Channels, Pending, TypeOK
      <4> QED
        BY <2>2, <4>1, <4>2
    <3> QED
      BY <3>1, <3>4, <3>5 DEF AlertsInv, OneAlertPerChannel
  <2>3. CASE pending[s] # None /\ Escalate(s)
    BY <2>1, <2>2, <2>3 DEF Escalate, DisarmEscalated, Channels
  <2>4. CASE pending[s] # None /\ Suppress(s)
    BY <2>1, <2>4 DEF Suppress
  <2>5. CASE pending[s] # None /\ Push(s)
    BY <2>2, <2>5 DEF Push, Channels
  <2>6. CASE pending[s] # None /\ Fallback(s)
    BY <2>2, <2>6 DEF Fallback, Channels
  <2> QED
    BY <1>1, <1>5, <2>1, <2>3, <2>4, <2>5, <2>6 DEF Deliver
<1>6. ASSUME NEW s \in Sessions, ScheduleFails(s) PROVE AlertsInv'
  BY <1>6 DEF ScheduleFails, Disarm, AlertsInv, OneAlertPerChannel, TypeOK
<1>7. ASSUME NEW s \in Sessions, SendFails(s) PROVE AlertsInv'
  <2>1. CASE Disarm(s) /\ UNCHANGED sends
    BY <2>1 DEF Disarm, AlertsInv, OneAlertPerChannel, TypeOK
  <2>2. CASE pending[s] # None /\ ~pending[s].pushed /\ Disarm(s) /\ Send(s, {"push"})
    <3>1. \A x \in Sessions \ {s} : pending'[x] = pending[x] /\ sends'[x] = sends[x]
      BY <2>2 DEF Send, Disarm, TypeOK
    <3>2. sends'[s] = [c \in Channels |-> IF c \in {"push"} THEN sends[s][c] + 1 ELSE sends[s][c]]
      BY <2>2 DEF Send, TypeOK
    <3>3. sends[s] \in [Channels -> Nat]
      BY DEF TypeOK
    <3>4. \A c \in Channels : sends'[s][c] <= 1
      BY <2>2, <3>2, <3>3 DEF AlertsInv, OneAlertPerChannel, Channels
    <3>5. pending'[s] = None
      BY <2>2 DEF Disarm, TypeOK
    <3> QED
      BY <3>1, <3>4, <3>5 DEF AlertsInv, OneAlertPerChannel
  <2> QED
    BY <1>1, <1>7, <2>1, <2>2 DEF SendFails, LostInSending, KeptInSending
<1> QED
  BY <1>1, <1>2, <1>3, <1>4, <1>5, <1>6, <1>7
     DEF Next, Scan, ChangeStatus, TelegramThread, Wake, FirstScan, ReadStates, StartStale,
         StartDelivery, Sleep, ReadFails, vars

(* A change of a session is told at most once on each channel. *)
THEOREM AlertsAreNotDoubled == Spec => []OneAlertPerChannel
<1>1. Init => TypeOK /\ ScanInv /\ AlertsInv
  BY TypeInit, ScanInit, AlertsInit
<1>2. TypeOK /\ ScanInv /\ AlertsInv /\ [Next]_vars => TypeOK' /\ ScanInv' /\ AlertsInv'
  BY TypeStep, ScanStep, AlertsStep DEF ScanInv
<1> QED
  BY <1>1, <1>2, PTL DEF Spec, AlertsInv

----
(* The timeout of a wait is no longer than t. *)
Within(t) == wait # Forever /\ wait <= t

(* A waiting worker looks again no later than an armed alert is due, than a *)
(* retraction is to be retried, and, after a scan that failed, than the     *)
(* retry: no alert is late because a timeout was computed without it        *)
(* (notifier_processing.py:116-129, _next_delay).                           *)
WakesInTime ==
    pc = "waiting" =>
        /\ \A s \in Sessions : pending[s] # None => Within(pending[s].due) \/ Within(Retry)
        /\ \A s \in Sessions : previous # None /\ IsStale(s, previous) => Within(Retry)
        /\ ~changed /\ previous # status => Within(Retry)
        /\ redo # {} => Within(Retry)

LEMMA NextDelayCovers ==
    ASSUME TypeOK, NEW states \in [Sessions -> States]
    PROVE  /\ \A s \in Sessions : pending[s] # None =>
                  NextDelay(states) # Forever /\ NextDelay(states) <= pending[s].due
           /\ \A s \in Sessions : IsStale(s, states) =>
                  NextDelay(states) # Forever /\ NextDelay(states) <= Retry
<1> DEFINE delays == {pending[s].due : s \in {x \in Sessions : pending[x] # None}}
                         \union (IF \E s \in Sessions : IsStale(s, states) THEN {Retry} ELSE {})
<1>1. delays \subseteq Nat
  <2>1. ASSUME NEW s \in Sessions, pending[s] # None PROVE pending[s].due \in Nat
    BY <2>1 DEF TypeOK, Pending
  <2> QED
    BY <2>1, DelaysAssumption
<1>2. NextDelay(states) = IF delays = {} THEN Forever ELSE Min(delays)
  BY DEF NextDelay
<1>3. /\ \A s \in Sessions : pending[s] # None => pending[s].due \in delays
      /\ \A s \in Sessions : IsStale(s, states) => Retry \in delays
  OBVIOUS
<1> HIDE DEF delays
<1>4. \A d \in delays : Min(delays) \in Nat /\ Min(delays) <= d
  BY <1>1, MinIsLeast
<1> QED
  BY <1>2, <1>3, <1>4, NoneAssumption

LEMMA EarlierKeepsOrder == \A t \in Nat : \A u \in Nat : t <= u => Earlier(t) <= Earlier(u) /\ Earlier(t) <= u
  BY DEF Earlier

(* What time and the threads of Telegram do to armed alerts. *)
LEMMA ArmedStay ==
    ASSUME TypeOK, Tick \/ \E s \in Sessions : TelegramThread(s)
    PROVE  \A s \in Sessions :
              /\ pending'[s] = None <=> pending[s] = None
              /\ pending[s] # None => /\ pending[s] \in Pending
                                      /\ pending'[s].state = pending[s].state
                                      /\ pending'[s].pushed = pending[s].pushed
<1>1. CASE Tick
  <2> SUFFICES ASSUME NEW s \in Sessions
               PROVE  /\ pending'[s] = None <=> pending[s] = None
                      /\ pending[s] # None => /\ pending[s] \in Pending
                                              /\ pending'[s].state = pending[s].state
                                              /\ pending'[s].pushed = pending[s].pushed
    OBVIOUS
  <2>1. CASE pending[s] = None
    BY <1>1, <2>1 DEF Tick
  <2>2. CASE pending[s] # None
    <3>1. pending[s] \in Pending
      BY <2>2 DEF TypeOK
    <3>2. pending'[s] = [pending[s] EXCEPT !.due = Earlier(@)]
      BY <1>1, <2>2 DEF Tick
    <3>3. pending'[s] \in Pending
      BY <3>1, <3>2, EarlierType DEF Pending
    <3> QED
      BY <2>2, <3>1, <3>2, <3>3, NoneAssumption DEF Pending
  <2> QED
    BY <2>1, <2>2
<1>2. CASE \E s \in Sessions : TelegramThread(s)
  BY <1>2 DEF TelegramThread, TypeOK
<1> QED
  BY <1>1, <1>2

LEMMA WakesStep == TypeOK /\ ScanInv /\ WakesInTime /\ [Next]_vars => WakesInTime'
<1> SUFFICES ASSUME TypeOK, ScanInv, WakesInTime, [Next]_vars PROVE WakesInTime'
  OBVIOUS
<1>1. ASSUME NEW s \in Sessions, ChangeStatus(s) PROVE WakesInTime'
  BY <1>1 DEF ChangeStatus, WakesInTime, Within, IsStale
<1>2. CASE Tick
  <2>1. /\ wait \in Nat \union {Forever} /\ Forever \notin Nat /\ Retry \in Nat
        /\ wait' = IF wait = Forever THEN Forever ELSE Earlier(wait)
        /\ UNCHANGED <<status, changed, pc, previous, redo>>
    BY <1>2, NoneAssumption, DelaysAssumption DEF Tick, TypeOK
  <2>2. Within(Retry) => Within(Retry)'
    BY <2>1, EarlierKeepsOrder, EarlierType DEF Within
  <2>3. ASSUME NEW s \in Sessions, pending'[s] # None, pc = "waiting"
        PROVE  Within(pending[s].due) => Within(pending[s].due)'
    <3>1. pending[s] # None /\ pending[s] \in Pending
      BY <1>2, <2>3, ArmedStay
    <3>2. pending'[s].due = Earlier(pending[s].due) /\ pending[s].due \in Nat
      BY <1>2, <3>1 DEF Tick, Pending
    <3> QED
      BY <2>1, <3>2, EarlierKeepsOrder, EarlierType DEF Within
  <2>4. \A s \in Sessions : IsStale(s, previous)' => IsStale(s, previous)
    BY <1>2, <2>1, StatesStay DEF IsStale
  <2>5. \A s \in Sessions : pending'[s] # None => pending[s] # None
    BY <1>2, ArmedStay
  <2> QED
    BY <2>1, <2>2, <2>3, <2>4, <2>5 DEF WakesInTime
<1>3. ASSUME NEW s \in Sessions, TelegramThread(s) PROVE WakesInTime'
  <2>1. UNCHANGED <<status, changed, pc, wait, previous, pending, redo>>
    BY <1>3 DEF TelegramThread
  <2>2. \A x \in Sessions : IsStale(x, previous)' => IsStale(x, previous)
    BY <1>3, <2>1, StatesStay DEF IsStale
  <2> QED
    BY <2>1, <2>2 DEF WakesInTime, Within
<1>4. CASE FirstScan
  BY <1>4 DEF FirstScan, ScanInv, WakesInTime, IsStale
<1>5. CASE Sleep
  <2>1. /\ wait' = NextDelay(previous)
        /\ UNCHANGED <<status, changed, previous, pending, delivered, redo>>
        /\ pc = "delivering"
    BY <1>5 DEF Sleep
  <2>2. previous \in [Sessions -> States] /\ (~changed => previous = status) /\ redo = {}
    BY <2>1 DEF ScanInv, Known, TypeOK
  <2>3. /\ \A s \in Sessions : pending[s] # None => Within(pending[s].due)'
        /\ \A s \in Sessions : IsStale(s, previous) => Within(Retry)'
    BY <2>1, <2>2, NextDelayCovers DEF Within
  <2> QED
    BY <2>1, <2>2, <2>3 DEF WakesInTime, IsStale
<1>6. CASE ReadFails \/ \E s \in Sessions : ScheduleFails(s) \/ SendFails(s)
  <2>1. Within(Retry)'
    BY <1>6, NoneAssumption, DelaysAssumption DEF ReadFails, ScheduleFails, SendFails, Fail, Within
  <2> QED
    BY <2>1 DEF WakesInTime
<1>7. CASE Wake \/ ReadStates \/ StartStale \/ StartDelivery
  BY <1>7 DEF Wake, ReadStates, StartStale, StartDelivery, WakesInTime
<1>8. ASSUME NEW s \in Sessions, ResolveChange(s) \/ ResolveStale(s) \/ Deliver(s) PROVE WakesInTime'
  BY <1>8 DEF ResolveChange, ResolveStale, Deliver, WakesInTime
<1>9. CASE UNCHANGED vars
  BY <1>9 DEF vars, WakesInTime, Within, IsStale
<1> QED
  BY <1>1, <1>2, <1>3, <1>4, <1>5, <1>6, <1>7, <1>8, <1>9 DEF Next, Scan

LEMMA WakesInit == Init => WakesInTime
  BY DEF Init, WakesInTime

(* No alert, retraction or unseen status waits past its time, for any       *)
(* sessions, delays, failures and orders of changes and deadlines.          *)
THEOREM WorkersWakeInTime == Spec => []WakesInTime
<1>1. Init => TypeOK /\ ScanInv /\ WakesInTime
  BY TypeInit, ScanInit, WakesInit
<1>2. TypeOK /\ ScanInv /\ WakesInTime /\ [Next]_vars => TypeOK' /\ ScanInv' /\ WakesInTime'
  BY TypeStep, ScanStep, WakesStep DEF ScanInv
<1> QED
  BY <1>1, <1>2, PTL DEF Spec

----
(* Calls. *)

(* The alert for this state is armed, dealt with, or lost in one of the     *)
(* ways that the property CallsAreAnsweredOrDropped names.                  *)
Handled(s, state) ==
    \/ answered[s] = state \/ s \in dropped
    \/ pending[s] # None /\ pending[s].state = state

(* Which states are handled at each place of a scan, unless a failed scan   *)
(* had begun with the next change of the session; an alert that was pushed  *)
(* counts as dealt with while its escalation is armed.                      *)
HandledInv ==
    /\ pc \in {"starting", "waiting", "reading"} /\ previous # None =>
           \A s \in Sessions : previous[s] \in NOTIFICATION_KINDS =>
               Handled(s, previous[s]) \/ s \in redo
    /\ pc = "resolving" =>
           /\ \A s \in todo : previous[s] \in NOTIFICATION_KINDS =>
                  Handled(s, previous[s]) \/ (s \in redo /\ previous[s] # current[s])
           /\ \A s \in Sessions \ todo : current[s] \in NOTIFICATION_KINDS => Handled(s, current[s])
    /\ pc \in {"stale", "delivering"} =>
           \A s \in Sessions : current[s] \in NOTIFICATION_KINDS => Handled(s, current[s])
    /\ \A s \in Sessions : pending[s] # None /\ pending[s].pushed => answered[s] = pending[s].state

LEMMA HandledResolve ==
    ASSUME TypeOK, HandledInv, NEW s \in Sessions, ResolveChange(s)
    PROVE  HandledInv'
<1>1. /\ pc = "resolving" /\ s \in todo /\ todo' = todo \ {s}
      /\ UNCHANGED <<pc, current, previous, redo>>
  BY DEF ResolveChange
<1>2. CASE previous[s] = current[s]
  <2>1. UNCHANGED <<pending, answered, dropped>>
    BY <1>2 DEF ResolveChange
  <2> QED
    BY <1>1, <1>2, <2>1 DEF HandledInv, Handled
<1>3. CASE previous[s] # current[s]
  <2>1. /\ Schedule(s) /\ dropped' = dropped \ {s}
    BY <1>3 DEF ResolveChange
  <2>2. \A x \in Sessions \ {s} : /\ pending'[x] = pending[x] /\ answered'[x] = answered[x]
                                  /\ x \in dropped' <=> x \in dropped
    BY <2>1 DEF Schedule, TypeOK
  <2>3. /\ current[s] \in NOTIFICATION_KINDS => Handled(s, current[s])'
        /\ pending'[s] # None => ~pending'[s].pushed
    <3>1. CASE pending' = [pending EXCEPT ![s] = None] /\ answered' = [answered EXCEPT ![s] = current[s]]
      BY <1>1, <3>1 DEF Handled, TypeOK
    <3>2. CASE /\ current[s] \in NOTIFICATION_KINDS
               /\ pending' = [pending EXCEPT ![s] = [state |-> current[s], due |-> Delay(current[s]),
                                                     pushed |-> FALSE]]
      <4>1. /\ pending'[s] = [state |-> current[s], due |-> Delay(current[s]), pushed |-> FALSE]
            /\ current'[s] = current[s]
        BY <1>1, <3>2 DEF TypeOK
      <4>2. [state |-> current[s], due |-> Delay(current[s]), pushed |-> FALSE] \in Pending
        <5>1. Delay(current[s]) \in Nat
          BY DelaysAssumption DEF Delay
        <5> QED
          BY <3>2, <5>1 DEF Pending
      <4>3. pending'[s] # None
        BY <4>1, <4>2, NoneAssumption
      <4>4. pending'[s].state = current[s] /\ pending'[s].pushed = FALSE
        BY <4>1
      <4> QED
        BY <4>1, <4>3, <4>4 DEF Handled
    <3> QED
      BY <2>1, <3>1, <3>2 DEF Schedule
  <2>4. \A x \in Sessions \ {s} : \A state : Handled(x, state) => Handled(x, state)'
    BY <2>2 DEF Handled
  <2>5. \A x \in Sessions : pending'[x] # None /\ pending'[x].pushed => answered'[x] = pending'[x].state
    BY <2>2, <2>3 DEF HandledInv
  <2>6. \A x \in todo' : previous[x] \in NOTIFICATION_KINDS =>
            Handled(x, previous[x])' \/ (x \in redo /\ previous[x] # current[x])
    BY <1>1, <2>4 DEF HandledInv, TypeOK
  <2>7. \A x \in Sessions \ todo' : current[x] \in NOTIFICATION_KINDS => Handled(x, current[x])'
    BY <1>1, <2>3, <2>4 DEF HandledInv
  <2> QED
    BY <1>1, <2>5, <2>6, <2>7 DEF HandledInv
<1> QED
  BY <1>2, <1>3

LEMMA HandledDeliver ==
    ASSUME TypeOK, HandledInv, NEW s \in Sessions, Deliver(s)
    PROVE  HandledInv'
<1>1. pc = "delivering" /\ UNCHANGED <<pc, current, previous, dropped>>
  BY DEF Deliver
<1>2. CASE UNCHANGED <<pending, answered>>
  BY <1>1, <1>2 DEF HandledInv, Handled
<1>3. CASE pending[s] # None
  <2>0. pending[s] \in Pending
    BY <1>3 DEF TypeOK
  <2>1. ASSUME \A x \in Sessions \ {s} : pending'[x] = pending[x] /\ answered'[x] = answered[x],
               current[s] \in NOTIFICATION_KINDS => Handled(s, current[s])',
               pending'[s] # None => answered'[s] = pending'[s].state
        PROVE  HandledInv'
    BY <1>1, <2>1 DEF HandledInv, Handled
  <2>2. CASE pending[s].state # current[s] /\ Disarm(s) /\ UNCHANGED answered
    <3>1. \A x \in Sessions \ {s} : pending'[x] = pending[x] /\ answered'[x] = answered[x]
      BY <2>2 DEF Disarm, TypeOK
    <3>2. pending'[s] = None
      BY <2>2 DEF Disarm, TypeOK
    <3>3. current[s] \in NOTIFICATION_KINDS => Handled(s, current[s])'
      BY <1>1, <2>2 DEF HandledInv, Handled
    <3> QED
      BY <2>1, <3>1, <3>2, <3>3
  <2>3. CASE pending[s].state = current[s] /\ pending[s].due = 0
    <3>1. ASSUME \A x \in Sessions \ {s} : pending'[x] = pending[x] /\ answered'[x] = answered[x],
                 answered'[s] = current[s],
                 pending'[s] # None => pending'[s].state = current[s]
          PROVE  HandledInv'
      BY <1>1, <2>1, <3>1 DEF Handled
    <3>2. ASSUME NEW C, Send(s, C), Disarm(s) PROVE HandledInv'
      BY <2>3, <3>1, <3>2 DEF Send, Disarm, TypeOK
    <3>3. CASE Escalate(s)
      <4>1. pending[s].pushed /\ Disarm(s)
        BY <3>3 DEF Escalate, DisarmEscalated
      <4>2. answered[s] = current[s]
        BY <1>3, <2>3, <4>1 DEF HandledInv
      <4>3. CASE UNCHANGED answered
        BY <3>1, <4>1, <4>2, <4>3 DEF Disarm, TypeOK
      <4> QED
        BY <3>2, <3>3, <4>1, <4>3 DEF Escalate
    <3>4. CASE Suppress(s)
      BY <2>3, <3>1, <3>4 DEF Suppress, Disarm, TypeOK
    <3>5. CASE Push(s)
      <4>1. CASE Disarm(s)
        BY <3>2, <3>5, <4>1 DEF Push
      <4>2. CASE pending' = [pending EXCEPT ![s].pushed = TRUE, ![s].due = Escalation]
        <5>1. pending'[s] = [pending[s] EXCEPT !.pushed = TRUE, !.due = Escalation]
          BY <4>2 DEF TypeOK
        <5>2. pending'[s].state = pending[s].state
          BY <2>0, <5>1 DEF Pending
        <5>3. answered' = [answered EXCEPT ![s] = pending[s].state]
          BY <3>5 DEF Push, Send
        <5> QED
          BY <2>3, <3>1, <4>2, <5>2, <5>3 DEF TypeOK
      <4> QED
        BY <3>5, <4>1, <4>2 DEF Push
    <3>6. CASE Fallback(s)
      BY <3>2, <3>6 DEF Fallback
    <3> QED
      BY <1>2, <1>3, <2>3, <3>3, <3>4, <3>5, <3>6 DEF Deliver
  <2> QED
    BY <1>2, <1>3, <2>2, <2>3 DEF Deliver
<1> QED
  BY <1>2, <1>3 DEF Deliver

LEMMA HandledScheduleFails ==
    ASSUME TypeOK, HandledInv, NEW s \in Sessions, ScheduleFails(s)
    PROVE  HandledInv'
<1>1. /\ pc = "resolving" /\ pc' = "waiting" /\ s \in todo
      /\ pending' = [pending EXCEPT ![s] = None]
      /\ redo' = redo \union {x \in (Sessions \ todo) \union {s} : previous[x] # current[x]}
      /\ previous[s] # current[s]
      /\ UNCHANGED <<previous, current, answered, dropped>>
  BY DEF ScheduleFails, Fail, Disarm
<1>2. ASSUME NEW x \in Sessions \ {s}, previous[x] \in NOTIFICATION_KINDS
      PROVE  Handled(x, previous[x])' \/ x \in redo'
  <2>1. pending'[x] = pending[x]
    BY <1>1 DEF TypeOK
  <2>2. CASE x \in todo
    BY <1>1, <1>2, <2>1, <2>2 DEF HandledInv, Handled
  <2>3. CASE x \notin todo
    BY <1>1, <1>2, <2>1, <2>3 DEF HandledInv, Handled
  <2> QED
    BY <2>2, <2>3
<1>3. s \in redo'
  BY <1>1
<1>4. \A x \in Sessions : pending'[x] # None => pending'[x] = pending[x]
  BY <1>1 DEF TypeOK
<1> QED
  BY <1>1, <1>2, <1>3, <1>4 DEF HandledInv

LEMMA HandledSendFails ==
    ASSUME TypeOK, ScanInv, HandledInv, NEW s \in Sessions, SendFails(s)
    PROVE  HandledInv'
<1>1. /\ pc = "delivering" /\ pc' = "waiting" /\ previous = current
      /\ pending[s] # None /\ pending[s].state = current[s]
      /\ UNCHANGED <<previous, current>>
  BY DEF SendFails, Fail, ScanInv
<1>2. /\ \A x \in Sessions \ {s} : pending'[x] = pending[x] /\ answered'[x] = answered[x]
      /\ \A x \in Sessions : x \in dropped => x \in dropped'
      /\ pending'[s] # None => pending'[s] = pending[s] /\ ~pending[s].pushed
      /\ Handled(s, current[s])'
  <2>1. CASE KeptInSending(s)
    BY <1>1, <2>1 DEF KeptInSending, Handled
  <2>2. CASE LostInSending(s)
    <3>1. pending' = [pending EXCEPT ![s] = None]
      BY <2>2 DEF LostInSending, Disarm
    <3>2. CASE Send(s, {"push"}) /\ UNCHANGED dropped
      BY <1>1, <3>1, <3>2 DEF Send, Handled, TypeOK
    <3>3. CASE /\ UNCHANGED <<delivered, sends, answered>>
               /\ dropped' = IF pending[s].pushed THEN dropped ELSE dropped \union {s}
      <4>1. pending[s].pushed => answered[s] = current[s]
        BY <1>1 DEF HandledInv
      <4> QED
        BY <1>1, <3>1, <3>3, <4>1 DEF Handled, TypeOK
    <3> QED
      BY <2>2, <3>2, <3>3 DEF LostInSending
  <2> QED
    BY <2>1, <2>2 DEF SendFails
<1> QED
  BY <1>1, <1>2 DEF HandledInv, Handled

LEMMA HandledStep == TypeOK /\ ScanInv /\ HandledInv /\ [Next]_vars => HandledInv'
<1> SUFFICES ASSUME TypeOK, ScanInv, HandledInv, [Next]_vars PROVE HandledInv'
  OBVIOUS
<1>1. ASSUME NEW s \in Sessions, ChangeStatus(s) PROVE HandledInv'
  BY <1>1 DEF ChangeStatus, HandledInv, Handled
<1>2. CASE Tick \/ \E s \in Sessions : TelegramThread(s)
  <2>1. UNCHANGED <<pc, previous, current, todo, answered, dropped, redo>>
    BY <1>2 DEF Tick, TelegramThread
  <2>2. \A s \in Sessions : \A state : Handled(s, state) => Handled(s, state)'
    BY <1>2, <2>1, ArmedStay DEF Handled
  <2>3. \A s \in Sessions : pending'[s] # None /\ pending'[s].pushed => answered'[s] = pending'[s].state
    BY <1>2, <2>1, ArmedStay DEF HandledInv
  <2> QED
    BY <2>1, <2>2, <2>3 DEF HandledInv, TypeOK
<1>3. CASE Wake
  BY <1>3 DEF Wake, HandledInv, Handled, ScanInv
<1>4. CASE FirstScan
  BY <1>4 DEF FirstScan, HandledInv, Handled, ScanInv
<1>5. CASE ReadStates
  BY <1>5 DEF ReadStates, HandledInv, Handled
<1>6. ASSUME NEW s \in Sessions, ResolveChange(s) PROVE HandledInv'
  BY <1>6, HandledResolve
<1>7. CASE StartStale
  BY <1>7 DEF StartStale, HandledInv, Handled
<1>8. ASSUME NEW s \in Sessions, ResolveStale(s) PROVE HandledInv'
  <2>1. /\ pc = "stale" /\ UNCHANGED <<pc, current, previous, answered>>
        /\ \/ UNCHANGED <<pending, dropped>>
           \/ /\ pending' = [pending EXCEPT ![s] = None]
              /\ dropped' = IF pending[s] = None THEN dropped ELSE dropped \union {s}
    BY <1>8 DEF ResolveStale
  <2>2. \A x \in Sessions : \A state : Handled(x, state) => Handled(x, state)'
    BY <2>1 DEF Handled, TypeOK
  <2>3. \A x \in Sessions : pending'[x] # None => pending'[x] = pending[x]
    BY <2>1 DEF TypeOK
  <2> QED
    BY <2>1, <2>2, <2>3 DEF HandledInv
<1>9. CASE StartDelivery
  BY <1>9 DEF StartDelivery, HandledInv, Handled
<1>10. ASSUME NEW s \in Sessions, Deliver(s) PROVE HandledInv'
  BY <1>10, HandledDeliver
<1>11. CASE Sleep
  BY <1>11 DEF Sleep, HandledInv, Handled, ScanInv
<1>12. CASE ReadFails
  BY <1>12 DEF ReadFails, Fail, HandledInv, Handled
<1>14. ASSUME NEW s \in Sessions, ScheduleFails(s) PROVE HandledInv'
  BY <1>14, HandledScheduleFails
<1>15. ASSUME NEW s \in Sessions, SendFails(s) PROVE HandledInv'
  BY <1>15, HandledSendFails
<1>13. CASE UNCHANGED vars
  BY <1>13 DEF vars, HandledInv, Handled
<1> QED
  BY <1>1, <1>2, <1>3, <1>4, <1>5, <1>6, <1>7, <1>8, <1>9, <1>10, <1>11, <1>12, <1>13, <1>14,
     <1>15 DEF Next, Scan

(* A session that needs you while the worker waits for the next change has  *)
(* its alert behind it, or an alert that is armed and whose time the worker *)
(* will not sleep through, or is seen by the retry of a scan that failed    *)
(* before it knew the session's state or with its change half handled; the  *)
(* three ways to lose an alert are excepted (notifier.py:18).               *)
CallsAreAwaited ==
    pc = "waiting" /\ ~changed =>
        \A s \in Sessions : status[s] \in NOTIFICATION_KINDS =>
            \/ answered[s] = status[s] \/ s \in dropped
            \/ /\ pending[s] # None /\ pending[s].state = status[s]
               /\ Within(pending[s].due) \/ Within(Retry)
            \/ /\ previous # status \/ s \in redo
               /\ Within(Retry)

(* The safety part of CallsAreAnsweredOrDropped: no call waits for a scan   *)
(* that nothing brings about.                                               *)
THEOREM CallsAreNotForgotten == Spec => []CallsAreAwaited
<1>1. Init => TypeOK /\ ScanInv /\ WakesInTime /\ HandledInv
  BY TypeInit, ScanInit, WakesInit DEF Init, HandledInv, Nothing
<1>2. TypeOK /\ ScanInv /\ WakesInTime /\ HandledInv /\ [Next]_vars
          => TypeOK' /\ ScanInv' /\ WakesInTime' /\ HandledInv'
  BY TypeStep, ScanStep, WakesStep, HandledStep DEF ScanInv
<1>3. WakesInTime /\ HandledInv /\ TypeOK => CallsAreAwaited
  <2> SUFFICES ASSUME WakesInTime, HandledInv, TypeOK, pc = "waiting", ~changed, previous = status,
                      NEW s \in Sessions, status[s] \in NOTIFICATION_KINDS
               PROVE  \/ answered[s] = status[s] \/ s \in dropped
                      \/ /\ pending[s] # None /\ pending[s].state = status[s]
                         /\ Within(pending[s].due) \/ Within(Retry)
                      \/ s \in redo /\ Within(Retry)
    BY DEF CallsAreAwaited, WakesInTime
  <2>1. previous # None
    BY NoneAssumption DEF TypeOK
  <2> QED
    BY <2>1 DEF HandledInv, Handled, WakesInTime
<1> QED
  BY <1>1, <1>2, <1>3, PTL DEF Spec
====
