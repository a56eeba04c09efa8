---- MODULE Notifier ----
(***************************************************************************)
(* The worker that calls you back to a session (notify/).  It scans the    *)
(* status of the lead actors after a change notice or at a deadline: a     *)
(* change into "asking" or "done" arms an alert, a due alert goes to a     *)
(* browser (push) or to Telegram, an unanswered push is escalated to       *)
(* Telegram, and an alert whose state has passed is taken back.  Telegram  *)
(* calls run on threads of their own.  The status changes while a scan     *)
(* runs; a step of a scan may fail.  Time is counted in timers.            *)
(***************************************************************************)
EXTENDS Naturals, FiniteSets, FiniteSetsExt

CONSTANTS Sessions,
          Telegram,     \* NOTIFY_TELEGRAM
          Always,       \* NOTIFY_TELEGRAM_ALWAYS
          Settle,       \* NOTIFICATION_SETTLE_SECONDS; the other delay is 0
          Escalation,   \* ESCALATION_DELAY_SECONDS
          Retry,        \* NOTIFICATION_RETRY_SECONDS
          Lifetime,     \* RETRACTION_LIFETIME_SECONDS
          None, Forever,
          MaxChanges, MaxFailures   \* bounds on status changes and failed steps

NOTIFICATION_KINDS == {"asking", "done"}
States == NOTIFICATION_KINDS \union {"working", None}

ASSUME DelaysAssumption == Settle \in Nat /\ Escalation \in Nat /\ Retry \in Nat \ {0} /\ Lifetime \in Nat
ASSUME BoundsAssumption == MaxChanges \in Nat /\ MaxFailures \in Nat
ASSUME SwitchesAssumption == Telegram \in BOOLEAN /\ Always \in BOOLEAN

VARIABLES
    status,     \* lead status of each session; None when nobody attends it
    changed,    \* the event of the worker's subscription
    pc,         \* where the worker is, see Places
    wait,       \* what is left of its timeout
    current,    \* current_states: what this scan read
    todo,       \* sessions that this stage of the scan has not handled
    previous,   \* previous_states, None before the first scan
    pending,    \* the armed alert of each session
    delivered,  \* alerts that can be taken back, per session
    nth,        \* how often a change of a session was handled
    sends,      \* history: alerts per channel since the last such change
    answered,   \* history: the state whose alert has been dealt with
    dropped,    \* history: sessions whose alert was lost, see README
    redo,       \* history: sessions whose change a scan handled that then failed
    changes, failures

vars == <<status, changed, pc, wait, current, todo, previous, pending, delivered, nth,
          sends, answered, dropped, redo, changes, failures>>

Channels == {"push", "telegram"}
Places == {"starting", "waiting", "reading", "resolving", "stale", "delivering"}

(* A Telegram handle: being sent, out, being deleted, and how that ended. *)
Phases == {"sending", "out", "lost", "deleting", "deleted", "failed"}

Pending == [state : NOTIFICATION_KINDS, due : Nat, pushed : BOOLEAN]
ASSUME NoneAssumption == None \notin [Sessions -> States] \union Pending /\ Forever \notin Nat
Delivered == [state : NOTIFICATION_KINDS, channel : Channels, phase : Phases,
              age : 0..Lifetime, nth : Nat]

TypeOK ==
    /\ status \in [Sessions -> States]
    /\ changed \in BOOLEAN
    /\ pc \in Places
    /\ wait \in Nat \union {Forever}
    /\ current \in [Sessions -> States]
    /\ todo \subseteq Sessions
    /\ previous \in [Sessions -> States] \union {None}
    /\ pending \in [Sessions -> Pending \union {None}]
    /\ delivered \in [Sessions -> SUBSET Delivered]
    /\ nth \in [Sessions -> Nat]
    /\ sends \in [Sessions -> [Channels -> Nat]]
    /\ answered \in [Sessions -> States]
    /\ dropped \subseteq Sessions /\ redo \subseteq Sessions
    /\ changes \in 0..MaxChanges /\ failures \in 0..MaxFailures

Nothing == [s \in Sessions |-> None]

Init ==
    /\ status \in [Sessions -> States]
    /\ changed = FALSE
    /\ pc = "starting"
    /\ wait = Forever
    /\ current = Nothing /\ todo = {} /\ previous = None
    /\ pending = Nothing
    /\ delivered = [s \in Sessions |-> {}]
    /\ nth = [s \in Sessions |-> 0]
    /\ sends = [s \in Sessions |-> [c \in Channels |-> 0]]
    /\ answered = Nothing
    /\ dropped = {} /\ redo = {}
    /\ changes = 0 /\ failures = 0

----
(* The world. *)

(* A fold commits another status, or a window opens or closes. *)
ChangeStatus(s) ==
    /\ changes < MaxChanges
    /\ changes' = changes + 1
    /\ \E new \in States \ {status[s]} : status' = [status EXCEPT ![s] = new]
    /\ changed' = TRUE
    /\ UNCHANGED <<pc, wait, current, todo, previous, pending, delivered, nth,
                   sends, answered, dropped, redo, failures>>

Earlier(t) == IF t = 0 THEN 0 ELSE t - 1

Tick ==
    /\ wait' = IF wait = Forever THEN Forever ELSE Earlier(wait)
    /\ pending' = [s \in Sessions |->
                      IF pending[s] = None THEN None ELSE [pending[s] EXCEPT !.due = Earlier(@)]]
    /\ delivered' = [s \in Sessions |->
                        {[r EXCEPT !.age = IF @ < Lifetime THEN @ + 1 ELSE @] : r \in delivered[s]}]
    /\ UNCHANGED <<status, changed, pc, current, todo, previous, nth,
                   sends, answered, dropped, redo, changes, failures>>

(* The threads of telegram_alert.py: _telegram_send_body,                   *)
(* _telegram_delete_body, and the retry_at of a deletion that failed.       *)
TelegramThread(s) ==
    /\ \E r \in delivered[s] :
          \E phase \in CASE r.phase = "sending" -> {"out", "lost"}
                         [] r.phase = "deleting" -> {"deleted", "failed"}
                         [] r.phase = "failed" -> {"out"}
                         [] OTHER -> {} :
             delivered' = [delivered EXCEPT ![s] = (@ \ {r}) \union {[r EXCEPT !.phase = phase]}]
    /\ UNCHANGED <<status, changed, pc, wait, current, todo, previous, pending, nth,
                   sends, answered, dropped, redo, changes, failures>>

----
(* The worker: run. *)

Wake ==
    /\ \/ pc = "starting"
       \/ pc = "waiting" /\ (changed \/ wait = 0)
    /\ pc' = "reading"
    /\ changed' = FALSE
    /\ UNCHANGED <<status, wait, current, todo, previous, pending, delivered, nth,
                   sends, answered, dropped, redo, changes, failures>>

IsStale(s, states) == \E r \in delivered[s] : r.state # states[s]

(* Defect: nothing asks again for a retraction that was not settled. *)
DeadlinesOnly(states) ==
    LET delays == {pending[s].due : s \in {x \in Sessions : pending[x] # None}}
    IN IF delays = {} THEN Forever ELSE Min(delays)

(* Defect: nothing wakes the worker for an alert that is armed. *)
RetractionsOnly(states) == IF \E s \in Sessions : IsStale(s, states) THEN Retry ELSE Forever

(* _next_delay *)
NextDelay(states) ==
    LET delays == {pending[s].due : s \in {x \in Sessions : pending[x] # None}}
                     \union (IF \E s \in Sessions : IsStale(s, states) THEN {Retry} ELSE {})
    IN IF delays = {} THEN Forever ELSE Min(delays)

(* The first scan only takes the states it finds as known. *)
FirstScan ==
    /\ pc = "reading"
    /\ previous = None
    /\ previous' = status
    /\ answered' = status
    /\ wait' = Forever
    /\ pc' = "waiting"
    /\ UNCHANGED <<status, changed, current, todo, pending, delivered, nth,
                   sends, dropped, redo, changes, failures>>

(* A change that a failed scan began to handle is not seen again when the   *)
(* session is back where it was: what that scan took away is lost.          *)
ReadStates ==
    /\ pc = "reading"
    /\ previous # None
    /\ current' = status
    /\ todo' = Sessions
    /\ dropped' = dropped \union {s \in redo : status[s] = previous[s]}
    /\ pc' = "resolving"
    /\ UNCHANGED <<status, changed, wait, previous, pending, delivered, nth,
                   sends, answered, redo, changes, failures>>

(* _delivery_remains: the record that stays, or none.  A browser is told at *)
(* once; Telegram is asked to delete and asked again later how that went.   *)
Remaining(r, state) ==
    IF r.state = state THEN {r}
    ELSE IF r.age >= Lifetime \/ r.channel = "push" \/ r.phase \in {"lost", "deleted"} THEN {}
    ELSE IF r.phase = "out" THEN {[r EXCEPT !.phase = "deleting"]}
    ELSE {r}

Retracted(s, state) == UNION {Remaining(r, state) : r \in delivered[s]}

Delay(kind) == IF kind = "done" THEN Settle ELSE 0

(* Defect: whatever a session changes to arms an alert. *)
ArmAnyChange(s) ==
    /\ pending' = [pending EXCEPT ![s] = [state |-> current[s], due |-> 0, pushed |-> FALSE]]
    /\ answered' = [answered EXCEPT ![s] = None]

(* resolve and schedule; the settings may mute the session. *)
Schedule(s) ==
    IF current[s] \in NOTIFICATION_KINDS
    THEN \/ /\ pending' = [pending EXCEPT ![s] = [state |-> current[s], due |-> Delay(current[s]),
                                                  pushed |-> FALSE]]
            /\ answered' = [answered EXCEPT ![s] = None]
         \/ /\ pending' = [pending EXCEPT ![s] = None]
            /\ answered' = [answered EXCEPT ![s] = current[s]]
    ELSE /\ pending' = [pending EXCEPT ![s] = None]
         /\ answered' = [answered EXCEPT ![s] = current[s]]

(* _resolve_change *)
ResolveChange(s) ==
    /\ pc = "resolving"
    /\ s \in todo
    /\ todo' = todo \ {s}
    /\ IF previous[s] = current[s]
       THEN UNCHANGED <<pending, delivered, nth, sends, answered, dropped>>
       ELSE /\ delivered' = [delivered EXCEPT ![s] = Retracted(s, current[s])]
            /\ Schedule(s)
            /\ nth' = [nth EXCEPT ![s] = @ + 1]
            /\ sends' = [sends EXCEPT ![s] = [c \in Channels |-> 0]]
            /\ dropped' = dropped \ {s}
    /\ UNCHANGED <<status, changed, pc, wait, current, previous, redo, changes, failures>>

StartStale ==
    /\ pc = "resolving"
    /\ todo = {}
    /\ todo' = Sessions
    /\ pc' = "stale"
    /\ UNCHANGED <<status, changed, wait, current, previous, pending, delivered, nth,
                   sends, answered, dropped, redo, changes, failures>>

(* _resolve_stale_deliveries: resolve also forgets the armed alert.         *)
ResolveStale(s) ==
    /\ pc = "stale"
    /\ s \in todo
    /\ todo' = todo \ {s}
    /\ IF IsStale(s, current)
       THEN /\ delivered' = [delivered EXCEPT ![s] = Retracted(s, current[s])]
            /\ pending' = [pending EXCEPT ![s] = None]
            /\ dropped' = IF pending[s] = None THEN dropped ELSE dropped \union {s}
       ELSE UNCHANGED <<delivered, pending, dropped>>
    /\ UNCHANGED <<status, changed, pc, wait, current, previous, nth,
                   sends, answered, redo, changes, failures>>

StartDelivery ==
    /\ pc = "stale"
    /\ todo = {}
    /\ todo' = Sessions
    /\ previous' = current
    /\ redo' = {}
    /\ pc' = "delivering"
    /\ UNCHANGED <<status, changed, wait, current, pending, delivered, nth,
                   sends, answered, dropped, changes, failures>>

Handle(s, channel) ==
    [state |-> pending[s].state, channel |-> channel,
     phase |-> IF channel = "push" THEN "out" ELSE "sending", age |-> 0, nth |-> nth[s]]

(* track *)
Send(s, channels) ==
    /\ delivered' = [delivered EXCEPT ![s] = @ \union {Handle(s, c) : c \in channels}]
    /\ sends' = [sends EXCEPT ![s] = [c \in Channels |-> IF c \in channels THEN @[c] + 1 ELSE @[c]]]
    /\ answered' = [answered EXCEPT ![s] = pending[s].state]

Disarm(s) == pending' = [pending EXCEPT ![s] = None]

(* Defect: the armed alert stays after its escalation. *)
KeepArmed(s) == UNCHANGED pending

DisarmEscalated(s) == Disarm(s)

(* escalate: unless a browser shows the session. *)
Escalate(s) ==
    /\ pending[s].pushed
    /\ \/ Telegram /\ Send(s, {"telegram"})
       \/ UNCHANGED <<delivered, sends, answered>>
    /\ DisarmEscalated(s)

(* suppress: you are looking at a browser, which shows the notice itself.   *)
Suppress(s) ==
    /\ ~pending[s].pushed
    /\ Disarm(s)
    /\ answered' = [answered EXCEPT ![s] = pending[s].state]
    /\ UNCHANGED <<delivered, sends>>

(* _finish_push: a browser was the last device in use. *)
Push(s) ==
    /\ ~pending[s].pushed
    /\ Send(s, IF Always /\ Telegram THEN Channels ELSE {"push"})
    /\ IF Telegram /\ ~Always
       THEN pending' = [pending EXCEPT ![s].pushed = TRUE, ![s].due = Escalation]
       ELSE Disarm(s)

(* _fallback: no browser to push to. *)
Fallback(s) ==
    /\ ~pending[s].pushed
    /\ Send(s, IF Telegram THEN {"telegram"} ELSE {})
    /\ Disarm(s)

(* _deliver_pending *)
Deliver(s) ==
    /\ pc = "delivering"
    /\ s \in todo
    /\ todo' = todo \ {s}
    /\ IF pending[s] = None
       THEN UNCHANGED <<pending, delivered, sends, answered>>
       ELSE \/ /\ pending[s].state # current[s]
               /\ Disarm(s)
               /\ UNCHANGED <<delivered, sends, answered>>
            \/ /\ pending[s].state = current[s] /\ pending[s].due > 0
               /\ UNCHANGED <<pending, delivered, sends, answered>>
            \/ /\ pending[s].state = current[s] /\ pending[s].due = 0
               /\ Escalate(s) \/ Suppress(s) \/ Push(s) \/ Fallback(s)
    /\ UNCHANGED <<status, changed, pc, wait, current, previous, nth, dropped, redo, changes, failures>>

Sleep ==
    /\ pc = "delivering"
    /\ todo = {}
    /\ wait' = NextDelay(previous)
    /\ pc' = "waiting"
    /\ UNCHANGED <<status, changed, current, todo, previous, pending, delivered, nth,
                   sends, answered, dropped, redo, changes, failures>>

----
(* _scan_or_retry: whatever raises ends the scan where it is; the next one  *)
(* comes after Retry.  Taking an alert back does not raise (retraction.py   *)
(* catches it) and neither does the audit.                                  *)
Fail ==
    /\ failures < MaxFailures
    /\ failures' = failures + 1
    /\ pc' = "waiting"
    /\ wait' = Retry

(* The lead rows, the windows or the muted sessions. *)
ReadFails ==
    /\ pc = "reading"
    /\ Fail
    /\ UNCHANGED <<status, changed, current, todo, previous, pending, delivered, nth,
                   sends, answered, dropped, redo, changes>>

(* The settings or the publication, after resolve: previous_states is still *)
(* the old one, also for the sessions that were handled before.             *)
ScheduleFails(s) ==
    /\ pc = "resolving"
    /\ s \in todo
    /\ previous[s] # current[s]
    /\ current[s] \in NOTIFICATION_KINDS
    /\ Fail
    /\ delivered' = [delivered EXCEPT ![s] = Retracted(s, current[s])]
    /\ Disarm(s)
    /\ redo' = redo \union {x \in (Sessions \ todo) \union {s} : previous[x] # current[x]}
    /\ UNCHANGED <<status, changed, current, todo, previous, nth,
                   sends, answered, dropped, changes>>

(* The alert leaves pending before it is sent and previous_states is the    *)
(* new one already: nobody repeats an escalation, a fallback or the second  *)
(* message of NOTIFY_TELEGRAM_ALWAYS that raised.                           *)
LostInSending(s) ==
    /\ Telegram
    /\ Disarm(s)
    /\ \E out \in IF Always THEN BOOLEAN ELSE {FALSE} :
          IF out /\ ~pending[s].pushed
          THEN Send(s, {"push"}) /\ UNCHANGED dropped
          ELSE /\ UNCHANGED <<delivered, sends, answered>>
               /\ dropped' = IF pending[s].pushed THEN dropped ELSE dropped \union {s}

(* The routes or the push itself: the alert is still armed. *)
KeptInSending(s) ==
    /\ ~pending[s].pushed
    /\ UNCHANGED <<pending, delivered, sends, answered, dropped>>

SendFails(s) ==
    /\ pc = "delivering"
    /\ s \in todo
    /\ pending[s] # None
    /\ pending[s].state = current[s] /\ pending[s].due = 0
    /\ Fail
    /\ LostInSending(s) \/ KeptInSending(s)
    /\ UNCHANGED <<status, changed, current, todo, previous, nth, redo, changes>>

Scan ==
    \/ Wake \/ FirstScan \/ ReadStates \/ StartStale \/ StartDelivery \/ Sleep
    \/ \E s \in Sessions : ResolveChange(s) \/ ResolveStale(s) \/ Deliver(s)

Next ==
    \/ Scan \/ ReadFails \/ Tick
    \/ \E s \in Sessions : ScheduleFails(s) \/ SendFails(s) \/ ChangeStatus(s) \/ TelegramThread(s)

(* The worker thread runs, time passes, and calls to Telegram end.          *)
Fairness ==
    /\ WF_vars(Scan)
    /\ WF_vars(Tick)
    /\ \A s \in Sessions : WF_vars(TelegramThread(s))

Spec == Init /\ [][Next]_vars /\ Fairness

----
(* Properties. *)

(* A worker that waits without a deadline has nothing left to do: a status  *)
(* it has not seen, an armed alert or an alert to take back would wake it   *)
(* (notifier.py:26-30, notifier_processing.py:116-129).                     *)
IdleMeansDone ==
    pc = "waiting" /\ wait = Forever /\ ~changed =>
        /\ previous = status
        /\ \A s \in Sessions : pending[s] = None /\ ~IsStale(s, status)

(* One change of a session sends at most one push and one Telegram message, *)
(* whatever is retried, escalated or suppressed in between.                 *)
OneAlertPerChannel == \A s \in Sessions : \A c \in Channels : sends[s][c] <= 1

(* An alert whose state has passed is taken back or expires, also when the  *)
(* message was still being sent or its deletion failed.                     *)
StaleAlertsAreTakenBack ==
    \A s \in Sessions : \A state \in NOTIFICATION_KINDS :
        (\E r \in delivered[s] : r.state = state /\ status[s] # state)
            ~> ((\A r \in delivered[s] : r.state # state) \/ status[s] = state)

(* A session that needs you gets its alert, or the decision that it needs   *)
(* none, unless it was lost in one of three ways: with the retraction of an *)
(* earlier alert, in a send that raised, or in a failed scan that had begun *)
(* to handle a change which was undone before the next scan.                *)
CallsAreAnsweredOrDropped ==
    \A s \in Sessions : \A state \in NOTIFICATION_KINDS :
        status[s] = state ~> answered[s] = state \/ status[s] # state \/ s \in dropped

(* notifier.py:18: "Publish and deliver transitions into canonical          *)
(* attention states."                                                       *)
CallsAreAnswered ==
    \A s \in Sessions : \A state \in NOTIFICATION_KINDS :
        status[s] = state ~> answered[s] = state \/ status[s] # state
====
