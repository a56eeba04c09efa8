---- MODULE ExtensionRuntime ----
(***************************************************************************)
(* The replacement of the extension runtime in a running daemon.  A        *)
(* request prepares a new runtime on a background thread.  The engine      *)
(* publishes it between two batches, when nobody borrows the current one;  *)
(* until the first publication it keeps the work it takes.  HTTP calls,    *)
(* engine batches and jobs borrow the current runtime.  The replaced       *)
(* runtime is closed on the background thread.  Jobs are stored; one       *)
(* serial executor runs them and stands back while a replacement waits.    *)
(* Every package is taken to be active in every published runtime.         *)
(***************************************************************************)
EXTENDS Naturals, Sequences, FiniteSets, SequencesExt

CONSTANTS Calls,                  \* HTTP calls
          Commands, Observations, \* jobs of each kind
          None,
          ScheduleLimit,          \* accepted jobs that one batch looks at
          MaxOperations, MaxRestarts, MaxFailures   \* bounds

Jobs == Commands \union Observations

ASSUME JobsAssumption ==
    /\ Commands \intersect Observations = {}
    /\ IsFiniteSet(Jobs)
ASSUME LimitAssumption == ScheduleLimit \in Nat \ {0}
ASSUME HoldersAssumption == Calls \intersect {"engine", "job"} = {}

VARIABLES
    runtime,    \* revision of the active runtime, 0 for the empty set
    last,       \* last revision that a candidate got
    pending,    \* the candidate: revision and how its preparation stands
    retired,    \* replaced runtimes whose workers still run
    closed,     \* runtimes whose workers are closed
    borrowed,   \* the revision each reader of the registry holds
    unborn,     \* HTTP calls that are still to come
    notices,    \* the work queue: "EXTENSIONS", and "WORK" for the rest
    retry,      \* the kinds of work whose retry deadline is set
    taken,      \* what the engine took
    kept,       \* the boundary keeps work
    ready,      \* the boundary lets work pass
    engine,     \* "idle", "boundary", "batch"
    state,      \* stored state of each job
    bound,      \* the runtime a command was accepted for
    submitting, \* jobs an HTTP call is about to submit
    queued,     \* JobExecutor.queued
    pool,       \* the tasks of the executor's one thread
    job,        \* the job of that thread, and what it does with it
    step,
    runs,       \* history: calls of each job's capability
    left,       \* history: accepted jobs that wait for a batch nobody asked for
    operations, restarts, failures

manager == <<runtime, last, pending, retired, closed>>
queue == <<notices, retry>>
boundary == <<taken, kept, ready, engine>>
executor == <<submitting, queued, pool, job, step>>
store == <<state, bound, runs, left>>
bounds == <<operations, restarts, failures>>
vars == <<manager, borrowed, unborn, queue, boundary, executor, store, bounds>>

Readers == {"engine", "job"} \union Calls
Kinds == {"EXTENSIONS", "WORK"}
Candidate == [revision : Nat, task : {"preparing", "prepared", "failed"}]
ASSUME NoneAssumption == None \notin Nat \union Jobs \union Candidate
JobStates == {"absent", "accepted", "running", "ended", "outcome_unknown"}
Steps == {"idle", "checking", "borrowing", "claiming", "calling", "leaving"}

TypeOK ==
    /\ runtime \in Nat /\ last \in Nat
    /\ pending \in Candidate \union {None}
    /\ retired \subseteq Nat /\ closed \subseteq Nat
    /\ borrowed \in [Readers -> Nat \union {None}]
    /\ unborn \subseteq Calls
    /\ notices \subseteq Kinds /\ retry \subseteq Kinds
    /\ taken \subseteq Kinds /\ kept \in BOOLEAN /\ ready \in BOOLEAN
    /\ engine \in {"idle", "boundary", "batch"}
    /\ state \in [Jobs -> JobStates]
    /\ bound \in [Jobs -> Nat]
    /\ submitting \subseteq Jobs /\ queued \subseteq Jobs
    /\ pool \in Seq(Jobs)
    /\ job \in Jobs \union {None} /\ step \in Steps
    /\ step # "idle" => job \in Jobs
    /\ runs \in [Jobs -> Nat]
    /\ left \subseteq Jobs
    /\ operations \in Nat /\ restarts \in Nat /\ failures \in Nat

(* The restoration of the stored selection, the manager's first candidate. *)
Restoration(revision) == [revision |-> revision, task |-> "preparing"]

(* Nothing runs yet; the worker starts with a notice of every kind.         *)
Init ==
    /\ runtime = 0 /\ last = 1
    /\ pending = Restoration(1)
    /\ retired = {}
    /\ borrowed = [r \in Readers |-> None]
    /\ notices = Kinds /\ retry = {}
    /\ taken = {} /\ kept = FALSE /\ ready = FALSE /\ engine = "idle"
    /\ submitting = {} /\ queued = {} /\ pool = <<>> /\ job = None /\ step = "idle"
    /\ closed = {}
    /\ unborn = Calls
    /\ state = [j \in Jobs |-> "absent"]
    /\ bound = [j \in Jobs |-> 0]
    /\ runs = [j \in Jobs |-> 0]
    /\ left = {}
    /\ operations = 0 /\ restarts = 0 /\ failures = 0

Busy == \E r \in Readers : borrowed[r] # None

(* ManagerSnapshot.switch_pending *)
SwitchPending == pending # None

----
(* The manager: requests and its background thread. *)

SubmitOperation ==
    /\ operations < MaxOperations
    /\ operations' = operations + 1
    /\ pending = None
    /\ retired = {}
    /\ last' = last + 1
    /\ pending' = [revision |-> last + 1, task |-> "preparing"]
    /\ UNCHANGED <<runtime, retired, closed, borrowed, unborn, queue, boundary, executor, store,
                   restarts, failures>>

PrepareOperation ==
    /\ pending # None
    /\ pending.task = "preparing"
    /\ \E task \in {"prepared", "failed"} : pending' = [pending EXCEPT !.task = task]
    /\ notices' = notices \union {"EXTENSIONS"}
    /\ UNCHANGED <<runtime, last, retired, closed, borrowed, unborn, retry, boundary, executor,
                   store, bounds>>

(* retire_all: the workers are deactivated and closed. *)
RetireAll ==
    /\ retired # {}
    /\ closed' = closed \union retired
    /\ retired' = {}
    /\ notices' = notices \union {"EXTENSIONS"}
    /\ UNCHANGED <<runtime, last, pending, borrowed, unborn, retry, boundary, executor, store, bounds>>

----
(* HTTP calls. *)

BeginCall(c) ==
    /\ c \in unborn
    /\ unborn' = unborn \ {c}
    /\ borrowed' = [borrowed EXCEPT ![c] = runtime]
    /\ UNCHANGED <<manager, queue, boundary, executor, store, bounds>>

(* Defect: a command is accepted after the call gave its runtime back. *)
MayAcceptAlways(c) == borrowed[c] # 0

(* The package of the command is active: the empty set has none. *)
MayAccept(c) == borrowed[c] \notin {None, 0}

(* accept_command, inside the call's borrow; the call submits it later. *)
AcceptCommand(c, j) ==
    /\ MayAccept(c)
    /\ state[j] = "absent"
    /\ state' = [state EXCEPT ![j] = "accepted"]
    /\ bound' = [bound EXCEPT ![j] = borrowed[c]]
    /\ submitting' = submitting \union {j}
    /\ UNCHANGED <<manager, borrowed, unborn, queue, boundary, queued, pool, job, step,
                   runs, left, bounds>>

EndCall(c) ==
    /\ borrowed[c] # None
    /\ borrowed' = [borrowed EXCEPT ![c] = None]
    /\ UNCHANGED <<manager, unborn, queue, boundary, executor, store, bounds>>

----
(* The engine's boundary. *)

RetryDue(kind) ==
    /\ kind \in retry
    /\ retry' = retry \ {kind}
    /\ notices' = notices \union {kind}
    /\ UNCHANGED <<manager, borrowed, unborn, boundary, executor, store, bounds>>

Take ==
    /\ engine = "idle"
    /\ notices # {}
    /\ taken' = notices
    /\ notices' = {}
    /\ engine' = "boundary"
    /\ UNCHANGED <<manager, borrowed, unborn, retry, kept, ready, executor, store, bounds>>

(* Defect: work that is not let through is gone. *)
ProceedWithoutKeeping(isReady, work) ==
    /\ ready' = isReady
    /\ kept' = FALSE
    /\ engine' = IF isReady /\ work THEN "batch" ELSE "idle"
    /\ borrowed' = IF isReady /\ work THEN [borrowed EXCEPT !["engine"] = runtime'] ELSE borrowed

(* The rest of prepare and capture_batch: the batch borrows the runtime. *)
Proceed(isReady, work) ==
    /\ ready' = isReady
    /\ kept' = (work /\ ~isReady)
    /\ engine' = IF isReady /\ work THEN "batch" ELSE "idle"
    /\ borrowed' = IF isReady /\ work THEN [borrowed EXCEPT !["engine"] = runtime'] ELSE borrowed

HasWork == kept \/ "WORK" \in taken

(* prepare without an advance. *)
Pass ==
    /\ ready /\ "EXTENSIONS" \notin taken
    /\ UNCHANGED <<manager, queue, left>>
    /\ Proceed(TRUE, HasWork)

Advances == ~ready \/ "EXTENSIONS" \in taken

NothingToPublish ==
    /\ Advances
    /\ pending = None
    /\ UNCHANGED <<manager, queue, left>>
    /\ Proceed(TRUE, HasWork)

StillPreparing ==
    /\ Advances
    /\ pending # None /\ pending.task = "preparing"
    /\ UNCHANGED <<manager, queue, left>>
    /\ Proceed(runtime # 0, HasWork)

(* finish_failed: the engine gets no further notice from this. *)
PreparationFailed ==
    /\ Advances
    /\ pending # None /\ pending.task = "failed"
    /\ pending' = None
    /\ left' = left \union {j \in Jobs : state[j] = "accepted" /\ j \notin queued}
    /\ UNCHANGED <<runtime, last, retired, closed, queue>>
    /\ Proceed(TRUE, HasWork)

TryLater ==
    /\ Advances
    /\ pending # None /\ pending.task = "prepared"
    /\ Busy
    /\ retry' = retry \union {"EXTENSIONS"}
    /\ UNCHANGED <<manager, notices, left>>
    /\ Proceed(runtime # 0, HasWork)

(* Defect: the candidate replaces a runtime that is borrowed. *)
MayPublishAlways == TRUE

MayPublish == ~Busy

(* Defect: a publication is no reason to run a batch. *)
OnlyKeptWork == HasWork

(* The boundary adds SOURCES. *)
WorkOfPublication == TRUE

(* publish_snapshot and _publish_candidate *)
Publish ==
    /\ Advances
    /\ pending # None /\ pending.task = "prepared"
    /\ MayPublish
    /\ runtime' = pending.revision
    /\ pending' = None
    /\ retired' = retired \union ({runtime} \ {0})
    /\ Proceed(TRUE, WorkOfPublication)
    /\ UNCHANGED <<last, closed, queue, left>>

(* The stored commit raises: the boundary keeps its readiness. *)
CommitFails ==
    /\ Advances
    /\ failures < MaxFailures
    /\ pending # None /\ pending.task = "prepared"
    /\ ~Busy
    /\ retry' = retry \union {"EXTENSIONS"}
    /\ UNCHANGED <<manager, notices, left>>
    /\ Proceed(ready, HasWork)

Prepare ==
    /\ engine = "boundary"
    /\ taken' = {}
    /\ \/ /\ Pass \/ NothingToPublish \/ StillPreparing \/ PreparationFailed \/ TryLater \/ Publish
          /\ UNCHANGED failures
       \/ CommitFails /\ failures' = failures + 1
    /\ UNCHANGED <<unborn, executor, state, bound, runs, operations, restarts>>

(* The observers accept a job for each new fact. *)
AcceptObservations(new) ==
    /\ state' = [j \in Jobs |-> IF j \in new THEN "accepted" ELSE state[j]]
    /\ bound' = [j \in Jobs |-> IF j \in new THEN runtime ELSE bound[j]]

NewObservations == {j \in Observations : state[j] = "absent" /\ runtime # 0}

(* jobs_in_state: the oldest up to the limit. Which ones they are is open.  *)
Oldest(accepted) ==
    {oldest \in SUBSET accepted :
        \/ oldest = accepted /\ Cardinality(accepted) <= ScheduleLimit
        \/ Cardinality(oldest) = ScheduleLimit}

(* submit_accepted; no job is scheduled while a switch is pending.          *)
SubmitAccepted(accepted) ==
    IF SwitchPending
    THEN UNCHANGED <<queued, pool, left>>
    ELSE \E oldest \in Oldest(accepted) :
         /\ queued' = queued \union oldest
         /\ \E order \in SetToSeqs(oldest \ queued) : pool' = pool \o order
         /\ left' = (left \ (oldest \ queued)) \union (accepted \ queued')

(* No stage before observe raised.                                          *)
EndBatch ==
    /\ engine = "batch"
    /\ engine' = "idle"
    /\ borrowed' = [borrowed EXCEPT !["engine"] = None]
    /\ \E new \in SUBSET NewObservations :
        /\ AcceptObservations(new)
        /\ IF runtime = 0
           THEN UNCHANGED <<queued, pool, left>>
           ELSE SubmitAccepted(new \union {j \in Jobs : state[j] = "accepted"})
    /\ UNCHANGED <<manager, unborn, queue, taken, kept, ready, submitting, job, step, runs, bounds>>

(* The capture of the runtime, a stage before observe or observe raises:    *)
(* nothing is scheduled, and the stages come again after a deadline.        *)
BatchFails ==
    /\ engine = "batch"
    /\ failures < MaxFailures
    /\ failures' = failures + 1
    /\ engine' = "idle"
    /\ borrowed' = [borrowed EXCEPT !["engine"] = None]
    /\ retry' = retry \union {"WORK"}
    /\ \E new \in SUBSET NewObservations : AcceptObservations(new)
    /\ UNCHANGED <<manager, unborn, notices, taken, kept, ready, executor, runs, left,
                   operations, restarts>>

----
(* The job executor. *)

Submit(j) ==
    /\ j \in submitting
    /\ submitting' = submitting \ {j}
    /\ IF j \in queued
       THEN UNCHANGED <<queued, pool, left>>
       ELSE /\ queued' = queued \union {j}
            /\ pool' = Append(pool, j)
            /\ left' = left \ {j}
    /\ UNCHANGED <<manager, borrowed, unborn, queue, boundary, job, step, state, bound, runs, bounds>>

StartJob ==
    /\ job = None
    /\ pool # <<>>
    /\ job' = Head(pool)
    /\ pool' = Tail(pool)
    /\ step' = "checking"
    /\ UNCHANGED <<manager, borrowed, unborn, queue, boundary, submitting, queued, store, bounds>>

CheckSwitch ==
    /\ step = "checking"
    /\ step' = IF SwitchPending THEN "leaving" ELSE "borrowing"
    /\ UNCHANGED <<manager, borrowed, unborn, queue, boundary, submitting, queued, pool, job, store, bounds>>

BorrowRuntime ==
    /\ step = "borrowing"
    /\ step' = "claiming"
    /\ borrowed' = [borrowed EXCEPT !["job"] = runtime]
    /\ UNCHANGED <<manager, unborn, queue, boundary, submitting, queued, pool, job, store, bounds>>

MayRun(j) == state[j] = "accepted"

(* A command of an older runtime fails without a call; an observation is    *)
(* bound to the current one. The claim is stored before the call.           *)
Claim ==
    /\ step = "claiming"
    /\ IF MayRun(job) /\ (job \in Commands => bound[job] = runtime)
       THEN /\ state' = [state EXCEPT ![job] = "running"]
            /\ runs' = [runs EXCEPT ![job] = @ + 1]
            /\ step' = "calling"
       ELSE /\ state' = [state EXCEPT ![job] = IF @ = "accepted" THEN "ended" ELSE @]
            /\ step' = "leaving"
            /\ UNCHANGED runs
    /\ UNCHANGED <<manager, borrowed, unborn, queue, boundary, submitting, queued, pool, job,
                   bound, left, bounds>>

FinishCall ==
    /\ step = "calling"
    /\ \E end \in {"ended", "outcome_unknown"} : state' = [state EXCEPT ![job] = end]
    /\ step' = "leaving"
    /\ UNCHANGED <<manager, borrowed, unborn, queue, boundary, submitting, queued, pool, job,
                   bound, runs, left, bounds>>

(* The scope or the stores raise, which _run swallows, or the manager does  *)
(* not name the borrowed runtime: the job stays as it is, claimed or not.   *)
JobFails ==
    /\ step \in {"borrowing", "claiming", "calling"}
    /\ failures < MaxFailures
    /\ failures' = failures + 1
    /\ step' = "leaving"
    /\ UNCHANGED <<manager, borrowed, unborn, queue, boundary, submitting, queued, pool, job,
                   store, operations, restarts>>

(* The finally of _run. *)
LeaveJob ==
    /\ step = "leaving"
    /\ step' = "idle"
    /\ job' = None
    /\ queued' = queued \ {job}
    /\ borrowed' = [borrowed EXCEPT !["job"] = None]
    /\ left' = IF state[job] = "accepted" /\ ~SwitchPending THEN left \union {job} ELSE left
    /\ UNCHANGED <<manager, unborn, queue, boundary, submitting, pool, state, bound, runs, bounds>>

----
(* Defect: a job that a restart interrupted is accepted again. *)
AcceptAgain(s) == IF s = "running" THEN "accepted" ELSE s

(* recover_jobs *)
Recovered(s) == IF s = "running" THEN "outcome_unknown" ELSE s

(* The daemon dies with its workers and starts again.                       *)
Restart ==
    /\ restarts < MaxRestarts
    /\ restarts' = restarts + 1
    /\ runtime' = 0 /\ last' = last + 1
    /\ pending' = Restoration(last + 1)
    /\ retired' = {}
    /\ borrowed' = [r \in Readers |-> None]
    /\ notices' = Kinds /\ retry' = {}
    /\ taken' = {} /\ kept' = FALSE /\ ready' = FALSE /\ engine' = "idle"
    /\ submitting' = {} /\ queued' = {} /\ pool' = <<>> /\ job' = None /\ step' = "idle"
    /\ closed' = closed \union retired \union ({runtime} \ {0})
                     \union (IF pending = None THEN {} ELSE {pending.revision})
    /\ state' = [j \in Jobs |-> Recovered(state[j])]
    /\ left' = {}
    /\ UNCHANGED <<unborn, bound, runs, operations, failures>>

EngineStep == Take \/ Prepare \/ EndBatch \/ BatchFails
JobStep == StartJob \/ CheckSwitch \/ BorrowRuntime \/ Claim \/ FinishCall \/ JobFails \/ LeaveJob

Next ==
    \/ SubmitOperation \/ PrepareOperation \/ RetireAll \/ \E kind \in Kinds : RetryDue(kind)
    \/ EngineStep \/ JobStep \/ Restart
    \/ \E c \in Calls : BeginCall(c) \/ EndCall(c) \/ \E j \in Commands : AcceptCommand(c, j)
    \/ \E j \in Commands : Submit(j)

(* Threads run, deadlines come, preparations, calls and requests end.       *)
Fairness ==
    /\ WF_vars(PrepareOperation) /\ WF_vars(RetireAll)
    /\ \A kind \in Kinds : WF_vars(RetryDue(kind))
    /\ WF_vars(EngineStep) /\ WF_vars(JobStep)
    /\ \A c \in Calls : WF_vars(EndCall(c))
    /\ \A j \in Commands : WF_vars(Submit(j))

Spec == Init /\ [][Next]_vars /\ Fairness

----
(* Properties. *)

(* Whoever borrows a runtime can use it to the end: no runtime is replaced  *)
(* or closed under an engine batch, an HTTP call or a job                   *)
(* (registry.py:44-66, manager_publication.py:67-95).                       *)
BorrowedRuntimesStayOpen ==
    \A r \in Readers : borrowed[r] # None => borrowed[r] = runtime /\ runtime \notin retired \union closed

(* A job's capability is called at most once, whatever is submitted twice,  *)
(* skipped for a switch, or interrupted by a restart                        *)
(* (job_control.py:82-107, command_execution.py:28-45).                     *)
JobsRunAtMostOnce == \A j \in Jobs : runs[j] <= 1

(* Work that the engine took is done, also when the boundary holds it back, *)
(* and a candidate is published or fails: neither waits for a notice that   *)
(* does not come (extensions_boundary.py:26-56).                            *)
SwitchesEndAndWorkComesBack ==
    /\ "WORK" \in taken ~> engine = "batch"
    /\ SwitchPending ~> ~SwitchPending

(* An accepted job ends, also after a switch, a restart or a batch that     *)
(* failed, unless it is left to a batch that nobody asked for: beyond the   *)
(* limit of the batch, let go by an executor that failed or stood back for  *)
(* a switch that then ended, or waiting for a switch whose preparation      *)
(* failed (observer_stage.py:14-26, job_executor.py:51-108).                *)
AcceptedJobsEnd ==
    \A j \in Jobs : state[j] = "accepted" ~> state[j] # "accepted" \/ j \in left
====
