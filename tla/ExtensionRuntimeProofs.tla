---- MODULE ExtensionRuntimeProofs ----
(***************************************************************************)
(* Proofs about the extension runtime for any calls, jobs and bounds.      *)
(* Borrowed runtimes: readers hold the active revision, and the active     *)
(* revision and the candidate's are not among the retired and closed ones, *)
(* because a candidate gets a revision above all earlier ones.  Jobs: one  *)
(* that was called is neither absent nor accepted any more, and no restart *)
(* makes it so again; one that is accepted is in the pool, is looked at by *)
(* a batch that is due, waits for a switch or is left.                     *)
(***************************************************************************)
EXTENDS ExtensionRuntime, FiniteSetTheorems, SequenceTheorems, TLAPS

Gone == retired \union closed

RevisionsInv ==
    /\ \A r \in Readers : borrowed[r] # None => borrowed[r] = runtime
    /\ runtime \notin Gone /\ 0 \notin Gone
    /\ runtime <= last
    /\ \A revision \in Gone : revision <= last
    /\ pending # None => /\ pending.revision \notin Gone \union {0, runtime}
                         /\ pending.revision <= last

CallsInv ==
    \A j \in Jobs : /\ runs[j] <= 1
                    /\ state[j] \in {"absent", "accepted"} => runs[j] = 0

(* The orders of a set of jobs are sequences of jobs. *)
LEMMA OrdersAreSequences ==
    ASSUME NEW submitted \in SUBSET Jobs, NEW order \in SetToSeqs(submitted)
    PROVE  order \in Seq(Jobs)
<1>1. IsFiniteSet(submitted)
  BY JobsAssumption, FS_Subset
<1>2. Cardinality(submitted) \in Nat
  BY <1>1, FS_CardinalityType
<1>3. order \in [1..Cardinality(submitted) -> submitted]
  BY DEF SetToSeqs
<1>4. order \in [1..Cardinality(submitted) -> Jobs]
  BY <1>3
<1> QED
  BY <1>2, <1>4, SeqDef

(* Every member of the set is in the order. *)
LEMMA OrdersCover ==
    ASSUME NEW submitted \in SUBSET Jobs, NEW order \in SetToSeqs(submitted)
    PROVE  /\ order \in Seq(Jobs)
           /\ \A j \in submitted : \E i \in DOMAIN order : order[i] = j
<1> DEFINE n == Cardinality(submitted)
<1>1. IsFiniteSet(submitted) /\ n \in Nat
  BY JobsAssumption, FS_Subset, FS_CardinalityType
<1>2. order \in [1..n -> submitted] /\ \A i, k \in 1..n : i # k => order[i] # order[k]
  BY DEF SetToSeqs
<1>3. Cardinality(1..n) = n
  BY <1>1, FS_Interval
<1> HIDE DEF n
<1>4. order \in Injection(1..n, submitted)
  BY <1>2 DEF Injection, IsInjective
<1>5. order \in Surjection(1..n, submitted)
  BY <1>1, <1>3, <1>4, FS_Injection DEF n
<1> QED
  BY <1>2, <1>5, OrdersAreSequences DEF Surjection

LEMMA TypeInit == Init => TypeOK
<1> SUFFICES ASSUME Init PROVE TypeOK
  OBVIOUS
<1>1. pending \in Candidate
  BY DEF Init, Restoration, Candidate
<1>2. pool \in Seq(Jobs)
  BY DEF Init
<1> QED
  BY <1>1, <1>2 DEF Init, TypeOK, Kinds, JobStates, Steps

LEMMA TypeManager ==
    ASSUME TypeOK, SubmitOperation \/ PrepareOperation \/ RetireAll \/ \E kind \in Kinds : RetryDue(kind)
    PROVE  TypeOK'
<1>1. CASE SubmitOperation
  <2>1. pending' \in Candidate
    BY <1>1 DEF SubmitOperation, Candidate, TypeOK
  <2> QED
    BY <1>1, <2>1 DEF SubmitOperation, TypeOK, queue, boundary, executor, store
<1>2. CASE PrepareOperation
  <2>1. pending \in Candidate
    BY <1>2 DEF PrepareOperation, TypeOK
  <2>2. pending' \in Candidate
    BY <1>2, <2>1 DEF PrepareOperation, Candidate
  <2> QED
    BY <1>2, <2>2 DEF PrepareOperation, TypeOK, boundary, executor, store, bounds, Kinds
<1>3. CASE RetireAll
  BY <1>3 DEF RetireAll, TypeOK, boundary, executor, store, bounds, Kinds
<1>4. CASE \E kind \in Kinds : RetryDue(kind)
  BY <1>4 DEF RetryDue, TypeOK, manager, boundary, executor, store, bounds, Kinds
<1> QED
  BY <1>1, <1>2, <1>3, <1>4

LEMMA TypeCalls ==
    ASSUME TypeOK, NEW c \in Calls,
           BeginCall(c) \/ EndCall(c) \/ \E j \in Commands : AcceptCommand(c, j)
    PROVE  TypeOK'
<1> c \in Readers
  BY DEF Readers
<1>1. CASE BeginCall(c)
  BY <1>1 DEF BeginCall, TypeOK, manager, queue, boundary, executor, store, bounds
<1>2. CASE EndCall(c)
  BY <1>2 DEF EndCall, TypeOK, manager, queue, boundary, executor, store, bounds
<1>3. ASSUME NEW j \in Commands, AcceptCommand(c, j)
      PROVE  TypeOK'
  <2>1. j \in Jobs
    BY DEF Jobs
  <2>2. borrowed[c] \in Nat
    BY <1>3 DEF AcceptCommand, MayAccept, TypeOK
  <2>3. state' \in [Jobs -> JobStates] /\ bound' \in [Jobs -> Nat]
    BY <1>3, <2>1, <2>2 DEF AcceptCommand, TypeOK, JobStates
  <2> QED
    BY <1>3, <2>1, <2>3 DEF AcceptCommand, TypeOK, manager, queue, boundary, bounds
<1> QED
  BY <1>1, <1>2, <1>3

LEMMA TypePrepare == ASSUME TypeOK, Prepare PROVE TypeOK'
<1> DEFINE Outcome == /\ runtime' \in Nat /\ last' = last
                      /\ pending' \in Candidate \union {None}
                      /\ retired' \subseteq Nat /\ closed' = closed
                      /\ notices' = notices /\ retry' \subseteq Kinds
                      /\ left' \subseteq Jobs
                      /\ ready' \in BOOLEAN /\ kept' \in BOOLEAN
                      /\ engine' \in {"idle", "boundary", "batch"}
                      /\ borrowed' \in [Readers -> Nat \union {None}]
<1>1. "engine" \in Readers
  BY DEF Readers
<1>2. ASSUME Pass PROVE Outcome
  <2>1. Proceed(TRUE, HasWork) /\ UNCHANGED <<manager, queue, left>>
    BY <1>2 DEF Pass
  <2> QED
    BY <1>1, <2>1 DEF Proceed, TypeOK, manager, queue
<1>3. ASSUME NothingToPublish PROVE Outcome
  <2>1. Proceed(TRUE, HasWork) /\ UNCHANGED <<manager, queue, left>>
    BY <1>3 DEF NothingToPublish
  <2> QED
    BY <1>1, <2>1 DEF Proceed, TypeOK, manager, queue
<1>4. ASSUME StillPreparing PROVE Outcome
  <2>1. Proceed(runtime # 0, HasWork) /\ UNCHANGED <<manager, queue, left>>
    BY <1>4 DEF StillPreparing
  <2> QED
    BY <1>1, <2>1 DEF Proceed, TypeOK, manager, queue
<1>5. ASSUME PreparationFailed PROVE Outcome
  <2>1. /\ Proceed(TRUE, HasWork)
        /\ UNCHANGED <<runtime, last, retired, closed, queue>>
        /\ pending' = None
        /\ left' \subseteq Jobs
    BY <1>5 DEF PreparationFailed, TypeOK
  <2> QED
    BY <1>1, <2>1 DEF Proceed, TypeOK, queue
<1>6. ASSUME TryLater PROVE Outcome
  <2>1. /\ Proceed(runtime # 0, HasWork)
        /\ UNCHANGED <<manager, notices, left>>
        /\ retry' = retry \union {"EXTENSIONS"}
    BY <1>6 DEF TryLater
  <2> QED
    BY <1>1, <2>1 DEF Proceed, TypeOK, manager, Kinds
<1>7. ASSUME Publish PROVE Outcome
  <2>1. pending \in Candidate
    BY <1>7 DEF Publish, TypeOK
  <2>2. /\ Proceed(TRUE, TRUE)
        /\ UNCHANGED <<last, closed, queue, left>>
        /\ runtime' \in Nat /\ pending' = None /\ retired' \subseteq Nat
    BY <1>7, <2>1 DEF Publish, WorkOfPublication, Candidate, TypeOK
  <2> QED
    BY <1>1, <2>2 DEF Proceed, TypeOK, queue
<1>8. ASSUME CommitFails PROVE Outcome
  <2>1. /\ Proceed(ready, HasWork)
        /\ UNCHANGED <<manager, notices, left>>
        /\ retry' = retry \union {"EXTENSIONS"}
    BY <1>8 DEF CommitFails
  <2>2. ready \in BOOLEAN
    BY DEF TypeOK
  <2> QED
    BY <1>1, <2>1, <2>2 DEF Proceed, TypeOK, manager, Kinds
<1>9. Outcome
  BY <1>2, <1>3, <1>4, <1>5, <1>6, <1>7, <1>8 DEF Prepare
<1> HIDE DEF Outcome
<1>10. /\ taken' = {} /\ failures' \in Nat
       /\ UNCHANGED <<unborn, executor, state, bound, runs, operations, restarts>>
  BY DEF Prepare, TypeOK
<1> QED
  BY <1>9, <1>10 DEF TypeOK, Outcome, executor

LEMMA TypeObservations ==
    ASSUME TypeOK, NEW new \in SUBSET NewObservations, AcceptObservations(new)
    PROVE  state' \in [Jobs -> JobStates] /\ bound' \in [Jobs -> Nat]
BY DEF AcceptObservations, TypeOK, JobStates

(* What is scheduled is among the accepted jobs, and in the pool in some    *)
(* order; the accepted jobs that are not are left.                          *)
LEMMA SubmittedJobs ==
    ASSUME NEW accepted \in SUBSET Jobs, SubmitAccepted(accepted), ~SwitchPending
    PROVE  \E oldest \in SUBSET accepted, order \in Seq(Jobs) :
              /\ queued' = queued \union oldest
              /\ \A j \in oldest \ queued : \E i \in DOMAIN order : order[i] = j
              /\ pool' = pool \o order
              /\ left' = (left \ (oldest \ queued)) \union (accepted \ queued')
<1>1. PICK oldest \in Oldest(accepted) :
        /\ queued' = queued \union oldest
        /\ \E order \in SetToSeqs(oldest \ queued) : pool' = pool \o order
        /\ left' = (left \ (oldest \ queued)) \union (accepted \ queued')
  BY DEF SubmitAccepted
<1>2. oldest \in SUBSET accepted /\ oldest \ queued \in SUBSET Jobs
  BY DEF Oldest
<1>3. PICK order \in SetToSeqs(oldest \ queued) : pool' = pool \o order
  BY <1>1
<1>4. order \in Seq(Jobs) /\ \A j \in oldest \ queued : \E i \in DOMAIN order : order[i] = j
  BY <1>2, OrdersCover
<1> QED
  BY <1>1, <1>2, <1>3, <1>4

LEMMA TypeSubmitted ==
    ASSUME TypeOK, NEW accepted \in SUBSET Jobs, SubmitAccepted(accepted)
    PROVE  queued' \subseteq Jobs /\ pool' \in Seq(Jobs) /\ left' \subseteq Jobs
<1>1. CASE SwitchPending
  BY <1>1 DEF SubmitAccepted, TypeOK
<1>2. CASE ~SwitchPending
  <2>1. PICK oldest \in SUBSET accepted, order \in Seq(Jobs) :
          /\ queued' = queued \union oldest
          /\ pool' = pool \o order
          /\ left' = (left \ (oldest \ queued)) \union (accepted \ queued')
    BY <1>2, SubmittedJobs
  <2>2. pool' \in Seq(Jobs)
    BY <2>1 DEF TypeOK
  <2> QED
    BY <2>1, <2>2 DEF TypeOK
<1> QED
  BY <1>1, <1>2

LEMMA TypeEngine == ASSUME TypeOK, EngineStep PROVE TypeOK'
<1>1. CASE Take
  BY <1>1 DEF Take, TypeOK, manager, executor, store, bounds
<1>2. CASE Prepare
  BY <1>2, TypePrepare
<1>3. CASE EndBatch
  <2>1. /\ engine' = "idle"
        /\ borrowed' \in [Readers -> Nat \union {None}]
    BY <1>3 DEF EndBatch, TypeOK
  <2>2. PICK new \in SUBSET NewObservations :
          /\ AcceptObservations(new)
          /\ runtime = 0 => UNCHANGED <<queued, pool, left>>
          /\ runtime # 0 => SubmitAccepted(new \union {j \in Jobs : state[j] = "accepted"})
    BY <1>3 DEF EndBatch
  <2>3. queued' \subseteq Jobs /\ pool' \in Seq(Jobs) /\ left' \subseteq Jobs
    <3> DEFINE accepted == new \union {j \in Jobs : state[j] = "accepted"}
    <3>1. accepted \in SUBSET Jobs
      BY DEF NewObservations, Jobs
    <3>2. SubmitAccepted(accepted) \/ UNCHANGED <<queued, pool, left>>
      BY <2>2
    <3> HIDE DEF accepted
    <3> QED
      BY <3>1, <3>2, TypeSubmitted DEF TypeOK
  <2> QED
    BY <1>3, <2>1, <2>2, <2>3, TypeObservations DEF EndBatch, TypeOK, manager, queue, bounds
<1>4. CASE BatchFails
  <2>1. engine' = "idle" /\ retry' = retry \union {"WORK"} /\ failures' = failures + 1
    BY <1>4 DEF BatchFails
  <2>2. borrowed' \in [Readers -> Nat \union {None}]
    BY <1>4 DEF BatchFails, TypeOK
  <2>3. retry' \subseteq Kinds /\ failures' \in Nat
    BY <2>1 DEF TypeOK, Kinds
  <2>4. \E new \in SUBSET NewObservations : AcceptObservations(new)
    BY <1>4 DEF BatchFails
  <2>5. state' \in [Jobs -> JobStates] /\ bound' \in [Jobs -> Nat]
    BY <2>4, TypeObservations
  <2> QED
    BY <1>4, <2>1, <2>2, <2>3, <2>5 DEF BatchFails, TypeOK, manager, executor
<1> QED
  BY <1>1, <1>2, <1>3, <1>4 DEF EngineStep

LEMMA TypeJobs ==
    ASSUME TypeOK, JobStep \/ \E j \in Commands : Submit(j)
    PROVE  TypeOK'
<1> "job" \in Readers
  BY DEF Readers
<1>1. ASSUME NEW j \in Commands, Submit(j)
      PROVE  TypeOK'
  <2>1. j \in Jobs
    BY DEF Jobs
  <2>2. Append(pool, j) \in Seq(Jobs)
    BY <2>1 DEF TypeOK
  <2> QED
    BY <1>1, <2>1, <2>2 DEF Submit, TypeOK, manager, queue, boundary, bounds
<1>2. CASE StartJob
  <2>1. Head(pool) \in Jobs /\ Tail(pool) \in Seq(Jobs)
    BY <1>2 DEF StartJob, TypeOK
  <2> QED
    BY <1>2, <2>1 DEF StartJob, TypeOK, manager, queue, boundary, store, bounds, Steps
<1>3. CASE CheckSwitch
  BY <1>3 DEF CheckSwitch, TypeOK, manager, queue, boundary, store, bounds, Steps
<1>4. CASE BorrowRuntime
  BY <1>4 DEF BorrowRuntime, TypeOK, manager, queue, boundary, store, bounds, Steps
<1>5. CASE Claim
  <2>1. job \in Jobs /\ step' \in Steps
    BY <1>5 DEF Claim, TypeOK, Steps
  <2>2. CASE MayRun(job) /\ (job \in Commands => bound[job] = runtime)
    <3>1. state' = [state EXCEPT ![job] = "running"] /\ runs' = [runs EXCEPT ![job] = @ + 1]
      BY <1>5, <2>2 DEF Claim
    <3>2. state' \in [Jobs -> JobStates] /\ runs' \in [Jobs -> Nat]
      BY <2>1, <3>1 DEF TypeOK, JobStates
    <3> QED
      BY <1>5, <2>1, <3>2 DEF Claim, TypeOK, manager, queue, boundary, bounds
  <2>3. CASE ~(MayRun(job) /\ (job \in Commands => bound[job] = runtime))
    <3>1. /\ state' = [state EXCEPT ![job] = IF @ = "accepted" THEN "ended" ELSE @]
          /\ runs' = runs
      BY <1>5, <2>3 DEF Claim
    <3>2. state' \in [Jobs -> JobStates] /\ runs' \in [Jobs -> Nat]
      BY <2>1, <3>1 DEF TypeOK, JobStates
    <3> QED
      BY <1>5, <2>1, <3>2 DEF Claim, TypeOK, manager, queue, boundary, bounds
  <2> QED
    BY <2>2, <2>3
<1>6. CASE FinishCall
  <2>1. state' \in [Jobs -> JobStates]
    BY <1>6 DEF FinishCall, TypeOK, JobStates
  <2> QED
    BY <1>6, <2>1 DEF FinishCall, TypeOK, manager, queue, boundary, bounds, Steps
<1>7. CASE LeaveJob
  <2>1. job \in Jobs
    BY <1>7 DEF LeaveJob, TypeOK
  <2> QED
    BY <1>7, <2>1 DEF LeaveJob, TypeOK, manager, queue, boundary, bounds, Steps
<1>8. CASE JobFails
  <2>1. job \in Jobs /\ failures' \in Nat
    BY <1>8 DEF JobFails, TypeOK
  <2> QED
    BY <1>8, <2>1 DEF JobFails, TypeOK, manager, queue, boundary, store, Steps
<1> QED
  BY <1>1, <1>2, <1>3, <1>4, <1>5, <1>6, <1>7, <1>8 DEF JobStep

LEMMA TypeRestart == ASSUME TypeOK, Restart PROVE TypeOK'
<1>1. pending' \in Candidate /\ last' \in Nat
  BY DEF Restart, Restoration, Candidate, TypeOK
<1>2. closed' \subseteq Nat
  BY DEF Restart, Candidate, TypeOK
<1>3. state' \in [Jobs -> JobStates]
  BY DEF Restart, Recovered, TypeOK, JobStates
<1>4. pool' \in Seq(Jobs)
  BY DEF Restart
<1>5. borrowed' \in [Readers -> Nat \union {None}]
  BY DEF Restart
<1>6. /\ runtime' \in Nat /\ retired' \subseteq Nat
      /\ notices' \subseteq Kinds /\ taken' \subseteq Kinds
      /\ retry' \subseteq Kinds /\ kept' \in BOOLEAN /\ ready' \in BOOLEAN
      /\ engine' = "idle" /\ step' = "idle" /\ job' = None
  BY DEF Restart
<1>7. /\ submitting' \subseteq Jobs /\ queued' \subseteq Jobs /\ left' \subseteq Jobs
      /\ restarts' \in Nat
      /\ UNCHANGED <<unborn, bound, runs, operations, failures>>
  BY DEF Restart, TypeOK
<1> QED
  BY <1>1, <1>2, <1>3, <1>4, <1>5, <1>6, <1>7 DEF TypeOK, Steps

LEMMA TypeStep == TypeOK /\ [Next]_vars => TypeOK'
<1> SUFFICES ASSUME TypeOK, [Next]_vars PROVE TypeOK'
  OBVIOUS
<1>1. CASE UNCHANGED vars
  BY <1>1 DEF TypeOK, vars, manager, queue, boundary, executor, store, bounds
<1>2. CASE Next
  BY <1>2, TypeManager, TypeCalls, TypeEngine, TypeJobs, TypeRestart DEF Next
<1> QED
  BY <1>1, <1>2

(* The manager, the boundary, the executor and the store keep their types   *)
(* over any calls, jobs, replacements and restarts.                         *)
THEOREM TypeCorrect == Spec => []TypeOK
<1> QED
  BY TypeInit, TypeStep, PTL DEF Spec

----
(* Borrowed runtimes. *)

LEMMA RevisionsInit == Init => RevisionsInv
<1> SUFFICES ASSUME Init PROVE RevisionsInv
  OBVIOUS
<1> QED
  BY DEF Init, Restoration, RevisionsInv, Gone

LEMMA RevisionsManager ==
    ASSUME TypeOK, RevisionsInv,
           SubmitOperation \/ PrepareOperation \/ RetireAll \/ \E kind \in Kinds : RetryDue(kind)
    PROVE  RevisionsInv'
<1>1. CASE SubmitOperation
  BY <1>1 DEF SubmitOperation, RevisionsInv, Gone, TypeOK
<1>2. CASE PrepareOperation
  <2>1. pending \in Candidate
    BY <1>2 DEF PrepareOperation, TypeOK
  <2>2. pending'.revision = pending.revision /\ pending # None
    BY <1>2, <2>1 DEF PrepareOperation, Candidate
  <2>3. UNCHANGED <<runtime, last, retired, closed, borrowed>>
    BY <1>2 DEF PrepareOperation
  <2> QED
    BY <2>2, <2>3 DEF RevisionsInv, Gone
<1>3. CASE RetireAll
  BY <1>3 DEF RetireAll, RevisionsInv, Gone
<1>4. CASE \E kind \in Kinds : RetryDue(kind)
  BY <1>4 DEF RetryDue, RevisionsInv, Gone, manager
<1> QED
  BY <1>1, <1>2, <1>3, <1>4

LEMMA RevisionsCalls ==
    ASSUME TypeOK, RevisionsInv, NEW c \in Calls,
           BeginCall(c) \/ EndCall(c) \/ \E j \in Commands : AcceptCommand(c, j)
    PROVE  RevisionsInv'
<1>1. CASE BeginCall(c)
  BY <1>1 DEF BeginCall, RevisionsInv, Gone, TypeOK, manager
<1>2. CASE EndCall(c)
  BY <1>2 DEF EndCall, RevisionsInv, Gone, TypeOK, manager
<1>3. CASE \E j \in Commands : AcceptCommand(c, j)
  BY <1>3 DEF AcceptCommand, RevisionsInv, Gone, manager
<1> QED
  BY <1>1, <1>2, <1>3

(* Without a publication the batch borrows the runtime that is active. *)
LEMMA RevisionsProceed ==
    ASSUME TypeOK, RevisionsInv, UNCHANGED <<runtime, last, retired, closed>>,
           pending' \in {pending, None},
           borrowed' = borrowed \/ borrowed' = [borrowed EXCEPT !["engine"] = runtime']
    PROVE  RevisionsInv'
<1>1. \A r \in Readers : borrowed'[r] # None => borrowed'[r] = runtime
  BY DEF RevisionsInv, TypeOK
<1> QED
  BY <1>1 DEF RevisionsInv, Gone

LEMMA RevisionsPrepare == ASSUME TypeOK, RevisionsInv, Prepare PROVE RevisionsInv'
<1>1. CASE Pass
  BY <1>1, RevisionsProceed DEF Pass, Proceed, manager
<1>2. CASE NothingToPublish
  BY <1>2, RevisionsProceed DEF NothingToPublish, Proceed, manager
<1>3. CASE StillPreparing
  BY <1>3, RevisionsProceed DEF StillPreparing, Proceed, manager
<1>4. CASE PreparationFailed
  BY <1>4, RevisionsProceed DEF PreparationFailed, Proceed
<1>5. CASE TryLater
  BY <1>5, RevisionsProceed DEF TryLater, Proceed, manager
<1>6. CASE CommitFails
  BY <1>6, RevisionsProceed DEF CommitFails, Proceed, manager
<1>7. CASE Publish
  <2>1. \A r \in Readers : borrowed[r] = None
    BY <1>7 DEF Publish, MayPublish, Busy
  <2>2. /\ runtime' = pending.revision /\ pending # None /\ pending' = None
        /\ retired' = retired \union ({runtime} \ {0})
        /\ UNCHANGED <<last, closed>>
    BY <1>7 DEF Publish
  <2>3. borrowed' = borrowed \/ borrowed' = [borrowed EXCEPT !["engine"] = runtime']
    BY <1>7 DEF Publish, Proceed
  <2>4. \A r \in Readers : borrowed'[r] # None => borrowed'[r] = runtime'
    BY <2>1, <2>3 DEF TypeOK
  <2> QED
    BY <2>2, <2>4 DEF RevisionsInv, Gone
<1> QED
  BY <1>1, <1>2, <1>3, <1>4, <1>5, <1>6, <1>7 DEF Prepare

LEMMA RevisionsEngine == ASSUME TypeOK, RevisionsInv, EngineStep PROVE RevisionsInv'
<1>1. CASE Take
  BY <1>1 DEF Take, RevisionsInv, Gone, manager
<1>2. CASE Prepare
  BY <1>2, RevisionsPrepare
<1>3. CASE EndBatch \/ BatchFails
  <2>1. borrowed' = [borrowed EXCEPT !["engine"] = None] /\ UNCHANGED manager
    BY <1>3 DEF EndBatch, BatchFails
  <2> QED
    BY <2>1 DEF RevisionsInv, Gone, TypeOK, manager
<1> QED
  BY <1>1, <1>2, <1>3 DEF EngineStep

LEMMA RevisionsJobs ==
    ASSUME TypeOK, RevisionsInv, JobStep \/ \E j \in Commands : Submit(j)
    PROVE  RevisionsInv'
<1>1. UNCHANGED manager
  BY DEF JobStep, StartJob, CheckSwitch, BorrowRuntime, Claim, FinishCall, JobFails, LeaveJob, Submit
<1>2. \/ borrowed' = borrowed
      \/ borrowed' = [borrowed EXCEPT !["job"] = runtime]
      \/ borrowed' = [borrowed EXCEPT !["job"] = None]
  BY DEF JobStep, StartJob, CheckSwitch, BorrowRuntime, Claim, FinishCall, JobFails, LeaveJob, Submit
<1> QED
  BY <1>1, <1>2 DEF RevisionsInv, Gone, TypeOK, manager

LEMMA RevisionsRestart == ASSUME TypeOK, RevisionsInv, Restart PROVE RevisionsInv'
<1>1. /\ runtime' = 0 /\ last' = last + 1 /\ retired' = {}
      /\ pending'.revision = last + 1
      /\ closed' = Gone \union ({runtime} \ {0})
                        \union (IF pending = None THEN {} ELSE {pending.revision})
  BY DEF Restart, Restoration, Gone
<1>2. borrowed' = [r \in Readers |-> None]
  BY DEF Restart
<1>3. \A revision \in Gone' : revision <= last /\ revision # 0
  BY <1>1 DEF RevisionsInv, Gone
<1>4. last \in Nat /\ last' \in Nat
  BY <1>1 DEF TypeOK
<1>5. last + 1 \notin Gone'
  BY <1>3, <1>4
<1>6. \A revision \in Gone' : revision <= last'
  <2> SUFFICES ASSUME NEW revision \in Gone' PROVE revision <= last'
    OBVIOUS
  <2>1. revision \in Nat
    BY <1>1 DEF Gone, TypeOK, Candidate
  <2> QED
    BY <1>1, <1>3, <1>4, <2>1
<1> QED
  BY <1>1, <1>2, <1>3, <1>4, <1>5, <1>6 DEF RevisionsInv

LEMMA RevisionsStep == TypeOK /\ RevisionsInv /\ [Next]_vars => RevisionsInv'
<1> SUFFICES ASSUME TypeOK, RevisionsInv, [Next]_vars PROVE RevisionsInv'
  OBVIOUS
<1>1. CASE UNCHANGED vars
  BY <1>1 DEF RevisionsInv, Gone, vars, manager
<1>2. CASE Next
  BY <1>2, RevisionsManager, RevisionsCalls, RevisionsEngine, RevisionsJobs, RevisionsRestart DEF Next
<1> QED
  BY <1>1, <1>2

(* No runtime is replaced or closed under an engine batch, a call or a job, *)
(* for any number of them, of replacements and of restarts.                 *)
THEOREM RuntimesStayOpen == Spec => []BorrowedRuntimesStayOpen
<1>1. RevisionsInv => BorrowedRuntimesStayOpen
  BY DEF RevisionsInv, Gone, BorrowedRuntimesStayOpen
<1> QED
  BY <1>1, TypeInit, TypeStep, RevisionsInit, RevisionsStep, PTL DEF Spec

----
(* Calls of jobs. *)

LEMMA CallsStep == TypeOK /\ CallsInv /\ [Next]_vars => CallsInv'
<1> SUFFICES ASSUME TypeOK, CallsInv, [Next]_vars PROVE CallsInv'
  OBVIOUS
<1>1. CASE Claim
  <2>1. job \in Jobs
    BY <1>1 DEF Claim, TypeOK
  <2>2. CASE state' = [state EXCEPT ![job] = "running"] /\ MayRun(job)
              /\ runs' = [runs EXCEPT ![job] = @ + 1]
    BY <2>1, <2>2 DEF MayRun, CallsInv, TypeOK
  <2>3. CASE state' = [state EXCEPT ![job] = IF @ = "accepted" THEN "ended" ELSE @] /\ runs' = runs
    BY <2>1, <2>3 DEF CallsInv, TypeOK
  <2> QED
    BY <1>1, <2>2, <2>3 DEF Claim
<1>2. CASE FinishCall
  <2>1. PICK end \in {"ended", "outcome_unknown"} : state' = [state EXCEPT ![job] = end]
    BY <1>2 DEF FinishCall
  <2>2. runs' = runs
    BY <1>2 DEF FinishCall
  <2> QED
    BY <2>1, <2>2 DEF CallsInv, TypeOK
<1>3. CASE EndBatch \/ BatchFails
  <2>1. runs' = runs /\ \E new \in SUBSET NewObservations : AcceptObservations(new)
    BY <1>3 DEF EndBatch, BatchFails
  <2>2. \A j \in Jobs : state'[j] = state[j] \/ state[j] = "absent"
    BY <2>1 DEF AcceptObservations, NewObservations
  <2> QED
    BY <2>1, <2>2 DEF CallsInv
<1>4. CASE Restart
  BY <1>4 DEF Restart, Recovered, CallsInv, TypeOK
<1>5. ASSUME NEW c \in Calls, NEW j \in Commands, AcceptCommand(c, j)
      PROVE  CallsInv'
  <2>1. /\ state' = [state EXCEPT ![j] = "accepted"] /\ state[j] = "absent"
        /\ runs' = runs
    BY <1>5 DEF AcceptCommand
  <2> QED
    BY <2>1 DEF CallsInv, TypeOK
<1>6. CASE UNCHANGED <<state, runs>>
  BY <1>6 DEF CallsInv
<1>7. CASE UNCHANGED vars
  BY <1>6, <1>7 DEF vars, store
<1>8. CASE Next
  <2>1. CASE \/ SubmitOperation \/ PrepareOperation \/ RetireAll
             \/ \E kind \in Kinds : RetryDue(kind)
             \/ Take \/ Prepare
    BY <1>6, <2>1 DEF SubmitOperation, PrepareOperation, RetireAll, RetryDue, Take, Prepare, store
  <2>2. CASE StartJob \/ CheckSwitch \/ BorrowRuntime \/ JobFails \/ LeaveJob
    BY <1>6, <2>2 DEF StartJob, CheckSwitch, BorrowRuntime, JobFails, LeaveJob, store
  <2>3. CASE \/ \E c \in Calls : BeginCall(c) \/ EndCall(c)
             \/ \E j \in Commands : Submit(j)
    BY <1>6, <2>3 DEF BeginCall, EndCall, Submit, store
  <2> QED
    BY <1>1, <1>2, <1>3, <1>4, <1>5, <1>8, <2>1, <2>2, <2>3 DEF Next, EngineStep, JobStep
<1> QED
  BY <1>7, <1>8

(* The capability of a job is called at most once, for any number of        *)
(* submissions, skips, switches and restarts.                               *)
THEOREM CallsAreNotRepeated == Spec => []JobsRunAtMostOnce
<1>1. Init => CallsInv
  BY DEF Init, CallsInv
<1>2. CallsInv => JobsRunAtMostOnce
  BY DEF CallsInv, JobsRunAtMostOnce
<1> QED
  BY <1>1, <1>2, TypeInit, TypeStep, CallsStep, PTL DEF Spec

----
(* Switches. *)

(* A candidate that is prepared, or whose preparation failed, has a notice  *)
(* or a deadline by which the engine will look at it, and the boundary      *)
(* keeps work only as long as there is a candidate.  What the engine took   *)
(* it looks at before it takes again (extensions_boundary.py:26-56).        *)
SwitchesAreAwaited ==
    /\ pending # None /\ pending.task # "preparing" => "EXTENSIONS" \in notices \union taken \union retry
    /\ kept => pending # None
    /\ taken # {} => engine = "boundary"

LEMMA AwaitedInit == Init => SwitchesAreAwaited
  BY DEF Init, Restoration, SwitchesAreAwaited

LEMMA AwaitedPrepare == ASSUME TypeOK, SwitchesAreAwaited, Prepare PROVE SwitchesAreAwaited'
<1>1. taken' = {}
  BY DEF Prepare
<1>2. CASE Pass
  BY <1>1, <1>2 DEF Pass, Proceed, SwitchesAreAwaited, manager, queue
<1>3. CASE NothingToPublish
  BY <1>1, <1>3 DEF NothingToPublish, Proceed, SwitchesAreAwaited, manager, queue
<1>4. CASE StillPreparing
  BY <1>1, <1>4 DEF StillPreparing, Proceed, SwitchesAreAwaited, manager, queue
<1>5. CASE PreparationFailed
  BY <1>1, <1>5 DEF PreparationFailed, Proceed, SwitchesAreAwaited
<1>6. CASE TryLater
  BY <1>1, <1>6 DEF TryLater, Proceed, SwitchesAreAwaited, manager
<1>7. CASE CommitFails
  BY <1>1, <1>7 DEF CommitFails, Proceed, SwitchesAreAwaited, manager
<1>8. CASE Publish
  BY <1>1, <1>8 DEF Publish, Proceed, SwitchesAreAwaited
<1> QED
  BY <1>2, <1>3, <1>4, <1>5, <1>6, <1>7, <1>8 DEF Prepare

LEMMA AwaitedStep == TypeOK /\ SwitchesAreAwaited /\ [Next]_vars => SwitchesAreAwaited'
<1> SUFFICES ASSUME TypeOK, SwitchesAreAwaited, [Next]_vars PROVE SwitchesAreAwaited'
  OBVIOUS
<1>1. CASE SubmitOperation
  BY <1>1 DEF SubmitOperation, SwitchesAreAwaited, queue, boundary
<1>2. CASE PrepareOperation
  <2>1. pending' # None
    BY <1>2, NoneAssumption DEF PrepareOperation, Candidate, TypeOK
  <2> QED
    BY <1>2, <2>1 DEF PrepareOperation, SwitchesAreAwaited, boundary
<1>3. CASE RetireAll
  BY <1>3 DEF RetireAll, SwitchesAreAwaited, boundary
<1>4. CASE \E kind \in Kinds : RetryDue(kind)
  BY <1>4 DEF RetryDue, SwitchesAreAwaited, manager, boundary
<1>5. CASE Take
  BY <1>5 DEF Take, SwitchesAreAwaited, manager
<1>6. CASE Prepare
  BY <1>6, AwaitedPrepare
<1>7. CASE EndBatch \/ BatchFails
  BY <1>7 DEF EndBatch, BatchFails, SwitchesAreAwaited, manager, queue
<1>8. CASE JobStep
  BY <1>8 DEF JobStep, StartJob, CheckSwitch, BorrowRuntime, Claim, FinishCall, JobFails, LeaveJob,
              SwitchesAreAwaited, manager, queue, boundary
<1>9. CASE Restart
  BY <1>9 DEF Restart, Restoration, SwitchesAreAwaited
<1>10. ASSUME NEW c \in Calls, BeginCall(c) \/ EndCall(c) \/ \E j \in Commands : AcceptCommand(c, j)
       PROVE  SwitchesAreAwaited'
  BY <1>10 DEF BeginCall, EndCall, AcceptCommand, SwitchesAreAwaited, manager, queue, boundary
<1>11. ASSUME NEW j \in Commands, Submit(j) PROVE SwitchesAreAwaited'
  BY <1>11 DEF Submit, SwitchesAreAwaited, manager, queue, boundary
<1>12. CASE UNCHANGED vars
  BY <1>12 DEF vars, SwitchesAreAwaited, manager, queue, boundary
<1> QED
  BY <1>1, <1>2, <1>3, <1>4, <1>5, <1>6, <1>7, <1>8, <1>9, <1>10, <1>11, <1>12 DEF Next, EngineStep

(* The safety part of SwitchesEndAndWorkComesBack: no candidate, and no     *)
(* work that the boundary keeps, waits for a notice that does not come.     *)
THEOREM CandidatesAreNotForgotten == Spec => []SwitchesAreAwaited
<1> QED
  BY TypeInit, TypeStep, AwaitedInit, AwaitedStep, PTL DEF Spec

----
(* Schedules of jobs. *)

(* The executor knows about j: it is in its queue or in its hands. *)
Scheduled(j) == j \in queued /\ (j = job \/ \E i \in DOMAIN pool : pool[i] = j)

(* A batch runs or will run, also one that is repeated after a failure.     *)
BatchDue == engine = "batch" \/ "WORK" \in notices \union retry \union taken

(* An accepted job is about to be submitted or scheduled, or a batch at the *)
(* end of a switch or after a failed one will look at it, unless it is left *)
(* (observer_stage.py, worker.py:71-80, job_executor.py:51-108).            *)
AcceptedJobsAreScheduled ==
    \A j \in Jobs : state[j] = "accepted" =>
        \/ j \in submitting \/ Scheduled(j)
        \/ SwitchPending \/ (runtime # 0 /\ BatchDue)
        \/ j \in left

SchedulesInv ==
    /\ \A j \in queued : Scheduled(j)
    /\ AcceptedJobsAreScheduled

LEMMA PoolGrows ==
    ASSUME TypeOK, NEW order \in Seq(Jobs), pool' = pool \o order, job' = job
    PROVE  /\ \A j \in Jobs : Scheduled(j) /\ j \in queued' => Scheduled(j)'
           /\ \A i \in DOMAIN order : order[i] \in queued' => Scheduled(order[i])'
<1>1. pool \in Seq(Jobs) /\ Len(pool) \in Nat /\ Len(order) \in Nat
  BY DEF TypeOK
<1>2. /\ Len(pool') = Len(pool) + Len(order)
      /\ \A i \in 1..Len(pool) : i \in 1..Len(pool') /\ pool'[i] = pool[i]
      /\ \A i \in 1..Len(order) : Len(pool) + i \in 1..Len(pool') /\ pool'[Len(pool) + i] = order[i]
  BY <1>1
<1>3. DOMAIN pool = 1..Len(pool) /\ DOMAIN order = 1..Len(order) /\ DOMAIN pool' = 1..Len(pool')
  BY <1>1
<1> QED
  BY <1>2, <1>3 DEF Scheduled

LEMMA SchedulesJobs ==
    ASSUME TypeOK, SchedulesInv, JobStep
    PROVE  SchedulesInv'
<1>1. CASE StartJob
  <2>1. /\ job = None /\ pool # <<>> /\ job' = Head(pool) /\ pool' = Tail(pool)
        /\ UNCHANGED <<state, submitting, queued, pending, runtime, left>> /\ BatchDue' = BatchDue
    BY <1>1 DEF StartJob, manager, queue, boundary, store, BatchDue
  <2>2. pool \in Seq(Jobs) /\ queued \subseteq Jobs
    BY DEF TypeOK
  <2>3. ASSUME NEW i \in DOMAIN pool
        PROVE  pool[i] = job' \/ \E k \in DOMAIN pool' : pool'[k] = pool[i]
    <3>1. CASE i = 1
      BY <2>1, <2>2, <3>1
    <3>2. CASE i # 1
      <4>1. i \in Nat /\ i - 1 \in DOMAIN pool' /\ pool'[i - 1] = pool[i]
        BY <2>1, <2>2, <3>2
      <4> QED
        BY <4>1
    <3> QED
      BY <3>1, <3>2
  <2>4. \A j \in queued : Scheduled(j)'
    <3> SUFFICES ASSUME NEW j \in queued PROVE Scheduled(j)'
      OBVIOUS
    <3>1. j = job \/ \E i \in DOMAIN pool : pool[i] = j
      BY DEF SchedulesInv, Scheduled
    <3>2. CASE \E i \in DOMAIN pool : pool[i] = j
      BY <2>1, <2>3, <3>2 DEF Scheduled
    <3>3. j # job
      BY <2>1, <2>2, NoneAssumption
    <3> QED
      BY <3>1, <3>2, <3>3
  <2> QED
    BY <2>1, <2>4 DEF SchedulesInv, AcceptedJobsAreScheduled, SwitchPending, Scheduled
<1>2. CASE CheckSwitch \/ BorrowRuntime \/ JobFails
  <2>1. /\ UNCHANGED <<state, submitting, queued, pool, job, pending, runtime, left>>
        /\ BatchDue' = BatchDue
    BY <1>2 DEF CheckSwitch, BorrowRuntime, JobFails, manager, queue, boundary, store, BatchDue
  <2> QED
    BY <2>1 DEF SchedulesInv, AcceptedJobsAreScheduled, SwitchPending, Scheduled
<1>3. CASE Claim \/ FinishCall
  <2>1. /\ UNCHANGED <<submitting, queued, pool, job, pending, runtime, left>>
        /\ BatchDue' = BatchDue
    BY <1>3 DEF Claim, FinishCall, manager, queue, boundary, BatchDue
  <2>2. \A j \in Jobs : state'[j] = "accepted" => state[j] = "accepted"
    BY <1>3 DEF Claim, FinishCall, TypeOK
  <2> QED
    BY <2>1, <2>2 DEF SchedulesInv, AcceptedJobsAreScheduled, SwitchPending, Scheduled
<1>4. CASE LeaveJob
  <2>1. /\ job' = None /\ queued' = queued \ {job}
        /\ left' = IF state[job] = "accepted" /\ ~SwitchPending THEN left \union {job} ELSE left
        /\ UNCHANGED <<state, submitting, pool, pending, runtime>>
        /\ BatchDue' = BatchDue
    BY <1>4 DEF LeaveJob, manager, queue, boundary, BatchDue
  <2>2. \A j \in queued' : Scheduled(j)'
    BY <2>1 DEF SchedulesInv, Scheduled
  <2>3. \A j \in Jobs : Scheduled(j) => Scheduled(j)' \/ j = job
    BY <2>1 DEF Scheduled
  <2> QED
    BY <2>1, <2>2, <2>3 DEF SchedulesInv, AcceptedJobsAreScheduled, SwitchPending
<1> QED
  BY <1>1, <1>2, <1>3, <1>4 DEF JobStep

(* What a batch schedules is in the pool, and what it does not is left.      *)
LEMMA SchedulesSubmitted ==
    ASSUME TypeOK, SchedulesInv, job' = job,
           NEW accepted \in SUBSET Jobs, SubmitAccepted(accepted), ~SwitchPending
    PROVE  /\ \A j \in queued' : Scheduled(j)'
           /\ \A j \in accepted : Scheduled(j)' \/ j \in left'
<1>1. PICK oldest \in SUBSET accepted, order \in Seq(Jobs) :
        /\ queued' = queued \union oldest
        /\ \A j \in oldest \ queued : \E i \in DOMAIN order : order[i] = j
        /\ pool' = pool \o order
        /\ left' = (left \ (oldest \ queued)) \union (accepted \ queued')
  BY SubmittedJobs
<1>2. /\ \A j \in Jobs : Scheduled(j) /\ j \in queued' => Scheduled(j)'
      /\ \A i \in DOMAIN order : order[i] \in queued' => Scheduled(order[i])'
  BY <1>1, PoolGrows
<1>3. \A j \in queued' : Scheduled(j)'
  <2> SUFFICES ASSUME NEW j \in queued' PROVE Scheduled(j)'
    OBVIOUS
  <2>1. CASE j \in queued
    BY <1>2, <2>1 DEF SchedulesInv, TypeOK
  <2>2. CASE j \in oldest \ queued
    BY <1>1, <1>2, <2>2
  <2> QED
    BY <1>1, <2>1, <2>2
<1> QED
  BY <1>1, <1>3

LEMMA SchedulesPrepare ==
    ASSUME TypeOK, RevisionsInv, SchedulesInv, Prepare
    PROVE  SchedulesInv'
<1>1. UNCHANGED <<state, submitting, queued, pool, job>> /\ engine = "boundary"
  BY DEF Prepare, executor
<1>2. \A j \in Jobs : Scheduled(j)' <=> Scheduled(j)
  BY <1>1 DEF Scheduled
<1>3. \A j \in queued' : Scheduled(j)'
  BY <1>1, <1>2 DEF SchedulesInv, TypeOK
<1>4. \A j \in Jobs : state[j] = "accepted" =>
          \/ j \in submitting \/ Scheduled(j) \/ pending # None \/ j \in left
          \/ runtime # 0 /\ "WORK" \in notices \union retry \union taken
  BY <1>1 DEF SchedulesInv, AcceptedJobsAreScheduled, SwitchPending, BatchDue
<1>5. CASE PreparationFailed
  <2>1. left' = left \union {j \in Jobs : state[j] = "accepted" /\ j \notin queued}
    BY <1>5 DEF PreparationFailed
  <2>2. \A j \in Jobs : state'[j] = "accepted" => Scheduled(j)' \/ j \in left'
    BY <1>1, <1>3, <2>1
  <2> QED
    BY <1>3, <2>2 DEF SchedulesInv, AcceptedJobsAreScheduled
<1>6. CASE Publish
  <2>1. pending # None /\ runtime' = pending.revision /\ engine' = "batch"
    BY <1>6 DEF Publish, Proceed, WorkOfPublication
  <2>2. runtime' # 0 /\ BatchDue'
    BY <2>1 DEF RevisionsInv, BatchDue
  <2> QED
    BY <1>3, <2>2 DEF SchedulesInv, AcceptedJobsAreScheduled
<1>7. CASE Pass \/ NothingToPublish
  <2>1. UNCHANGED <<runtime, pending, notices, retry, left>> /\ Proceed(TRUE, HasWork)
    BY <1>7 DEF Pass, NothingToPublish, manager, queue
  <2>2. "WORK" \in notices \union retry \union taken => BatchDue'
    BY <2>1 DEF Proceed, HasWork, BatchDue
  <2>3. \A j \in Jobs : state'[j] = "accepted" =>
            \/ j \in submitting' \/ Scheduled(j)' \/ pending' # None \/ j \in left'
            \/ runtime' # 0 /\ BatchDue'
    BY <1>1, <1>2, <1>4, <2>1, <2>2
  <2> QED
    BY <1>3, <2>3 DEF SchedulesInv, AcceptedJobsAreScheduled, SwitchPending
<1>8. CASE StillPreparing \/ TryLater \/ CommitFails
  <2>1. pending' = pending /\ pending # None
    BY <1>8 DEF StillPreparing, TryLater, CommitFails, manager
  <2> QED
    BY <1>3, <2>1 DEF SchedulesInv, AcceptedJobsAreScheduled, SwitchPending
<1> QED
  BY <1>5, <1>6, <1>7, <1>8 DEF Prepare

LEMMA SchedulesEngine ==
    ASSUME TypeOK, RevisionsInv, SwitchesAreAwaited, SchedulesInv, EngineStep
    PROVE  SchedulesInv'
<1>1. CASE Take
  <2>1. UNCHANGED <<state, submitting, queued, pool, job, pending, runtime, left>>
    BY <1>1 DEF Take, manager, executor, store
  <2>2. BatchDue => BatchDue'
    BY <1>1 DEF Take, queue, BatchDue, SwitchesAreAwaited
  <2> QED
    BY <2>1, <2>2 DEF SchedulesInv, AcceptedJobsAreScheduled, SwitchPending, Scheduled
<1>2. CASE Prepare
  BY <1>2, SchedulesPrepare
<1>3. CASE EndBatch
  <2>1. UNCHANGED <<runtime, pending, submitting, job, notices, retry, taken>>
    BY <1>3 DEF EndBatch, manager, queue
  <2>2. PICK new \in SUBSET NewObservations :
          /\ AcceptObservations(new)
          /\ runtime = 0 => UNCHANGED <<queued, pool, left>>
          /\ runtime # 0 => SubmitAccepted(new \union {j \in Jobs : state[j] = "accepted"})
    BY <1>3 DEF EndBatch
  <2>3. CASE runtime = 0
    <3>1. UNCHANGED <<state, queued, pool, left>>
      BY <2>2, <2>3 DEF AcceptObservations, NewObservations, TypeOK
    <3> QED
      BY <2>1, <2>3, <3>1 DEF SchedulesInv, AcceptedJobsAreScheduled, SwitchPending, Scheduled
  <2>4. CASE runtime # 0 /\ SwitchPending
    <3>1. UNCHANGED <<queued, pool>> /\ SwitchPending'
      BY <2>1, <2>2, <2>4 DEF SubmitAccepted, SwitchPending
    <3> QED
      BY <2>1, <3>1 DEF SchedulesInv, AcceptedJobsAreScheduled, Scheduled
  <2>5. CASE runtime # 0 /\ ~SwitchPending
    <3> DEFINE accepted == new \union {j \in Jobs : state[j] = "accepted"}
    <3>1. accepted \in SUBSET Jobs /\ SubmitAccepted(accepted)
      BY <2>2, <2>5 DEF NewObservations, Jobs
    <3>2. \A j \in Jobs : state'[j] = "accepted" => j \in accepted
      BY <2>2 DEF AcceptObservations
    <3> HIDE DEF accepted
    <3>3. /\ \A j \in queued' : Scheduled(j)'
          /\ \A j \in accepted : Scheduled(j)' \/ j \in left'
      BY <2>1, <2>5, <3>1, SchedulesSubmitted
    <3> QED
      BY <3>2, <3>3 DEF SchedulesInv, AcceptedJobsAreScheduled
  <2> QED
    BY <2>3, <2>4, <2>5
<1>4. CASE BatchFails
  <2>1. /\ UNCHANGED <<runtime, pending, submitting, queued, pool, job, left>>
        /\ BatchDue'
    BY <1>4 DEF BatchFails, manager, executor, BatchDue
  <2>2. \A j \in Jobs : state'[j] = "accepted" => state[j] = "accepted" \/ runtime # 0
    BY <1>4 DEF BatchFails, AcceptObservations, NewObservations
  <2> QED
    BY <2>1, <2>2 DEF SchedulesInv, AcceptedJobsAreScheduled, SwitchPending, Scheduled
<1> QED
  BY <1>1, <1>2, <1>3, <1>4 DEF EngineStep

LEMMA SchedulesSubmit ==
    ASSUME TypeOK, SchedulesInv, NEW j \in Commands, Submit(j)
    PROVE  SchedulesInv'
<1>1. /\ submitting' = submitting \ {j} /\ j \in Jobs
      /\ UNCHANGED <<state, job, pending, runtime>> /\ BatchDue' = BatchDue
  BY DEF Submit, Jobs, manager, queue, boundary, BatchDue
<1>2. CASE j \in queued
  <2>1. UNCHANGED <<queued, pool, left>>
    BY <1>2 DEF Submit
  <2> QED
    BY <1>1, <1>2, <2>1 DEF SchedulesInv, AcceptedJobsAreScheduled, SwitchPending, Scheduled
<1>3. CASE j \notin queued
  <2>1. queued' = queued \union {j} /\ pool' = Append(pool, j) /\ left' = left \ {j}
    BY <1>3 DEF Submit
  <2>2. pool' = pool \o <<j>> /\ <<j>> \in Seq(Jobs)
    BY <1>1, <2>1 DEF TypeOK
  <2>3. /\ \A k \in Jobs : Scheduled(k) /\ k \in queued' => Scheduled(k)'
        /\ \A i \in DOMAIN <<j>> : <<j>>[i] \in queued' => Scheduled(<<j>>[i])'
    BY <1>1, <2>2, PoolGrows
  <2>4. Scheduled(j)'
    <3>1. 1 \in DOMAIN <<j>> /\ <<j>>[1] = j
      OBVIOUS
    <3> QED
      BY <2>1, <2>3, <3>1
  <2>5. \A k \in queued' : Scheduled(k)'
    BY <2>1, <2>3, <2>4 DEF SchedulesInv, TypeOK
  <2>6. \A k \in Jobs : Scheduled(k) => Scheduled(k)'
    BY <2>1, <2>5 DEF Scheduled
  <2> QED
    BY <1>1, <2>1, <2>4, <2>5, <2>6 DEF SchedulesInv, AcceptedJobsAreScheduled, SwitchPending
<1> QED
  BY <1>2, <1>3

LEMMA SchedulesStep ==
    TypeOK /\ RevisionsInv /\ SwitchesAreAwaited /\ SchedulesInv /\ [Next]_vars => SchedulesInv'
<1> SUFFICES ASSUME TypeOK, RevisionsInv, SwitchesAreAwaited, SchedulesInv, [Next]_vars PROVE SchedulesInv'
  OBVIOUS
<1>1. CASE SubmitOperation
  BY <1>1, NoneAssumption DEF SubmitOperation, queue, boundary, executor, store, SchedulesInv,
              AcceptedJobsAreScheduled, SwitchPending, Scheduled, BatchDue
<1>2. CASE PrepareOperation
  <2>1. pending # None /\ pending' # None
    BY <1>2, NoneAssumption DEF PrepareOperation, Candidate, TypeOK
  <2> QED
    BY <1>2, <2>1 DEF PrepareOperation, boundary, executor, store, SchedulesInv,
              AcceptedJobsAreScheduled, SwitchPending, Scheduled
<1>3. CASE RetireAll \/ \E kind \in Kinds : RetryDue(kind)
  <2>1. UNCHANGED <<state, submitting, queued, pool, job, pending, runtime, left>>
    BY <1>3 DEF RetireAll, RetryDue, manager, executor, store
  <2>2. BatchDue => BatchDue'
    BY <1>3 DEF RetireAll, RetryDue, boundary, BatchDue
  <2> QED
    BY <2>1, <2>2 DEF SchedulesInv, AcceptedJobsAreScheduled, SwitchPending, Scheduled
<1>4. CASE EngineStep
  BY <1>4, SchedulesEngine
<1>5. CASE JobStep
  BY <1>5, SchedulesJobs
<1>6. CASE Restart
  <2>1. SwitchPending' /\ queued' = {}
    BY <1>6, NoneAssumption DEF Restart, Restoration, SwitchPending, Candidate, TypeOK
  <2> QED
    BY <2>1 DEF SchedulesInv, AcceptedJobsAreScheduled
<1>7. ASSUME NEW c \in Calls, BeginCall(c) \/ EndCall(c) PROVE SchedulesInv'
  BY <1>7 DEF BeginCall, EndCall, manager, queue, boundary, executor, store, SchedulesInv,
              AcceptedJobsAreScheduled, SwitchPending, Scheduled, BatchDue
<1>8. ASSUME NEW c \in Calls, NEW j \in Commands, AcceptCommand(c, j) PROVE SchedulesInv'
  BY <1>8 DEF AcceptCommand, manager, queue, boundary, SchedulesInv,
              AcceptedJobsAreScheduled, SwitchPending, Scheduled, BatchDue, TypeOK
<1>9. ASSUME NEW j \in Commands, Submit(j) PROVE SchedulesInv'
  BY <1>9, SchedulesSubmit
<1>10. CASE UNCHANGED vars
  BY <1>10 DEF vars, manager, queue, boundary, executor, store, SchedulesInv,
              AcceptedJobsAreScheduled, SwitchPending, Scheduled, BatchDue
<1> QED
  BY <1>1, <1>2, <1>3, <1>4, <1>5, <1>6, <1>7, <1>8, <1>9, <1>10 DEF Next

(* The safety part of AcceptedJobsEnd: in every order of submissions,       *)
(* batches, failures, switches and restarts, and for every limit of a       *)
(* batch, an accepted job is one that somebody will run or look at, or one  *)
(* that the limit, a failed executor or the end of a switch left behind.    *)
THEOREM JobsAreNotForgotten == Spec => []AcceptedJobsAreScheduled
<1>1. Init => SchedulesInv
  BY DEF Init, SchedulesInv, AcceptedJobsAreScheduled
<1>2. SchedulesInv => AcceptedJobsAreScheduled
  BY DEF SchedulesInv
<1> QED
  BY <1>1, <1>2, TypeInit, TypeStep, RevisionsInit, RevisionsStep,
     AwaitedInit, AwaitedStep, SchedulesStep, PTL DEF Spec
====
