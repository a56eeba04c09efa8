---- MODULE EnginePipeline ----
(***************************************************************************)
(* The path of every observation through the engine: native records and    *)
(* hook deliveries become rows of raw_events (engine/interpret/puller.py,  *)
(* the hook API), rows become canonical facts (engine/interpret/           *)
(* translation.py), facts become the read model (engine/react/).  One      *)
(* worker (engine/worker.py) runs the three stages; hook threads and file  *)
(* watches run beside it and reach it only through the work queue, used    *)
(* here as WorkQueue promises it (NoticeBoard): a set of pinned notices    *)
(* and a set of armed retries.                                             *)
(*                                                                         *)
(* The process may stop anywhere.  What SQLite committed and what the      *)
(* harness wrote survives; notices, retries, watches and the worker's      *)
(* place in its batch do not.                                              *)
(***************************************************************************)
EXTENDS Facts

CONSTANTS SOURCES, RAW, CANONICAL,      \* WorkKind
          Unreadable,   \* raw events whose translation cannot be stored
          Poison,       \* facts whose read-model change cannot be stored
          NoStage,      \* the worker is between two stages
          MaxFailures,  \* bound on calls that fail once and work when retried
          MaxCrashes    \* bound on process restarts

Kinds == {SOURCES, RAW, CANONICAL}

VARIABLES
    \* outside the process
    written,    \* complete records in each session's native source
    \* tables
    raw,        \* raw_events: identities by row
    pendingRaw, \* pending_raw_events
    journal,    \* canonical_events: facts by cursor
    row,        \* sessions: the stored lifecycle, "absent" without a row
    progress,   \* reaction_progress
    readModel,  \* session_data and session_entries, as the facts folded in
    \* the process
    ready,      \* stages with a notice in the work queue
    armed,      \* stages with a scheduled retry in the work queue
    committed,  \* hook requests between their commit and their notice
    changed,    \* sessions with a file event the watch thread holds
    watched,    \* sessions whose source files are watched
    todo,       \* stages of the current batch that have not begun
    stage,      \* the running stage
    reading,    \* sessions the running pull has not finished
    accepted,   \* new facts that the input reactions have not seen
    reacted,    \* TRUE when the next fact's reactions ran in this stage
    \* what happened, for the properties
    inputRuns,  \* how often each fact reached the input reactions
    effects,    \* facts whose read-model reactions ran
    failures, crashes

outside == <<written>>
rawTables == <<raw, pendingRaw>>
factTables == <<journal, row>>
viewTables == <<progress, readModel>>
queue == <<ready, armed>>
threads == <<committed, changed, watched>>
worker == <<todo, stage, reading, accepted, reacted>>
history == <<inputRuns, effects>>
bounds == <<failures, crashes>>
vars == <<outside, rawTables, factTables, viewTables, queue, threads, worker, history, bounds>>

ASSUME KindsAssumption == /\ SOURCES # RAW /\ RAW # CANONICAL /\ SOURCES # CANONICAL
                          /\ NoStage \notin Kinds
ASSUME FaultsAssumption == Unreadable \subseteq Raw /\ Poison \subseteq Facts
ASSUME BoundsAssumption == MaxFailures \in Nat /\ MaxCrashes \in Nat

TypeOK ==
    /\ written \in [Sessions -> Nat]
    /\ raw \in Seq(Raw)
    /\ pendingRaw \subseteq Raw
    /\ journal \in Seq(Facts)
    /\ row \in [Sessions -> {"absent", "running", "finished"}]
    /\ progress \in Nat
    /\ readModel \in Seq(Facts)
    /\ ready \subseteq Kinds
    /\ armed \subseteq Kinds
    /\ committed \subseteq Hooks
    /\ changed \subseteq Sessions
    /\ watched \subseteq Sessions
    /\ todo \subseteq Kinds
    /\ stage \in Kinds \union {NoStage}
    /\ reading \subseteq Sessions
    /\ accepted \in Seq(Facts)
    /\ reacted \in BOOLEAN
    /\ inputRuns \in [Facts -> Nat]
    /\ effects \subseteq Facts
    /\ failures \in Nat
    /\ crashes \in Nat

(* A first start of the daemon on an empty database: run() puts every kind. *)
Init == /\ written = [s \in Sessions |-> 0]
        /\ raw = <<>> /\ pendingRaw = {}
        /\ journal = <<>> /\ row = [s \in Sessions |-> "absent"]
        /\ progress = 0 /\ readModel = <<>>
        /\ ready = Kinds /\ armed = {}
        /\ committed = {} /\ changed = {} /\ watched = {}
        /\ todo = {} /\ stage = NoStage /\ reading = {}
        /\ accepted = <<>> /\ reacted = FALSE
        /\ inputRuns = [f \in Facts |-> 0] /\ effects = {}
        /\ failures = 0 /\ crashes = 0

----
(* The harness and the threads beside the worker. *)

AppendRecord(s) ==
    /\ written[s] < Len(Script[s])
    /\ written' = [written EXCEPT ![s] = @ + 1]
    /\ changed' = IF s \in watched THEN changed \union {s} ELSE changed
    /\ UNCHANGED <<rawTables, factTables, viewTables, queue, committed, watched,
                   worker, history, bounds>>

(* The watch thread reports a file event of a watched source. *)
FileNotice(s) ==
    /\ s \in changed
    /\ changed' = changed \ {s}
    /\ ready' = ready \union {SOURCES}
    /\ UNCHANGED <<outside, rawTables, factTables, viewTables, armed, committed, watched,
                   worker, history, bounds>>

StoreRaw(r) == /\ raw' = Append(raw, r)
               /\ pendingRaw' = pendingRaw \union {r}

(* An HTTP thread commits a hook delivery.  Delivering a stored identity    *)
(* again changes no row and so leaves no notice: it is not a step.          *)
DeliverHook(h) ==
    /\ h \notin Range(raw)
    /\ StoreRaw(h)
    /\ committed' = committed \union {h}
    /\ UNCHANGED <<outside, factTables, viewTables, queue, changed, watched,
                   worker, history, bounds>>

(* The same thread, after the commit: SqliteDatabase.write puts its kinds.  *)
HookNotice(h) ==
    /\ h \in committed
    /\ committed' = committed \ {h}
    /\ ready' = ready \union {RAW}
    /\ UNCHANGED <<outside, rawTables, factTables, viewTables, armed, changed, watched,
                   worker, history, bounds>>

----
(* The worker's batch. *)

(* The stages a batch runs: work found by a stage is finished by the later ones. *)
ready_stages(kinds) ==
    kinds \union (IF SOURCES \in kinds THEN {RAW, CANONICAL} ELSE {})
          \union (IF RAW \in kinds THEN {CANONICAL} ELSE {})

Idle == stage = NoStage /\ todo = {}

(* take() returns the notices and the kinds whose retry deadline passed. *)
Take(fired) ==
    /\ Idle
    /\ ready \union fired # {}
    /\ todo' = ready_stages(ready \union fired)
    /\ ready' = {}
    /\ armed' = armed \ fired
    /\ UNCHANGED <<outside, rawTables, factTables, viewTables, threads,
                   stage, reading, accepted, reacted, history, bounds>>

(* The order of the WorkKind enumeration. *)
IsNext(kind) ==
    /\ stage = NoStage
    /\ kind \in todo
    /\ kind = RAW => SOURCES \notin todo
    /\ kind = CANONICAL => todo = {CANONICAL}

Watchable == {s \in Sessions : row[s] = "running"}

(* Defect: the watches of the first pull are kept for the life of the process. *)
BeginWithOldWatches ==
    /\ IsNext(SOURCES)
    /\ todo' = todo \ {SOURCES}
    /\ stage' = SOURCES
    /\ reading' = Watchable
    /\ UNCHANGED <<outside, rawTables, factTables, viewTables, queue, threads,
                   accepted, reacted, history, bounds>>

(* watch_files: where the kernel watches each file (macOS) a new watch sends *)
(* a notice of its own; where a directory observer does (Linux) it does not. *)
WatchNotice == \/ UNCHANGED ready
               \/ ~(Watchable \subseteq watched) /\ ready' = ready \union {SOURCES}

(* _subscriptions and pull(): watch first, then read what is watchable. *)
BeginSources ==
    /\ IsNext(SOURCES)
    /\ todo' = todo \ {SOURCES}
    /\ stage' = SOURCES
    /\ watched' = Watchable
    /\ WatchNotice
    /\ reading' = Watchable
    /\ UNCHANGED <<outside, rawTables, factTables, viewTables, armed, committed, changed,
                   accepted, reacted, history, bounds>>

BeginStored(kind) ==
    /\ kind # SOURCES
    /\ IsNext(kind)
    /\ todo' = todo \ {kind}
    /\ stage' = kind
    /\ UNCHANGED <<outside, rawTables, factTables, viewTables, queue, threads,
                   reading, accepted, reacted, history, bounds>>

EndStage == stage' = NoStage /\ reading' = {} /\ reacted' = FALSE

(* A stage that raises: its kind runs again after a delay, the later stages *)
(* of this batch run now.  The source stage raises before it reads.         *)
MayFail == failures < MaxFailures /\ failures' = failures + 1

SourcesFail ==
    /\ IsNext(SOURCES)
    /\ MayFail
    /\ todo' = todo \ {SOURCES}
    /\ armed' = armed \union {SOURCES}
    /\ UNCHANGED <<outside, rawTables, factTables, viewTables, ready, threads,
                   stage, reading, accepted, reacted, history, crashes>>

(* Reading sources. *)

(* Defect: a source without a position is followed from its end. *)
TailPosition(s) ==
    LET known == {i \in DOMAIN Script[s] : <<s, i>> \in Range(raw)}
    IN IF known = {} /\ written[s] > 0 THEN written[s] - 1 ELSE Max({0} \union known)

(* latest_positions: the last record of the session's source in raw_events. *)
Position(s) == Max({0} \union {i \in DOMAIN Script[s] : <<s, i>> \in Range(raw)})

(* _read_and_record.  A source decides how many records it returns at once; *)
(* one at a time has the commits of every other choice, and more.           *)
ReadRecord(s) ==
    /\ stage = SOURCES
    /\ s \in reading
    /\ Position(s) < written[s]
    /\ StoreRaw(<<s, Position(s) + 1>>)
    /\ ready' = ready \union {RAW}
    /\ UNCHANGED <<outside, factTables, viewTables, armed, threads, worker, history, bounds>>

FinishRead(s) ==
    /\ stage = SOURCES
    /\ s \in reading
    /\ Position(s) = written[s]
    /\ reading' = reading \ {s}
    /\ UNCHANGED <<outside, rawTables, factTables, viewTables, queue, threads,
                   todo, stage, accepted, reacted, history, bounds>>

(* A source that raises asks for a retry and lets the other sources run. *)
ReadFails(s) ==
    /\ stage = SOURCES
    /\ s \in reading
    /\ MayFail
    /\ reading' = reading \ {s}
    /\ armed' = armed \union {SOURCES}
    /\ UNCHANGED <<outside, rawTables, factTables, viewTables, ready, threads,
                   todo, stage, accepted, reacted, history, crashes>>

EndSources ==
    /\ stage = SOURCES
    /\ reading = {}
    /\ EndStage
    /\ UNCHANGED <<outside, rawTables, factTables, viewTables, queue, threads,
                   todo, accepted, history, bounds>>

----
(* Translating raw events. *)

(* Defect: the backlog is read newest first. *)
IsNewestPending(r) ==
    \E k \in DOMAIN raw : /\ raw[k] = r
                          /\ r \in pendingRaw
                          /\ \A j \in (k + 1)..Len(raw) : raw[j] \notin pendingRaw

IsOldestPending(r) ==
    \E k \in DOMAIN raw : /\ raw[k] = r
                          /\ r \in pendingRaw
                          /\ \A j \in 1..(k - 1) : raw[j] \notin pendingRaw

MovesLifecycle(facts) == Range(facts) \intersect (Started \union Finished) # {}

(* Defect: the trigger follows every proposed fact, also those not appended. *)
TranslateMovingOnProposals(r) ==
    /\ stage = RAW
    /\ accepted = <<>>
    /\ IsOldestPending(r)
    /\ r \notin Unreadable
    /\ pendingRaw' = pendingRaw \ {r}
    /\ \E new \in Translations :
          /\ IsFresh(new, FactsOf(r), journal)
          /\ journal' = journal \o new
          /\ accepted' = new
    /\ row' = [s \in Sessions |->
                  IF row[s] = "absent" THEN "absent" ELSE LifecycleAfter(FactsOf(r), s, row[s])]
    /\ ready' = ready \union {CANONICAL, SOURCES}
    /\ UNCHANGED <<outside, raw, viewTables, armed, threads,
                   todo, stage, reading, reacted, history, bounds>>

(* Defect: the reactions also see the facts that the journal already had. *)
TranslateForAllReactions(r) ==
    /\ stage = RAW
    /\ accepted = <<>>
    /\ IsOldestPending(r)
    /\ r \notin Unreadable
    /\ pendingRaw' = pendingRaw \ {r}
    /\ \E new \in Translations :
          /\ IsFresh(new, FactsOf(r), journal)
          /\ journal' = journal \o new
          /\ row' = [s \in Sessions |->
                        IF row[s] = "absent" THEN "absent" ELSE LifecycleAfter(new, s, row[s])]
    /\ accepted' = FactsOf(r)
    /\ ready' = ready \union {CANONICAL, SOURCES}
    /\ UNCHANGED <<outside, raw, viewTables, armed, threads,
                   todo, stage, reading, reacted, history, bounds>>

(* record_translation: one transaction writes the verdict, drops the raw    *)
(* event from the backlog and appends its new facts; the trigger moves the  *)
(* lifecycle of stored sessions.  The notices follow the commit.            *)
Translate(r) ==
    /\ stage = RAW
    /\ accepted = <<>>
    /\ IsOldestPending(r)
    /\ r \notin Unreadable
    /\ pendingRaw' = pendingRaw \ {r}
    /\ \E new \in Translations :
          /\ IsFresh(new, FactsOf(r), journal)
          /\ journal' = journal \o new
          /\ row' = [s \in Sessions |->
                        IF row[s] = "absent" THEN "absent" ELSE LifecycleAfter(new, s, row[s])]
          /\ accepted' = new
    /\ ready' = ready \union (IF FactsOf(r) = <<>> THEN {} ELSE {CANONICAL})
                      \union (IF MovesLifecycle(FactsOf(r)) THEN {SOURCES} ELSE {})
    /\ UNCHANGED <<outside, raw, viewTables, armed, threads,
                   todo, stage, reading, reacted, history, bounds>>

(* SessionUpsertCanonicalEventReaction: a start fact of an unknown session  *)
(* inserts its row, whose lifecycle the trigger takes from the journal.     *)
(* For a stored session the row may get a new terminal or process: a change *)
(* that only its notice shows here.                                         *)
Insert(s) == /\ row' = [row EXCEPT ![s] = LifecycleAfter(journal, s, "running")]
             /\ ready' = ready \union {SOURCES}

Relocate(s) == /\ row[s] # "absent"
               /\ row' = row
               /\ ready' = ready \union {SOURCES}

InputReact ==
    /\ accepted # <<>>
    /\ LET f == Head(accepted)
           s == SessionOf[f]
           inserts == f \in Started /\ row[s] = "absent"
       IN /\ inputRuns' = [inputRuns EXCEPT ![f] = @ + 1]
          /\ \/ inserts /\ Insert(s)
             \/ ~inserts /\ UNCHANGED <<row, ready>>
             \/ Relocate(s)
    /\ accepted' = Tail(accepted)
    /\ UNCHANGED <<outside, rawTables, journal, viewTables, armed, threads,
                   todo, stage, reading, reacted, effects, bounds>>

(* A reaction that raises is recorded and not called again. *)
InputReactionFails ==
    /\ accepted # <<>>
    /\ MayFail
    /\ inputRuns' = [inputRuns EXCEPT ![Head(accepted)] = @ + 1]
    /\ accepted' = Tail(accepted)
    /\ UNCHANGED <<outside, rawTables, factTables, viewTables, queue, threads,
                   todo, stage, reading, reacted, effects, crashes>>

EndRaw ==
    /\ stage = RAW
    /\ accepted = <<>>
    /\ pendingRaw = {}
    /\ EndStage
    /\ UNCHANGED <<outside, rawTables, factTables, viewTables, queue, threads,
                   todo, accepted, history, bounds>>

----
(* Folding facts. *)

NextFact == journal[progress + 1]

(* _react: the side effects of the next fact, before its read-model change. *)
React ==
    /\ stage = CANONICAL
    /\ progress < Len(journal)
    /\ ~reacted
    /\ reacted' = TRUE
    /\ effects' = effects \union {NextFact}
    /\ UNCHANGED <<outside, rawTables, factTables, viewTables, queue, threads,
                   todo, stage, reading, accepted, inputRuns, bounds>>

(* Defect: the fact is folded before its reactions are certain to have run. *)
MaterializeUnreacted ==
    /\ stage = CANONICAL
    /\ progress < Len(journal)
    /\ NextFact \notin Poison
    /\ readModel' = Append(readModel, NextFact)
    /\ progress' = progress + 1
    /\ reacted' = FALSE
    /\ UNCHANGED <<outside, rawTables, factTables, queue, threads,
                   todo, stage, reading, accepted, history, bounds>>

(* Defect: the mark is moved to the end of the page with its first fact. *)
MaterializePage ==
    /\ stage = CANONICAL
    /\ reacted
    /\ NextFact \notin Poison
    /\ readModel' = Append(readModel, NextFact)
    /\ progress' = Len(journal)
    /\ reacted' = FALSE
    /\ UNCHANGED <<outside, rawTables, factTables, queue, threads,
                   todo, stage, reading, accepted, history, bounds>>

(* _materialize: the change and the progress mark in one transaction. *)
Materialize ==
    /\ stage = CANONICAL
    /\ reacted
    /\ NextFact \notin Poison
    /\ readModel' = Append(readModel, NextFact)
    /\ progress' = progress + 1
    /\ reacted' = FALSE
    /\ UNCHANGED <<outside, rawTables, factTables, queue, threads,
                   todo, stage, reading, accepted, history, bounds>>

EndCanonical ==
    /\ stage = CANONICAL
    /\ progress = Len(journal)
    /\ EndStage
    /\ UNCHANGED <<outside, rawTables, factTables, viewTables, queue, threads,
                   todo, accepted, history, bounds>>

(* EngineWorkBatch.retry after a stored stage raised: when its transaction  *)
(* failed once, or because the raw event or fact in front never succeeds.   *)
Stuck == \/ stage = RAW /\ \E r \in Unreadable : IsOldestPending(r)
         \/ stage = CANONICAL /\ reacted /\ NextFact \in Poison

(* Defect: a failure is recorded and its stage waits for the next notice. *)
StageForgets ==
    /\ stage \in {RAW, CANONICAL}
    /\ accepted = <<>>
    /\ \/ Stuck /\ UNCHANGED failures
       \/ ~Stuck /\ MayFail
    /\ EndStage
    /\ UNCHANGED <<outside, rawTables, factTables, viewTables, queue, threads,
                   todo, accepted, history, crashes>>

(* Defect: a failed stage is tried again where it stands. *)
StageRetriesInPlace ==
    /\ stage \in {RAW, CANONICAL}
    /\ accepted = <<>>
    /\ \/ Stuck /\ UNCHANGED failures
       \/ ~Stuck /\ MayFail
    /\ reacted' = FALSE
    /\ UNCHANGED <<outside, rawTables, factTables, viewTables, queue, threads,
                   todo, stage, reading, accepted, history, crashes>>

StageFails ==
    /\ stage \in {RAW, CANONICAL}
    /\ accepted = <<>>
    /\ \/ Stuck /\ UNCHANGED failures
       \/ ~Stuck /\ MayFail
    /\ armed' = armed \union {stage}
    /\ EndStage
    /\ UNCHANGED <<outside, rawTables, factTables, viewTables, ready, threads,
                   todo, accepted, history, crashes>>

----
(* The process stops and starts again: run() puts every kind. *)
Restart ==
    /\ crashes < MaxCrashes
    /\ crashes' = crashes + 1
    /\ ready' = Kinds
    /\ armed' = {}
    /\ committed' = {} /\ changed' = {} /\ watched' = {}
    /\ todo' = {} /\ accepted' = <<>>
    /\ EndStage
    /\ UNCHANGED <<outside, rawTables, factTables, viewTables, history, failures>>

Batch == \/ \E fired \in SUBSET armed : Take(fired)
         \/ BeginSources \/ SourcesFail
         \/ \E kind \in Kinds : BeginStored(kind)
         \/ EndSources \/ EndRaw \/ EndCanonical \/ StageFails

Sources == \E s \in Sessions : ReadRecord(s) \/ FinishRead(s) \/ ReadFails(s)

Interpretation == (\E r \in Raw : Translate(r)) \/ InputReact \/ InputReactionFails

Reaction == React \/ Materialize

Worker == Batch \/ Sources \/ Interpretation \/ Reaction

Environment == \/ \E s \in Sessions : AppendRecord(s)
               \/ \E h \in Hooks : DeliverHook(h)

Next == \/ Environment \/ Worker \/ Restart
        \/ \E s \in Sessions : FileNotice(s)
        \/ \E h \in Hooks : HookNotice(h)

(* The worker thread runs, a request that committed goes on, the watch      *)
(* thread reports what it holds, and every deadline passes.  Nothing makes  *)
(* the harness write or deliver, a call fail, or the process stop.          *)
Fairness ==
    /\ WF_vars(Worker)
    /\ \A h \in Hooks : WF_vars(HookNotice(h))
    /\ \A s \in Sessions : WF_vars(FileNotice(s))
    /\ \A kind \in Kinds : SF_vars(\E fired \in SUBSET armed : kind \in fired /\ Take(fired))

Spec == Init /\ [][Next]_vars /\ Fairness

----
(* Properties. *)

(* Where the work of a kind is waiting: in the queue, or in this batch.     *)
Queued(kind) == \E waiting \in ready \union armed \union todo : kind \in ready_stages({waiting})

(* docs/engine-events.md "a notice received during this work stays in the   *)
(* queue": no row of the backlog, no unfolded fact and no unread record of  *)
(* a running session is without a stage that will find it.  The worker may  *)
(* sleep only because somebody still has to wake it.                        *)
RawWillBeTranslated ==
    pendingRaw # {} => Queued(RAW) \/ stage = RAW \/ committed # {}

FactsWillBeFolded ==
    progress < Len(journal) => Queued(CANONICAL) \/ stage = CANONICAL

RecordsWillBeRead ==
    \A s \in Watchable : Position(s) < written[s] =>
        \/ Queued(SOURCES)
        \/ s \in changed
        \/ stage = SOURCES /\ s \in reading

NoSilentBacklog == RawWillBeTranslated /\ FactsWillBeFolded /\ RecordsWillBeRead

(* The puller never skips a record, whatever failed or was interrupted.     *)
RecordsFormPrefix ==
    \A s \in Sessions : \A i \in DOMAIN Script[s] :
        <<s, i>> \in Range(raw) => i <= written[s] /\ (i = 1 \/ <<s, i - 1>> \in Range(raw))

(* record_translation: a raw event that left the backlog left all its facts *)
(* in the journal, and no fact is there twice.                              *)
VerdictsKeepTheirFacts ==
    /\ \A r \in Range(raw) \ pendingRaw : Range(FactsOf(r)) \subseteq Range(journal)
    /\ \A i, j \in DOMAIN journal : journal[i] = journal[j] => i = j

(* The two triggers of schema.py: a stored session has the lifecycle that   *)
(* the journal says, although rows and facts are written in different       *)
(* transactions and a row can be inserted after later facts.                *)
RowsFollowJournal ==
    \A s \in Sessions : row[s] # "absent" => row[s] = LifecycleAfter(journal, s, "running")

(* _react_to runs for accepted facts only: no fact, from however many raw   *)
(* events, reaches the input reactions twice.                               *)
InputReactionsRunOnce == \A f \in Facts : inputRuns[f] <= 1

(* tick(): no fact is in the read model before its reactions ran, even when *)
(* the stage failed or the process stopped between the two.                 *)
ReactionsPrecedeFold == Range(readModel) \subseteq effects

(* The read model is exactly the journal up to the progress mark.           *)
FoldIsPrefix == readModel = SubSeq(journal, 1, progress)

(* A written record of a running session is recorded unless the session     *)
(* finishes first.                                                          *)
RecordsAreRead ==
    \A s \in Sessions : \A i \in DOMAIN Script[s] :
        row[s] = "running" /\ i <= written[s] ~> row[s] = "finished" \/ <<s, i>> \in Range(raw)

(* EngineWorkBatch.run "Continue unrelated stages after a failed stage": a  *)
(* raw event or fact that fails every time holds up what comes after it in  *)
(* its own table, and nothing else.                                         *)
Behind(faults, rows, x) ==
    \E i, j \in DOMAIN rows : i <= j /\ rows[i] \in faults /\ rows[j] = x

OnlySuccessorsWait ==
    /\ \A r \in Raw : r \in Range(raw) ~> r \notin pendingRaw \/ Behind(Unreadable, raw, r)
    /\ \A f \in Facts :
          f \in Range(journal) ~> f \in Range(readModel) \/ Behind(Poison, journal, f)

(* engine/interpret/session_reaction.py "A session-start event supplies the *)
(* first identity and location": a session whose start was accepted gets    *)
(* its row.                                                                 *)
StartedSessionsAreStored ==
    \A f \in Started : f \in Range(journal) ~> row[SessionOf[f]] # "absent"

Promise == INSTANCE FactJournal WITH
              recorded <- raw,
              decided <- Len(raw) - Cardinality(pendingRaw),
              facts <- journal,
              folded <- progress

(* Whatever fails or stops, the tables go through the states of FactJournal *)
(* and the backlog drains: each raw event is translated, each fact folded.  *)
ImplementsFactJournal == Promise!Spec
====
