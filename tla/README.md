# Verification of the baqylau engine

baqylau watches coding-agent sessions. Harnesses (Claude Code, Codex, Gemini, OpenCode)
leave native transcripts and call hooks; one daemon turns every observation into rows of
`raw_events`, rows into *canonical facts*, and facts into the read model that the mirror
pane, the dashboard and the notifier show. This directory holds TLA+ models of the parts
of the daemon where correctness depends on order, failure and interleaving, the TLC runs
that check them on small instances, and TLAPS proofs of the safety properties for every
instance. Paths below are relative to `src/`.

## 1. Inventory

### The engine (modelled first)

| Component | State | Operations | What makes it correct |
|---|---|---|---|
| Work queue `core/work_queue.py` | pending kinds, deadlines by (kind, key), closed | `put`, `schedule`, `set_deadline`, `take`, `close` | nothing asked for is lost, postponed by another producer or invented; the wait covers every promise; close releases the worker |
| Worker and batches `engine/worker.py`, `engine/work_batch.py` | the batch and its running stage | `run`, `_process`, `_stage`, `retry` | a stage that leaves work behind leaves a notice, deadline or later stage for it; one stage's failure does not stop another |
| Input watches `core/input_events.py`, `core/kernel_events.py` | watched directories, files, processes | `update`, `watch_files`, `on_any_event` | the watch precedes the read; the watches follow the running sessions |
| Puller `engine/interpret/puller.py` | none: resumes from the last recorded position | `pull`, `_read_and_record` | records of a source are recorded in order, without gaps, once |
| Raw events `repository/impl/sqlite/raw_events.py` | `raw_events`, `pending_raw_events` | `record`, `unverdicted`, `latest_positions` | the backlog is what has no verdict, in row order |
| Translation `engine/interpret/translation.py`, `canonical_events.py` | `interpretations`, `canonical_events` | `translate`, `record_translation`, `_react_to` | a verdict and its new facts commit together; a fact is accepted once; input reactions see accepted facts |
| Session rows `session_reaction.py`, `sessions.py`, two triggers of `schema.py` | `sessions` with a stored lifecycle | `react`, `save`, triggers | a row has the lifecycle of the journal; a started session has a row |
| Reaction loop `engine/react/` | `reaction_progress`, read-model tables | `tick`, `drain`, `rebuild` | facts are folded once, in order, after their reactions; progress commits with the change |

### Around the engine

| Component | State and operations | What makes it correct | Module |
|---|---|---|---|
| Session data writers, extension transforms, tab colours `sessiondata/`, `loop_materialization.py`, `loop_listener.py` | rows of sessions and actors, the state kept for a page, painted colours | rows are the fold of the journal, whatever is dropped, failed or rebuilt; a tab shows its lead | `ReadModel` |
| Change signal `core/change_signal.py` | readers, batch depth, pending flag | every reader is woken after the last commit it has not read | `ChangeSignal` |
| Session streams `session_data.py` `delta`, `stream_session_frames.py`, the clients | a canonical and an entry cursor per reader | a reader gets every row, although a page stops at its content budget | `SessionStream` |
| Notifier `notify/` | previous states, pending and delivered alerts, presence of devices | one alert per attention change, taken back when it is stale | `Notifier` |
| Shell output `engine/interpret/output_source.py`, `shell_output.py` | files that a session follows, their positions, a two-hour lifetime | no output is recorded twice; what is not recorded was dropped knowingly | `ShellOutput` |
| Extension runtime `extensions/registry.py`, `manager*.py`, `engine/extensions_boundary.py`, `observer_stage.py` | runtime revisions, a candidate, borrowers, kept work | a borrowed runtime stays open; work is kept while no runtime is ready and comes back | `ExtensionRuntime` |
| Extension jobs `extensions/job_executor.py`, `job_control.py` | stored jobs, one executor | a job is called at most once, and a switch loses none | `ExtensionRuntime` |
| History reprocessing `history_reprocessing.py`, `history_switch.py` | candidate and archived histories | readers never mix two histories | `SessionStream`, as its readers see it |
| Mixed processing `mixed_processing.py`, `projection_stage.py` | extension facts and projections in the stages | see 6 | none |
| Interrupt fallback, liveness and resume, naming worker | in-memory marks; process tables; stored jobs | see 6 | none |
| Inference, harness plugins, HTTP API, dashboard, client, SDK, audit, quality rules | parsing, presentation, packaging | see 6 | none |

### How they interact

Producers reach the worker only through the queue: SQLite after a commit
(`connection.py` `write`), the watch threads, HTTP threads and the worker's own retries.
The worker runs SOURCES, RAW and CANONICAL in this order; each stage reads its input from
tables, so that a restart needs no memory of the last process. After a commit the change
signal wakes streams, notifier and naming worker, which read the tables again.

### What is hard

The `hazards` of `PROJECT.json` list it line by line. The kinds: wake-ups that race with
a wait; notices that follow a commit on another thread; a stage that fails between two
commits; a restart between a commit and what follows it; one fact observed by several
raw events; copies of the journal (lifecycle column, cached states) that can go stale;
process-local marks and deadlines; a reader that pages through rows that keep moving.

## 2. Modules

| Module | Models | Role |
|---|---|---|
| `NoticeBoard` | the queue's promise | abstract specification |
| `WorkQueue` | `core/work_queue.py` and the loop that calls it | detailed specification |
| `MCWorkQueue` | | instance for TLC |
| `WorkQueueProofs` | | proofs about `WorkQueue` |
| `Facts` | translations, deduplication, the lifecycle triggers | constants and operators shared by the next two |
| `FactJournal` | the engine's promise to everything that reads its tables | abstract specification |
| `EnginePipeline` | worker, puller, translation, session rows, reaction loop, with crashes | detailed specification |
| `MCEnginePipeline` | | instances for TLC |
| `FactsProofs` | | lemmas about sequences, deduplication and lifecycles |
| `EnginePipelineProofs` | | proofs about `EnginePipeline` |
| `ReadModel` | the reaction loop's pages, the session and actor writers, transforms, announcements, rebuild | detailed specification; refines one step of `EnginePipeline` |
| `MCReadModel`, `ReadModelProofs` | | four journals for TLC; proofs |
| `ChangeSignal` | `core/change_signal.py` | actions that a module of writers and readers conjoins with its own |
| `SessionStream` | the tables of one session, the server side of a stream and its client | composes with `ChangeSignal` |
| `MCSessionStream`, `SessionStreamProofs` | | instance for TLC, proofs |
| `Notifier`, `MCNotifier`, `NotifierProofs` | the worker of `notify/` and its Telegram threads | specification, instance, proofs |
| `ExtensionRuntime`, `MCExtensionRuntime`, `ExtensionRuntimeProofs` | registry, manager, boundary, job executor | specification, instance, proofs |
| `ShellOutput`, `MCShellOutput`, `ShellOutputProofs` | one following of a shell's output | specification, instance, proofs |

### WorkQueue

`pending`, `deadlines`, `closed` are the object's fields; `now` is `time.monotonic()`;
`worker` and `wakeAt` are where the worker thread is and until when it waits. A method
holds the lock from its first statement to its last, so `Put`, `Schedule`, `SetDeadline`,
`ClearDeadline` and `Close` are one action each. `take()` gives the lock up in
`Condition.wait` and is therefore `TakeReady`, `Sleep`, `Timeout` and `TakeClosed`. A
notified worker is in its loop again (`"taking"`) but other threads may act before it
holds the lock.

Each producer owns its key: `"retry"`, `"source retry"`, `"output expiry"` are given to
`schedule` (`SharedKeys`), continuations to `set_deadline` (`OwnedKeys`). The assumption
that these are different sets is what the callers do.

The refinement hides clock, lock and wait: what is armed on the board is what has a
deadline, and a worker in `take()` is asking. `TakeReady` is `Take(fired)` with the due
deadlines, `Schedule` is `Arm`, the rest is named alike, and sleeping is stuttering.

### EnginePipeline

The state is what survives a stop (`written` by the harness; the tables `raw`,
`pendingRaw`, `journal`, `row`, `progress`, `readModel`) and what does not (`ready` and
`armed` in the queue, requests between commit and notice, events the watch thread holds,
watches, and the worker's place). `inputRuns` and `effects` are history. One action is
one transaction, one notice or one step of the worker:

| Code | Actions |
|---|---|
| `EngineWorker.run`, `take`, `ready_stages` | `Init`, `Take`, `Restart` |
| `_stage` SOURCES, `_subscriptions`, `watch_files` | `BeginSources` (with `WatchNotice`), `SourcesFail` |
| `_read_and_record`, `_pull_source` | `ReadRecord`, `FinishRead`, `ReadFails`, `EndSources` |
| `record` by a hook, then its notice | `DeliverHook`, `HookNotice` |
| harness writes, file event | `AppendRecord`, `FileNotice` |
| `record_translation` and the first trigger | `Translate` |
| `_react_to`, `SessionUpsertCanonicalEventReaction`, second trigger | `InputReact`, `InputReactionFails` |
| `_react`, `_materialize`, `drain` | `React`, `Materialize`, `EndCanonical` |
| `EngineWorkBatch.run`, `retry` | `StageFails` |

Abstractions, and why they keep what the properties need:

- The queue is used as `NoticeBoard` promises it, which `WorkQueue` is shown to do. A
  retry deadline is a member of `armed`, and a `Take` may fire any of them. The keys
  `"retry"`, `"source retry"` and `"output expiry"` of one kind are one member.
- A source returns records one at a time and its position is read again before each. The
  puller keeps the position between two reads of one pull; only the worker records from a
  session's source, so the two are equal. Larger reads have fewer commits.
- A translation is a sequence of fact identities. A translator that raises is stored as
  a verdict without facts (`_translate_safely`), which is the empty sequence.
- A failing call leaves no change and is counted by `MaxFailures`. The source stage may
  fail before it reads (`SourcesFail`) or at any source (`ReadFails`; a failed read of
  all positions is this failure for every session).
- Input reactions other than the session row change nothing that is modelled. The row's
  terminal and process values are abstracted to the notice that their change sends
  (`Relocate`), which may come with any accepted fact.
- A hook delivered twice changes no row and sends no notice: it is a stuttering step.
- A stop during a batch is `Restart`: the stop event ends the loop between two calls,
  and a killed process may end anywhere.
- Not in this module: the EXTENSIONS and EXTENSION_SOURCES kinds and the mixed stage
  (the engine without extension services), listeners, and notices that report nothing to
  read (an event of a harness profile, a process exit).

### ReadModel

`EnginePipeline` folds a fact in one step and looks only at the order. `ReadModel` opens
that step: what a fact does to the rows, and from what the loop computes it.

| Code | Actions |
|---|---|
| `drain`, the pages of `tick` | `Drain`, `LoadPage`, `EndDrain` |
| `_materialize`, `apply`, `_committed_state` | `Materialize` |
| `advance_past_extensions` | `SkipExtension` |
| the `finally` of `drain`, `TabColorPainter.applied` | `Announce` in `EndDrain` and `DrainFails` |
| a commit that raises; the end of the process | `DrainFails`; `Crash`, `Start` |
| `clear`, `rebuild` of `cli_rebuild` | `Clear`, `LoadPage`, `Materialize`, `EndRebuild` |

- Rows keep the fields on which lifecycle, transforms and tabs depend: `state` and
  `account` of a session, `state` and `status` of an actor. Seven kinds of facts move
  them; the other kinds are folds of fields that nobody here reads.
- A transform makes at most one edit or drop per fact, of any row that
  `validate_core_drop` lets it touch (`Droppable`). A rebuild runs no transforms.
- An announcement may miss any session (a listener that raises is passed over, and a session
  or lead that is not found paints nothing), and any paint may be refused: the painter has
  noted the colour by then and does not look at the result.
- `edits`, `unpainted` (the painter was not told or did not find the session) and `refused`
  (the last paint failed) are history. `Orphaned` sessions are left out of the
  properties: an actor row written before its session's row is not read back by `read`,
  so what a later fact makes of it depends on where a page ends.
- A rebuild that stops half way and is started again begins with `Clear`; that it runs
  reactions of the skipped part once more is not a matter of these rows.

### ChangeSignal and SessionStream

| Code | Actions |
|---|---|
| `batch()` around a drain, `_materialize` inside it | `Drain`, `Fold`, `Signal` (`LeaveBatch`) |
| a projection's commit, `switch_history`, any other writer | `Project`, `SwitchHistory`, `Unrelated` |
| `write` after a commit, `publish` and its snapshot, `call_soon_threadsafe` | `Committed`, `Publish`, `Deliver`, `LoopCallback` |
| `session_frame_loop`, `session_iteration`, `delta`, `page_end` | `Open`, `ClearEvent`, `Read`, `Send`, `SendReset`, `Wake` |
| the first read and page of the dashboard and the pane | `Snapshot`, `LoadPage` |
| a lost connection: EventSource, `StreamRecovery`, a new pane | the three cases of `Disconnect` |

- Entries are rows `1, 2, ...` with the commit cursor each was stored at; a projection may
  store a row later than the facts after it, so cursors do not grow with rows. That is what
  the second cursor of `delta` is for, and what these properties are about.
- The content budget counts entries. Actor rows are stamped and sent like the session row,
  which stands for both.
- `EmptyPage` is what a client without entries names: 0 for the pane, no row for the
  dashboard. `session_stream` and the proofs of two theorems are about the first,
  `stream_late` about the second.
- `pageView` is history: the view whose rows are on the client's page. A client that names
  no view (every dashboard before its first reset, the pane always) is `Unaware` when the
  history is switched between its page and its stream, or between two streams: the server
  takes the view it finds (`stream_session_frames.py:129-134`) and sends no reset.
- Not here: frames of applications, heartbeats, older pages, the stream of all sessions, and
  a dashboard whose snapshot failed and which streams from cursor 0.

### Notifier

A scan is `Wake`, `FirstScan` or `ReadStates`, then `ResolveChange` for each session,
`ResolveStale`, `Deliver` and `Sleep`; `ChangeStatus` may come between any two of them.
`Tick` is the time, `TelegramThread` the calls that run beside the worker. Presence and
routing decide between `Escalate`, `Suppress`, `Push` and `Fallback` and are left open, as is
the mute setting. An alert that was armed before a mute is still delivered.

A scan that raises is one action for each place where the code can raise:

| Where | Action | What it leaves |
|---|---|---|
| reading rows, windows, muted sessions | `ReadFails` | nothing was changed |
| the settings or the publication in `schedule` | `ScheduleFails` | the earlier alert is taken back and disarmed, `previous_states` is the old one |
| routes or the push | `KeptInSending` in `SendFails` | the alert is armed and is tried again |
| an escalation, a fallback, the Telegram message after a push | `LostInSending` in `SendFails` | the alert has left `pending` and is gone |

The audit does not raise (`repository/impl/sqlite/audit.py:3-9`) and a retraction turns its
errors into a failed one, so the rest of a scan has no such place. `redo` is history: the
sessions that a failed scan had begun to handle; the next scan sees their change again unless
it was undone meanwhile. `sends`, `answered` and `dropped` are history too. Left out: the cap
on kept deliveries, a deletion whose thread cannot start, and all texts.

### ExtensionRuntime

| Code | Actions |
|---|---|
| `submit`, the background task, `retire_all` | `SubmitOperation`, `PrepareOperation`, `RetireAll` |
| `borrow` of an HTTP call, `accept_command`, `submit` | `BeginCall`, `AcceptCommand`, `EndCall`, `Submit` |
| `take`, `prepare`, `_advance`, `publish_snapshot`, `capture_batch` | `Take`, the cases of `Prepare` |
| the deadline of another attempt, of the switch or of a batch | `RetryDue` |
| `observe` at the end of a batch, `submit_accepted` | `EndBatch` (`AcceptObservations`, `SubmitAccepted`) |
| `capture_batch`, a stage or `observe` raises | `BatchFails` |
| `_run` of the executor, `claim`, the call, the `finally` | `StartJob` to `LeaveJob`; `JobFails` when something raises or the manager does not name the runtime |
| the end of the process, `recover_jobs`, restoration | `Restart` |

A batch is one step between its borrow and `EndBatch`; in this module only the start, a
publication and a failed batch produce work, which is the hard case: no later notice rescues
work that was not kept. A runtime that is being closed counts as gone from the moment it is
retired. `ScheduleLimit` is `SCHEDULE_LIMIT`, 100 in the code; which accepted jobs are the
oldest is left open, since an update of a job moves it. A batch in which another stage fails
while its CANONICAL stage runs is `EndBatch`: the retry of that stage touches no job.

`left` is history: accepted jobs that wait for a batch nobody asked for. A job gets there when
it is beyond the limit of a batch, when the executor let it go (it failed before the claim, or
stood back for a switch that ended before it left), or when the preparation of a switch failed
for which it waits. The next batch or its own request takes it out again.

Every package is taken to be active. Not here: graceful shutdown, fencing by a second manager,
a cleanup that fails and is retried, inactive packages, scopes, cancellation and
reconciliation of jobs.

### ShellOutput

`React` is one of the reactions to located, finished, backgrounded or drained output;
`BeginPull`, `ReadChunk`, `EndRead` and `Record` are the puller's read of one source,
`BeginDrain` the read that the end of the session makes. `Write` is the shell, `Age` the
two-hour lifetime. A shell that `waits` truncates its file before its first write, so the
old content is not its output, and may truncate it again at any time: a command with several
redirects to one path is one following (`_unique_outputs` in `shell.py`). The location of an
output that is followed may be told again, which keeps the row. `lost` marks each way in which
the code drops output: the lifetime passed, the file was truncated again (what follows is read
from the old position on), the reaction to the end of the session failed or was cut off, or a
finishing source removed its row and file and then its record failed, the process stopped, or
the shell had written after the last read. One following is modelled; followings do not share
state.

## 3. Properties and runs

Every run sets CHECK_DEADLOCK FALSE: an idle daemon with no harness activity may stop, and the
bounds on the clock, failures and restarts end every behaviour.

| Run | Instance | Checks |
|---|---|---|
| `work_queue` | 2 kinds, 1 shared and 1 owned key, delays 0 to 2, clock to 2; about 83,000 states | `TypeOK`, `SleepCoversPromises`, `DeadlineKept`, `WorkDelivered`, `ShutdownReleases`, `RefinesNoticeBoard` |
| `engine_safety` | a transcript of 2 records, one of which translates to nothing, start, end and resume hooks, 1 failure, 1 restart; about 4.7 million states | `TypeOK`, `NoSilentBacklog`, `RecordsFormPrefix`, `ReactionsPrecedeFold`, `FoldIsPrefix`, `VerdictsKeepTheirFacts`, `RowsFollowJournal`, `InputReactionsRunOnce` |
| `engine_liveness` | 1 record, start and end hooks, 1 failure, 1 restart; about 73,000 states | `ImplementsFactJournal` |
| `engine_faults` | 2 records; the end hook's verdict and one fact's change can never be stored; 1 failure, 1 restart; about 106,000 states | `RecordsAreRead`, `OnlySuccessorsWait` |
| `started_sessions` | 2 records, a start hook, 1 restart | `StartedSessionsAreStored`, violated |
| `read_model` | 4 journals of 3 to 6 facts, pages of 2, 2 failures or stops, rebuilds, any listener and paint may fail; about 997,000 states | `TypeOK`, `RowsAreFolded`, `KeptStateIsCommitted`, `LifecycleFollowsFacts`, `TabsShowTheLead` |
| `session_stream` | 2 writers, 1 client, 2 facts, 3 rows, a budget and a page of 1, 1 lost connection; about 566,000 states | `TypeOK`, `NoLostWakeUp`, `NothingSkipped`, `OneViewPerStream`, `StreamConverges` |
| `stream_late` | the same with a client that names no row, no lost connection | `ReadersHaveTheirRows`, violated |
| `notifier` | 1 session, 3 status changes, delays 0 to 3, 1 failed scan; about 127,000 states | `TypeOK`, `IdleMeansDone`, `OneAlertPerChannel`, `StaleAlertsAreTakenBack`, `CallsAreAnsweredOrDropped` |
| `notifier_lost` | the same with 4 changes, no failure | `CallsAreAnswered`, violated |
| `extension_runtime` | 1 call, 1 command, 1 observation, a batch schedules 1 job, 1 operation, 1 failure, 1 restart; about 337,000 states | `TypeOK`, `BorrowedRuntimesStayOpen`, `JobsRunAtMostOnce`, `SwitchesEndAndWorkComesBack`, `AcceptedJobsEnd` |
| `shell_output` | a file of up to 4 bytes read in twos, 1 failure, 1 restart; about 1.3 million states | `TypeOK`, `ChunksAreContiguous`, `OutputIsRecorded` |

**Why these bounds are enough to be interesting.** Two kinds show a deadline of one kind
firing with a notice of another; two keys show an owner replacing its deadline beside a
shared one; three delays order a new deadline before, at and after an old one. In the
pipeline one session suffices for order within a source, and hooks are a second producer
that races with it; the first record repeats the start hook's fact, so every run has a
duplicate that arrives in both orders, and the record that translates to nothing tells a
notice of the RAW stage from one of the CANONICAL stage. One failure and one restart can
fall between any two steps. Several sessions, hooks and failures are covered by the proofs,
which have no bounds.

The journals of `read_model` are those where order matters: a session that ends with two
actors, two sessions in one page, a resumed session, an actor before its session, with
extension facts at, before and after a page's end. In `session_stream` a budget of one
entry makes every commit of two rows overflow, and three rows suffice for one that is
shown, one that is due and one that comes late; the second writer is what defers a
publication to somebody else's batch. Sessions of the notifier share nothing but the scan
and its wait; the third status change is the first that can meet an alert of the one before
the last. One call, command and observation are one of each kind of borrower; the operation
follows the restoration, so that there is a runtime to be replaced. The limit of one job is
the only one that two jobs can exceed. Four bytes are two full
reads, or a short one between two writes.

**Constants that are bounds only:** `MaxTime`, `MaxFailures`, `MaxCrashes`, `MaxFacts`,
`MaxRows`, `MaxDrops`, `MaxChanges`, `MaxOperations`, `MaxRestarts`, `MaxSize`.

**What the main properties say.**

- `SleepCoversPromises`: a sleeping worker has no notice, is not closed, and wakes no
  later than any deadline.
- `DeadlineKept`, `WorkDelivered`: producers of a shared key cannot postpone each other, and
  a notice and a shared deadline arrive. The deadline of an owned key does not stay as it is:
  it fires, or its owner moves or clears it, as often as it likes.
- `NoSilentBacklog`: a row without a verdict, an unfolded fact or an unread record of a
  running session has a notice, a retry, a stage of this batch or a thread that will
  find it. It is what "the worker waits when the queue is empty" needs.
- `RecordsFormPrefix`: failure or restart never make the puller skip a record.
- `VerdictsKeepTheirFacts`, `RowsFollowJournal`: verdicts and facts agree, and the stored
  lifecycle is the journal's, in every order of start, end, resume and insertion.
- `InputReactionsRunOnce`, `ReactionsPrecedeFold`: input reactions run at most once per
  fact, fold reactions at least once and before the fold.
- `ImplementsFactJournal`: with stages, notices, failures and restarts hidden, the tables
  behave as a journal whose backlog always drains.
- `OnlySuccessorsWait`: something that never succeeds holds up only its own successors.
- `RecordsAreRead`: a record of a running session is read, unless the session finishes
  first. The exception is real: a finished session is not watchable, so what its
  transcript got late stays unread until it is resumed.
- `RowsAreFolded`, `KeptStateIsCommitted`: where pages, failures, restarts and rebuilds fall
  makes no difference to the rows, and the state kept for a page is what was committed,
  not what was proposed.
- `LifecycleFollowsFacts`: no transform changes who runs and who has ended, also not
  through later facts that are folded onto what it changed.
- `TabsShowTheLead`: also after a drain that failed half way, unless the painter missed the
  session or the terminal refused the paint, which nobody repeats until the lead changes.
- `NoLostWakeUp`: a stream that waits has shown everything, or its notice is on the way.
- `NothingSkipped`: no position of a stream or of a client passes a row that it lacks,
  whatever the order of commits and the ends of pages.
- `OneViewPerStream`, `StreamConverges`: a stream never mixes two histories, and a client
  ends up with the tables once they rest, and with no row of an older history, unless it was
  `Unaware` of the switch. Without that exception TLC refutes it at once: rows that the switch
  removed stay on the page of a client that names no view. `stream_routes.py:58-60` promises
  otherwise only to a client that knows its view.
- `IdleMeansDone`, `OneAlertPerChannel`: a notifier without a deadline has nothing left to
  do, and no failure, escalation or retry doubles an alert.
- `StaleAlertsAreTakenBack`, `CallsAreAnsweredOrDropped`: what a session no longer asks is
  withdrawn, and what it asks is answered unless it was lost in one of three named ways: by
  the retraction of an earlier alert, in a send that raised after the alert left `pending`, or
  by a failed scan whose change was undone before the next one.
- `BorrowedRuntimesStayOpen`, `JobsRunAtMostOnce`: over any switch and restart.
- `SwitchesEndAndWorkComesBack`, `AcceptedJobsEnd`: kept work is done, candidates end, and
  jobs end unless they are `left`, also when a batch fails before it schedules them.
- `ChunksAreContiguous`, `OutputIsRecorded`: no byte is recorded twice or out of order, and
  one that is missing is among the losses listed above.

**Fairness.** `WorkQueue`: the worker thread runs when it can and the clock goes on; no
producer has to act. `EnginePipeline`: weak fairness of the worker, of the notice that
follows a committed request, and of the watch thread for an event it holds; strong
fairness of taking with the deadline of a kind fired, because a deadline passes while
the worker is busy as well as while it waits, and the first `take()` after that fires it
(`WorkDelivered`). Nothing obliges the harness to write, a hook to arrive, a call to fail
or the process to stop. `SessionStream`: weak fairness of every writer's publication and
deliveries, of the event loop's callbacks, of the generator that serves the stream and of a
client that connects again. `Notifier`: of the worker's scan, of the clock and of the
Telegram threads, whose calls have timeouts. `ExtensionRuntime`: of the background thread,
the deadline, the engine's and the executor's threads, and of HTTP calls, which end.
`ShellOutput`: of the engine's thread only. `ReadModel` states no liveness and needs none:
that the fold goes on is `ImplementsFactJournal`.

**The findings.** `started_sessions` checks what the docstring of
`SessionUpsertCanonicalEventReaction` and `docs/engine-events.md` say together: a start
event supplies a session's row, and a restart picks up the work stored before it. The
input reactions run after the transaction that accepts the fact and removes the raw event
from the backlog. A process that stops between the two leaves a start fact without a row;
later observations of that fact are duplicates and reach no reaction, and no stage goes
back to the journal for it. The session is never watched.

`stream_late` checks the docstring of `SqliteSessionDataRepository`: "Without an entry
cursor, the reader has every entry row at or before its canonical cursor." A dashboard whose
first page was empty names no entry row. A row that a projection commits late, at a cursor
the dashboard has, is then taken as had and is not sent on that stream. A pane names row 0
and is not affected.

`notifier_lost` checks "Publish and deliver transitions into canonical attention states" of
`notify/notifier.py`. A scan arms the alert of a new state and then retracts the stale
deliveries of that session; the retraction also forgets the alert just armed. A Telegram
alert is stale for one scan more than a push, because its deletion is pending, so a session
that asks again while its earlier alert is being deleted calls nobody.
`CallsAreAnsweredOrDropped` holds with this loss, that of a send that raised and that of a
failed scan excepted.

## 4. Proofs

TLAPS checks every theorem for all values of the constants under the named assumptions
(`KeysAssumption`, `DelaysAssumption`, ... in the modules that declare the constants; TLC
evaluates them in every run).

| Theorem | States |
|---|---|
| `WorkQueueProofs!TypeCorrect`, `NoLostWakeUp`, `DeadlinesAreKept` | the queue's invariants and `DeadlineKept` |
| `WorkQueueProofs!ImplementsNoticeBoard` | `Spec => RefinesNoticeBoard` |
| `EnginePipelineProofs!TypeCorrect`, `RecordsAreNotSkipped`, `ReadModelFollowsJournal`, `ReactionsComeFirst`, `VerdictsAreComplete`, `InputReactionsAreNotRepeated`, `LifecyclesFollowJournal` | the safety invariants of the runs |
| `EnginePipelineProofs!StepsFollowFactJournal` | every step is a step of `FactJournal` or a stutter |
| `EnginePipelineProofs!NothingWaitsUnseen` | `NoSilentBacklog` |
| `EnginePipelineProofs!SessionsAreLostByFaults` | a started session without a row is one that waits, or that a stop or a failed call lost |
| `ReadModelProofs!TypeCorrect`, `RowsFollowTheJournal`, `LoopKeepsWhatWasCommitted`, `TransformsSpareTheLifecycle` | types, `RowsAreFolded`, `KeptStateIsCommitted`, `LifecycleFollowsFacts` |
| `ReadModelProofs!TabsFollowTheLead` | `TabsShowTheLead`, with sessions that were missed or whose paint was refused excepted |
| `SessionStreamProofs!TypeCorrect`, `ViewsAreNotMixed` | types, `OneViewPerStream` |
| `SessionStreamProofs!RowsAreNotSkipped`, `NoticesAreNotLost` | `NothingSkipped` and `NoLostWakeUp` of clients that name row 0 (`EmptyPage = 0`) |
| `NotifierProofs!TypeCorrect`, `IdleWorkersAreDone`, `AlertsAreNotDoubled` | types, `IdleMeansDone`, `OneAlertPerChannel` |
| `NotifierProofs!WorkersWakeInTime`, `CallsAreNotForgotten` | a wait ends by every deadline it covers; a session that needs its user is told or let off, armed, about to be seen, or lost its alert in one of the named ways |
| `ExtensionRuntimeProofs!TypeCorrect`, `RuntimesStayOpen`, `CallsAreNotRepeated` | types, `BorrowedRuntimesStayOpen`, `JobsRunAtMostOnce` |
| `ExtensionRuntimeProofs!CandidatesAreNotForgotten`, `JobsAreNotForgotten` | a candidate has a notice or a retry; an accepted job a scheduler, a batch that is due, or it is `left` |
| `ShellOutputProofs!TypeCorrect`, `ChunksFollow` | types, `ChunksAreContiguous` |
| `ShellOutputProofs!OutputIsNotForgotten` | output that is not recorded yet has a notice or a read under way |

How they go:

- **The queue.** Type correctness and `SleepCoversPromises` are inductive together: each
  producer either wakes the worker or leaves it outside its wait, and a timeout computed
  as the minimum of all deadlines covers each of them. The refinement needs only types.
- **Types of the pipeline** need `TypeInv`: no source holds more records than its script
  (`WithinScript`), and what the worker holds says where it is (`WorkerPlace`): facts wait
  for input reactions only in the RAW stage, and a fact is marked as reacted only in the
  CANONICAL stage, is the next one of the journal and is among the effects.
- **`FoldInv`** is `ReactionsPrecedeFold` and `FoldIsPrefix` together; with `WorkerPlace`
  it is inductive, because only a reacted next fact is folded.
- **`ReactionInv`** makes `InputReactionsRunOnce` inductive: facts that wait for their
  reactions are distinct, are in the journal and have not run, and a fact that ran is in
  the journal, so no later translation accepts it again.
- **`SessionsAreLostByFaults`** states the cause of the finding `started_sessions` for every
  instance: no order of hooks, records, duplicates and stages leaves a started session
  without a row, only a stop before its input reactions or a call that failed. It uses
  `ReactionInv`: what waits has not run, so a restart that forgets it leaves it at 0 runs.
- **`StepsFollowFactJournal`** uses that the backlog is a suffix of the rows and its size
  is what `Decided` counts. This rests on the order in which `unverdicted` reads.
- **`BacklogInv`**: `NoSilentBacklog` alone is not inductive. A stage that fails leaves its
  successors to the rest of the batch (`BatchIsClosed`), and a session whose file is not
  watched yet relies on a coming SOURCES stage (`WatchedOrQueued`).
- `FactsProofs` has what is said of data: an accepted translation extends the journal and
  keeps it free of duplicates, and the lifecycle after a concatenation is that of its
  second part, or of the first if the second moves nothing.

- **The read model.** `Folded` is a recursive function of the journal. `FoldOfNothing` and
  `FoldOfNext` say what it computes: nothing at first, and one fact more for every step,
  whatever was done to later facts. They come from `FoldExists` and `FoldsAgree`, which are
  inductions over the journal; an induction is stated as a set of numbers that holds 0 and
  every successor (`NumbersByInduction`, from the well-foundedness of `<`). On this rest
  `RowsAreFolded` and `KeptStateIsCommitted`, which are inductive only with `SessionInv` (a
  session that began has a row, and the kept state has the stored session row: else a row
  would be read back as nothing) and `ReadableInv` (rows that are not read back are empty,
  unless an actor came before its session). `PlainInv` carries the fold without transforms
  along; it holds because a transform only touches displayed fields (`CommittedType`) and no
  writer reads those to decide who runs (`WriteLifecycle`).
- **The tabs.** `ShownInv`: the painter remembers what the tab shows, or refused to; what is still to be
  announced is the lead's row, and any other row is on its tab, counted as untold or refused.
- **The stream.** `NothingSkipped` excepts streams without an entry row, those that found
  a reset, and clients that load. It is made inductive by comparing positions with the
  client's rows at every step: `Linked` ties the stream's cursors to those of the client,
  `Requested` and `Streamed` say that below any row which the client has, its request names
  or the stream has reached, no row of its commits is missing or only in the frame. `PageFacts` is the heart: a page of `delta` holds all
  missing rows up to its cursor, because it ends between two commits. With `SessionInv`
  for the session row and `WakeInv` for the wait they give `NoLostWakeUp`; its lemmas are
  `GrowStep` (the engine adds rows at the end and owes a publication) and `NoticesStay`
  (a notice on its way stays on its way until the reader clears its event). `HeldInv` says
  that a page read at the current view has none of the rows that a switch removed, and that a
  client which names a view read its page at that view or later; so an aware client shows no
  row of an older history.
- **The notifier.** `ScanInv` says which states a scan works from until the next notice, and
  that a worker without a deadline left nothing armed and nothing stale; `AlertsInv`
  that an armed alert has not been sent on the channels it may still take. `WakesInTime`
  says what a timeout covers: `_next_delay` is the least of all deadlines (`NextDelayCovers`),
  and the clock brings all of them nearer alike. `HandledInv` follows each session through
  the phases of a scan: what has been resolved is behind an alert, armed or lost; what a
  failed scan had begun is in `redo` until a scan resolves it, or finds its change undone; and the states
  that the scan compares with are those of the last one that ended; the clock and the
  Telegram threads leave an armed alert armed (`ArmedStay`).
- **The extension runtime.** `RevisionsInv`: who borrows holds the active revision, the
  active one and the candidate are never among those that are gone, and no revision
  exceeds the last one given out. `CallsInv`: a job that is absent or accepted has not run.
  `SwitchesAreAwaited` is inductive as it stands: `prepare` puts a notice or a retry whenever it
  leaves the candidate behind, and a notice that was taken is still in the engine's hands at
  the boundary. `BatchDue` says that work is in the queue, behind a deadline or with the engine,
  which is where a failed batch leaves the jobs that it did not schedule. `SchedulesInv` adds to `AcceptedJobsAreScheduled` that the executor's set of
  queued jobs is what its queue and its thread hold, since a queued job is not put again.
- **Shell output.** `ReadInv`: the chunks of a read follow one another from where the stored
  ones end, and a drained source records nothing more. `ReadToTheEnd` says what a read that
  saw no later notice has found: at its end the position is the size, after an empty record
  everything is recorded. It rests on `FollowingInv`: a stored following has its watch
  registered before the read (`Watching`), its source is not drained (`StoredIsUnfinished`),
  and old content that a shell will truncate is not read (`OldContentIsSpared`). A record
  with chunks cannot end the read, because its last position is above the first.

Only model-checked: all liveness (`WorkDelivered`, `ShutdownReleases`, `RecordsAreRead`,
`OnlySuccessorsWait`, the fairness of `FactJournal` in `ImplementsFactJournal`,
`StreamConverges`, `StaleAlertsAreTakenBack`, `CallsAreAnsweredOrDropped`,
`SwitchesEndAndWorkComesBack`, `AcceptedJobsEnd`, `OutputIsRecorded`), which is out of the
prover's reach. Of most of them the safety part is proved, that whatever has to happen is
always in somebody's hands: `NoLostWakeUp` of the queue for `WorkDelivered`,
`StepsFollowFactJournal` and `NothingWaitsUnseen` for `ImplementsFactJournal` and
`RecordsAreRead`, `NoticesAreNotLost` for `StreamConverges`, `WorkersWakeInTime` for
`StaleAlertsAreTakenBack`, `CallsAreNotForgotten`, `CandidatesAreNotForgotten`,
`JobsAreNotForgotten` and `OutputIsNotForgotten` for the other four. These last five and
`SessionsAreLostByFaults` are stated in the proof modules, and no run names them. What is
left to fairness is that the hands move.

## 5. Where to go on

| Module | Composes with | Wanted |
|---|---|---|
| `HistorySwitch` | `SessionStream`'s `SwitchHistory` | preparation of a candidate while the journal grows, the refusals of `history_switch.py`; a candidate is promoted only onto the head it was folded from |
| `ExtensionCleanup` | `ExtensionRuntime` | fencing by a second manager, failed cleanup and its retry, graceful shutdown; no worker outlives its runtime |
| `MixedProcessing` | `EnginePipeline` | interpretation, projection and reactions with extension facts between the core stages; it refines `FactJournal` |

## 6. Not modelled

- **Pure functions of their input:** parsing of transcripts and screens in the harness
  plugins, the contents of entries, rendering, inference (a list of attempts computed from
  the providers' errors).
- **Presentation and packaging:** HTTP layer, dashboard, terminal, SDK, audit trail, quality
  rules. They keep no state on which the properties depend.
- **Interrupt fallback:** no harness of the repository marks an interrupt as unsettled; its
  registry stays empty.
- **Liveness and resume:** compares process and terminal tables that `src/` only reads. Its
  result, a finished session, is the end hook of `EnginePipeline`.
- **Naming worker:** claims a job at most once by design
  (`tests/test_automatic_naming_initial.py:29`), so a job that a stop interrupts stays
  unfinished on purpose; its wait is that of the notifier.
- **Mixed processing, projections, history preparation:** see 5.
- **SQLite** is trusted: a transaction is atomic, and a committed row survives a stop.

## 7. Running

    tlc -config MCEnginePipeline.cfg MCEnginePipeline.tla
    tlc -config MCStreamLate.cfg MCSessionStream.tla
    tlapm SessionStreamProofs.tla

The operators whose comment begins with *Defect* are not used by any specification. Each
is a mutation of the operator below it, a change that a plausible mistake in the code would
make; replacing one by the other makes TLC report the property that `PROJECT.json` names.
