---- MODULE ReadModel ----
(***************************************************************************)
(* The reaction loop writes the read model: one page of facts after the    *)
(* other, each fact in a transaction of its own together with the progress *)
(* mark (engine/react/loop_runtime.py, loop_materialization.py).  Between  *)
(* the facts of a page the loop works from the state it kept, not from the *)
(* rows.  A transform of an extension may edit or drop a proposed row      *)
(* before it is committed.  What a drain changed is announced at its end;  *)
(* the listener paints the session's tab.  With the daemon stopped, an     *)
(* operator may have the rows folded again from the first fact.            *)
(***************************************************************************)
EXTENDS Naturals, Sequences, FiniteSets

CONSTANTS Sessions, Actors,
          Lead,         \* the actor that the tab of a session shows
          None,         \* no row
          Scripts,      \* the journals considered: sequences of Facts
          PageSize,     \* REACTION_BATCH_SIZE
          MaxFailures   \* bound on failed commits and crashes

Kinds == {"session_started", "session_finished", "account_changed",
          "actor_started", "actor_finished", "reasoning", "extension"}

Facts == [kind : Kinds, session : Sessions, actor : Actors]

ASSUME ScriptsAssumption == Scripts \subseteq Seq(Facts)
ASSUME LeadAssumption == Lead \in Actors /\ "session" \notin Actors
ASSUME PageAssumption == PageSize \in Nat \ {0} /\ MaxFailures \in Nat

VARIABLES
    journal,    \* current_canonical_events of the default history
    stored,     \* how many of its facts are stored so far
    rows,       \* session_data and session_data_actors
    progress,   \* reaction_progress
    mode,       \* "idle", "draining", "down" or "rebuilding"
    page,       \* cursors of the page that are not handled yet
    states,     \* the page's in-memory aggregates, None when not read
    batch,      \* AppliedActorBatch: the lead row to announce for each session
    painted,    \* TabColorPainter._painted
    tab,        \* what the terminal shows
    edits,      \* history: what transforms did to each committed fact
    unpainted,  \* history: sessions whose rows changed with nobody to tell
    refused,    \* history: sessions whose last paint failed
    failures

vars == <<journal, stored, rows, progress, mode, page, states, batch, painted, tab,
          edits, unpainted, refused, failures>>

Cursors == 1..Len(journal)
IsCore(n) == journal[n].kind # "extension"

SessionRows == [state : {"running", "finished"}, account : {"first", "second", "edited"}]
ActorRows == [state : {"running", "finished"}, status : {"idle", "working", "edited", None}]
Aggregates == [session : SessionRows \union {None}, actors : [Actors -> ActorRows \union {None}]]
ASSUME NoneAssumption ==
    /\ None \notin SessionRows \union ActorRows \union Aggregates
    /\ None \notin {"running", "finished", "idle", "working", "edited", "clear"}

Empty == [session |-> None, actors |-> [a \in Actors |-> None]]

Targets == {"session"} \union Actors
Edits == [drop : SUBSET Targets, edit : SUBSET Targets]
Untouched == [drop |-> {}, edit |-> {}]

TypeOK ==
    /\ journal \in Scripts
    /\ stored \in 0..Len(journal) /\ progress \in 0..stored
    /\ rows \in [Sessions -> Aggregates]
    /\ mode \in {"idle", "draining", "down", "rebuilding"}
    /\ page \in Seq(Cursors)
    /\ states \in [Sessions -> Aggregates \union {None}]
    /\ batch \in [Sessions -> ActorRows \union {None}]
    /\ painted \in [Sessions -> {"idle", "working", "edited", "clear", None}]
    /\ tab \in [Sessions -> {"idle", "working", "edited", "clear"}]
    /\ edits \in [Cursors -> Edits]
    /\ unpainted \subseteq Sessions /\ refused \subseteq Sessions
    /\ failures \in 0..MaxFailures

Init ==
    /\ journal \in Scripts
    /\ stored = 0
    /\ rows = [s \in Sessions |-> Empty]
    /\ progress = 0
    /\ mode = "idle"
    /\ page = <<>>
    /\ states = [s \in Sessions |-> None]
    /\ batch = [s \in Sessions |-> None]
    /\ painted = [s \in Sessions |-> None]
    /\ tab = [s \in Sessions |-> "clear"]
    /\ edits = [n \in Cursors |-> Untouched]
    /\ unpainted = {} /\ refused = {}
    /\ failures = 0

----
(* The writers: pure folds of one fact. *)

WriteSession(fact, session) ==
    IF fact.kind = "session_started"
    THEN IF session = None THEN [state |-> "running", account |-> "first"]
         ELSE [session EXCEPT !.state = "running"]
    ELSE IF session = None THEN None
    ELSE IF fact.kind = "session_finished" THEN [session EXCEPT !.state = "finished"]
    ELSE IF fact.kind = "account_changed" THEN [session EXCEPT !.account = "second"]
    ELSE session

Change(fact, actor) ==
    CASE fact.kind = "actor_started" ->
            IF actor = None \/ actor.status = None THEN [state |-> "running", status |-> "idle"]
            ELSE [actor EXCEPT !.state = "running"]
      [] fact.kind = "actor_finished" /\ actor # None -> [actor EXCEPT !.state = "finished"]
      [] fact.kind = "reasoning" /\ actor # None -> [actor EXCEPT !.status = "working"]
      [] fact.kind = "session_started" /\ actor # None -> [actor EXCEPT !.status = "idle"]
      [] OTHER -> actor

(* The end of a session ends all its actors. *)
WriteActor(fact, a, actor) ==
    IF fact.kind = "session_finished"
    THEN IF actor = None THEN None ELSE [state |-> "finished", status |-> None]
    ELSE IF a = fact.actor THEN Change(fact, actor) ELSE actor

Write(fact, before) ==
    [session |-> WriteSession(fact, before.session),
     actors |-> [a \in Actors |-> WriteActor(fact, a, before.actors[a])]]

----
(* Transforms. *)

Row(state, target) == IF target = "session" THEN state.session ELSE state.actors[target]

Changed(before, after) == {t \in Targets : Row(before, t) # Row(after, t)}

(* Defect: any proposed row may be dropped. *)
AnyChange(before, after) == Changed(before, after)

(* validate_core_drop: only a change of what is displayed may be dropped.   *)
Droppable(before, after) ==
    {t \in Changed(before, after) :
        Row(before, t) # None /\ Row(before, t).state = Row(after, t).state}

(* At most one operation of one transform: others compose the same way.     *)
Operations(before, after) ==
    {Untouched}
        \union {[drop |-> {t}, edit |-> {}] : t \in Droppable(before, after)}
        \union {[drop |-> {}, edit |-> {t}] : t \in Changed(before, after)}

EditedSession(row) == [row EXCEPT !.account = "edited"]
EditedActor(row) == [row EXCEPT !.status = "edited"]

(* committed_core_changes: what the transaction writes. *)
Committed(before, after, e) ==
    [session |-> IF "session" \in e.drop THEN before.session
                 ELSE IF "session" \in e.edit THEN EditedSession(after.session)
                 ELSE after.session,
     actors |-> [a \in Actors |->
                    IF a \in e.drop THEN before.actors[a]
                    ELSE IF a \in e.edit THEN EditedActor(after.actors[a])
                    ELSE after.actors[a]]]

(* Defect: the loop goes on from its own proposal. *)
ProposedState(before, after, e) == after

(* _committed_state: the state kept for the page is what was committed. *)
KeptState(before, after, e) == Committed(before, after, e)

(* SqliteSessionDataRepository.read: nothing without a session row. *)
Stored(s) == IF rows[s].session = None THEN Empty ELSE rows[s]

(* Rows are written by key: rows that the loop did not see stay. *)
Saved(old, before, committed) ==
    [session |-> IF committed.session = before.session THEN old.session ELSE committed.session,
     actors |-> [a \in Actors |->
                    IF committed.actors[a] = before.actors[a] THEN old.actors[a]
                    ELSE committed.actors[a]]]

----
(* The loop. *)

StoreFact ==
    /\ stored < Len(journal)
    /\ stored' = stored + 1
    /\ UNCHANGED <<journal, rows, progress, mode, page, states, batch, painted, tab,
                   edits, unpainted, refused, failures>>

Drain ==
    /\ mode = "idle"
    /\ progress < stored
    /\ mode' = "draining"
    /\ batch' = [s \in Sessions |-> None]
    /\ UNCHANGED <<journal, stored, rows, progress, page, states, painted, tab,
                   edits, unpainted, refused, failures>>

(* tick, and a page of rebuild: the states are those of the page. *)
LoadPage ==
    /\ mode \in {"draining", "rebuilding"}
    /\ page = <<>>
    /\ progress < stored
    /\ page' = [k \in 1..(IF stored - progress < PageSize THEN stored - progress ELSE PageSize)
                   |-> progress + k]
    /\ states' = [s \in Sessions |-> None]
    /\ UNCHANGED <<journal, stored, rows, progress, mode, batch, painted, tab,
                   edits, unpainted, refused, failures>>

(* Defect: progress moves over the page's extension facts ahead of its core facts. *)
SkipExtensionEarly ==
    /\ page # <<>>
    /\ \E k \in DOMAIN page :
          /\ ~IsCore(page[k])
          /\ progress' = page[k]
          /\ page' = SubSeq(page, k + 1, Len(page))
    /\ UNCHANGED <<journal, stored, rows, mode, states, batch, painted, tab,
                   edits, unpainted, refused, failures>>

(* advance_past_extensions: refused while a core fact before it is unfolded. *)
SkipExtension ==
    /\ page # <<>>
    /\ ~IsCore(Head(page))
    /\ \A n \in Cursors : progress < n /\ n < Head(page) => ~IsCore(n)
    /\ progress' = Head(page)
    /\ page' = Tail(page)
    /\ UNCHANGED <<journal, stored, rows, mode, states, batch, painted, tab,
                   edits, unpainted, refused, failures>>

(* _materialize: rows and progress in one transaction, then the kept state  *)
(* and, in a drain, what will be announced.                                 *)
Materialize ==
    /\ page # <<>>
    /\ IsCore(Head(page))
    /\ LET n == Head(page)
           s == journal[n].session
           before == IF states[s] = None THEN Stored(s) ELSE states[s]
           after == Write(journal[n], before)
       IN \E e \in IF mode = "draining" THEN Operations(before, after) ELSE {Untouched} :
             LET committed == Committed(before, after, e)
             IN /\ rows' = [rows EXCEPT ![s] = Saved(@, before, committed)]
                /\ states' = [states EXCEPT ![s] = KeptState(before, after, e)]
                /\ batch' = IF mode = "draining" /\ committed.actors[Lead] # before.actors[Lead]
                            THEN [batch EXCEPT ![s] = committed.actors[Lead]] ELSE batch
                /\ edits' = [edits EXCEPT ![n] = e]
    /\ progress' = Head(page)
    /\ page' = Tail(page)
    /\ UNCHANGED <<journal, stored, mode, painted, tab, unpainted, refused, failures>>

(* Defect: an ended session's tab is painted with no colour, not cleared. *)
Status(row) == row.status

Colour(row) == IF row.status = None THEN "clear" ELSE row.status

Discard == page' = <<>> /\ states' = [s \in Sessions |-> None]

(* Defect: only a drain that ended well announces. *)
Forget == UNCHANGED <<painted, tab, unpainted, refused>>

(* _notify_actor_batch, TabColorPainter.applied: a colour is painted once.  *)
(* A listener's exception is swallowed: a session that is not found or has  *)
(* no lead is missed.  The colour is noted before the terminal is asked to  *)
(* paint, and what the terminal answers is not looked at.                   *)
Announce ==
    LET told == {s \in Sessions : batch[s] # None}
    IN \E missed \in SUBSET told :
       LET reached == told \ missed
           repainted == {s \in reached : painted[s] # Colour(batch[s])}
       IN \E failed \in SUBSET repainted :
             /\ painted' = [s \in Sessions |-> IF s \in reached THEN Colour(batch[s]) ELSE painted[s]]
             /\ tab' = [s \in Sessions |-> IF s \in repainted \ failed THEN Colour(batch[s]) ELSE tab[s]]
             /\ unpainted' = (unpainted \ reached) \union missed
             /\ refused' = (refused \ repainted) \union failed

(* Nothing is left to read, or the daemon stops between two pages. *)
EndDrain ==
    /\ mode = "draining"
    /\ page = <<>>
    /\ mode' \in IF progress = stored THEN {"idle", "down"} ELSE {"down"}
    /\ Announce
    /\ batch' = [s \in Sessions |-> None]
    /\ UNCHANGED <<journal, stored, rows, progress, page, states, edits, failures>>

AnnounceAfterFailure == Announce

(* A commit fails: the exception leaves the drain, which still announces.   *)
DrainFails ==
    /\ mode = "draining"
    /\ page # <<>>
    /\ failures < MaxFailures
    /\ failures' = failures + 1
    /\ mode' = "idle"
    /\ Discard
    /\ AnnounceAfterFailure
    /\ batch' = [s \in Sessions |-> None]
    /\ UNCHANGED <<journal, stored, rows, progress, edits>>

(* The process ends at any point.  The tabs stay as they are.               *)
Crash ==
    /\ mode # "down"
    /\ failures < MaxFailures
    /\ failures' = failures + 1
    /\ mode' = "down"
    /\ Discard
    /\ unpainted' = unpainted \union {s \in Sessions : batch[s] # None}
    /\ batch' = [s \in Sessions |-> None]
    /\ painted' = [s \in Sessions |-> None]
    /\ UNCHANGED <<journal, stored, rows, progress, tab, edits, refused>>

Start ==
    /\ mode = "down"
    /\ mode' = "idle"
    /\ painted' = [s \in Sessions |-> None]
    /\ UNCHANGED <<journal, stored, rows, progress, page, states, batch, tab,
                   edits, unpainted, refused, failures>>

(* cli_rebuild, clear: refused while the daemon runs. *)
Clear ==
    /\ mode = "down"
    /\ mode' = "rebuilding"
    /\ rows' = [s \in Sessions |-> Empty]
    /\ progress' = 0
    /\ unpainted' = Sessions
    /\ UNCHANGED <<journal, stored, page, states, batch, painted, tab, edits, refused, failures>>

EndRebuild ==
    /\ mode = "rebuilding"
    /\ page = <<>>
    /\ progress = stored
    /\ mode' = "down"
    /\ UNCHANGED <<journal, stored, rows, progress, page, states, batch, painted, tab,
                   edits, unpainted, refused, failures>>

Next ==
    \/ StoreFact \/ Drain \/ LoadPage \/ SkipExtension \/ Materialize
    \/ EndDrain \/ DrainFails \/ Crash \/ Start \/ Clear \/ EndRebuild

Spec == Init /\ [][Next]_vars

----
(* Properties. *)

(* The fold of the facts behind the progress mark, one after the other. *)
Folded(e) ==
    LET fold[n \in 0..progress] ==
            IF n = 0 THEN [s \in Sessions |-> Empty]
            ELSE IF ~IsCore(n) THEN fold[n - 1]
            ELSE [fold[n - 1] EXCEPT ![journal[n].session] =
                     Committed(@, Write(journal[n], @), e[n])]
    IN fold[progress]

(* An actor was announced before its session: its row is not read back.     *)
Orphaned(s) ==
    \E n \in 1..progress :
        /\ journal[n].kind = "actor_started" /\ journal[n].session = s
        /\ \A m \in 1..(n - 1) : journal[m].session = s => journal[m].kind # "session_started"

(* Where pages, drains, failures, restarts and rebuilds fall makes no       *)
(* difference to the rows: they are the fold of every core fact behind the  *)
(* progress mark (contract.py:9, session_data_progress.py:53).              *)
RowsAreFolded == \A s \in Sessions : ~Orphaned(s) => rows[s] = Folded(edits)[s]

(* The state kept in memory is the rows that were committed, whatever a     *)
(* transform dropped or edited (loop_materialization.py:45).                *)
KeptStateIsCommitted ==
    page # <<>> => \A s \in Sessions :
        ~Orphaned(s) /\ states[s] # None => states[s] = rows[s]

(* Transforms change what is displayed, never who runs and who has ended:   *)
(* also not through the later facts that are folded onto what they changed. *)
LifecycleFollowsFacts ==
    LET untransformed == Folded([n \in Cursors |-> Untouched])
        State(row) == IF row = None THEN None ELSE row.state
    IN \A s \in Sessions : ~Orphaned(s) =>
           \A t \in Targets : State(Row(rows[s], t)) = State(Row(untransformed[s], t))

(* Between drains a tab shows the state of its session's lead, also after a *)
(* drain that failed half way, unless the painter was not told or did not   *)
(* find the session (the process ended, the rows were rebuilt, the lookup   *)
(* failed) or the terminal refused the last paint, which nobody repeats     *)
(* until the lead has another state (tabs.py:72-83, loop_runtime.py:28-31). *)
TabsShowTheLead ==
    mode = "idle" => \A s \in Sessions \ (unpainted \union refused) :
        rows[s].actors[Lead] # None => tab[s] = Colour(rows[s].actors[Lead])
====
