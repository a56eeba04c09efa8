---- MODULE SessionStream ----
(***************************************************************************)
(* A client that follows one session, from the tables to its own copy.     *)
(*                                                                         *)
(* The engine thread folds facts (inside the signal's batch), commits late *)
(* rows of projections for facts already folded, and may switch the        *)
(* session to a new history.  A client reads a snapshot, then a page of    *)
(* entries, then a stream whose server side waits on the change signal and *)
(* reads deltas (SqliteSessionDataRepository.delta, session_entry_rows.py) *)
(* page by page.  Connections drop; the client connects again with what it *)
(* got.  Actor rows are stamped and sent like the session row, which       *)
(* stands for both.                                                        *)
(***************************************************************************)
EXTENDS ChangeSignal, Sequences, FiniteSets, FiniteSetsExt

CONSTANTS Client,       \* the subscription of the stream
          Engine,       \* the thread that folds, projects and switches
          Budget,       \* PAGE_CONTENT_BYTES, in entries
          PageLimit,    \* entries of the page that a client loads first
          EmptyPage,    \* the entry row that a client without entries names
          NoRow,        \* no after_entry in the request
          NoView,       \* no view_revision in the request
          MaxFacts, MaxRows, MaxDrops   \* bounds on facts, rows and lost connections

ASSUME ClientAssumption == Client \in Readers
ASSUME EngineAssumption == Engine \in Writers
ASSUME LimitsAssumption == Budget \in Nat /\ PageLimit \in Nat \ {0}
ASSUME BoundsAssumption == MaxFacts \in Nat /\ MaxRows \in Nat /\ MaxDrops \in Nat
ASSUME NoRowAssumption == NoRow \notin Nat /\ NoView \notin Nat
ASSUME EmptyPageAssumption == EmptyPage \in {0, NoRow}

VARIABLES
    \* tables of the session
    entries,    \* session_entries: the commit cursor of each row ever inserted
    live,       \* the first row of the current view; a switch deletes the older
    origin,     \* the first canonical cursor of the current history
    folded,     \* reaction_progress
    sessionRow, \* the revision of the session_data row, 0 without one
    view,       \* read_model_views
    \* the client
    client,     \* "away", "loading" after its snapshot, "loaded" after its page
    seen,       \* its canonical cursor: the snapshot's, then the last frame's
    base,       \* the after_entry of its requests
    oldest,     \* the feed place its first page starts at
    got,        \* rows it holds
    session,    \* revision of the session facts it shows
    knownView,  \* the view revision it names
    pageView,   \* history: the view that its first page was read from
    \* the server side of its stream
    stream,     \* see Places
    cursor, entryCursor, streamView,    \* SessionFrameState
    more,       \* more_to_read
    frame,      \* what the last read found
    received,   \* rows sent on this stream
    drops

tables == <<entries, live, origin, folded, sessionRow, view>>
browser == <<client, seen, base, oldest, got, session, knownView, pageView>>
server == <<stream, cursor, entryCursor, streamView, more, frame, received>>
vars == <<signal, tables, browser, server, drops>>

Places == {"closed", "looping", "reading", "sending", "waiting"}

Rows == {n \in DOMAIN entries : n >= live}

Frames == [rows : SUBSET Nat, session : Nat, cursor : Nat, reset : BOOLEAN, view : Nat]
NoFrame == [rows |-> {}, session |-> 0, cursor |-> 0, reset |-> FALSE, view |-> 0]

(* The types, and a subscription lives as long as its stream. *)
TypeOK ==
    /\ SignalTypeOK
    /\ entries \in Seq(Nat)
    /\ live \in Nat /\ origin \in Nat /\ folded \in Nat
    /\ sessionRow \in Nat /\ view \in Nat
    /\ client \in {"away", "loading", "loaded"}
    /\ seen \in Nat /\ base \in Nat \union {NoRow}
    /\ oldest \in Nat \X Nat
    /\ got \subseteq Nat /\ session \in Nat
    /\ knownView \in Nat \union {NoView} /\ pageView \in Nat
    /\ stream \in Places
    /\ cursor \in Nat /\ entryCursor \in Nat \union {NoRow}
    /\ streamView \in Nat \union {NoView}
    /\ more \in BOOLEAN
    /\ frame \in Frames
    /\ received \subseteq Nat
    /\ drops \in Nat
    /\ (Client \in listening) = (stream # "closed")

Init ==
    /\ SignalInit
    /\ entries = <<>> /\ live = 1 /\ origin = 1 /\ folded = 0
    /\ sessionRow = 0 /\ view = 0
    /\ client = "away" /\ seen = 0 /\ base = NoRow /\ oldest = <<0, 0>>
    /\ got = {} /\ session = 0 /\ knownView = NoView /\ pageView = 0
    /\ stream = "closed" /\ cursor = 0 /\ entryCursor = NoRow /\ streamView = NoView
    /\ more = FALSE /\ frame = NoFrame /\ received = {}
    /\ drops = 0

----
(* The engine thread. *)

(* A drain folds the next fact: new entries, a new session row, or neither, *)
(* which moves the progress and tells nobody.                               *)
Fold ==
    /\ Engine \in batching
    /\ folded < MaxFacts
    /\ folded' = folded + 1
    /\ \E count \in 0..2, changesSession \in BOOLEAN :
          /\ Len(entries) + count <= MaxRows
          /\ entries' = entries \o [k \in 1..count |-> folded']
          /\ sessionRow' = IF changesSession THEN folded' ELSE sessionRow
          /\ IF count > 0 \/ changesSession
             THEN Committed(Engine)
             ELSE Free(Engine) /\ UNCHANGED signal
    /\ UNCHANGED <<live, origin, view, browser, server, drops>>

(* A projection commits an entry of a fact that the core has folded.        *)
Project ==
    /\ Engine \notin batching
    /\ Len(entries) < MaxRows
    /\ \E commit \in origin..folded : entries' = Append(entries, commit)
    /\ Committed(Engine)
    /\ UNCHANGED <<live, origin, folded, sessionRow, view, browser, server, drops>>

(* switch_history: the rows of the session are replaced by those of facts   *)
(* that were stored after all it had.                                       *)
SwitchHistory ==
    /\ Engine \notin batching
    /\ folded < MaxFacts
    /\ Len(entries) < MaxRows
    /\ folded' = folded + 1
    /\ origin' = folded'
    /\ live' = Len(entries) + 1
    /\ entries' = Append(entries, folded')
    /\ sessionRow' = folded'
    /\ view' = view + 1
    /\ Committed(Engine)
    /\ UNCHANGED <<browser, server, drops>>

(* Another thread commits something that this session does not show.        *)
Unrelated(w) ==
    /\ w # Engine
    /\ Committed(w)
    /\ UNCHANGED <<tables, browser, server, drops>>

Drain == EnterBatch(Engine) /\ UNCHANGED <<tables, browser, server, drops>>

Signal(w) == /\ LeaveBatch(w) \/ Publish(w) \/ Deliver(w, Client)
             /\ UNCHANGED <<tables, browser, server, drops>>

LoopCallback == RunCallback(Client) /\ UNCHANGED <<tables, browser, server, drops>>

----
(* What one read finds. *)

(* Feed order: the fact that a row belongs to, then the row. *)
Before(place, other) ==
    place[1] < other[1] \/ (place[1] = other[1] /\ place[2] < other[2])

Place(n) == <<entries[n], n>>

(* known_row: what a reader at this cursor is taken to have.                *)
KnownRow(at) == Max({0} \union {n \in Rows : entries[n] <= at})

After(at, known) == {n \in Rows : entries[n] > at \/ n > known}

(* page_end: a read over its budget stops before the first new commit that  *)
(* does not fit, unless that commit is the first of the read.               *)
Overflows(rows, at) ==
    {n \in rows : /\ entries[n] > at
                  /\ \E m \in rows : entries[m] < entries[n]
                  /\ Cardinality({m \in rows : entries[m] <= entries[n]}) > Budget}

(* Defect: a page is cut between two entries of one commit. *)
CutPage(rows, at) ==
    {n \in rows : Cardinality({m \in rows : ~Before(Place(n), Place(m))}) <= Budget}

(* Every row of the commits before the first that overflows. *)
PageRows(rows, at) ==
    {n \in rows : \A m \in Overflows(rows, at) : entries[n] < entries[m]}

(* _delta_cursor: a stopped read ends at its last commit; a complete one at *)
(* the newest revision it found, older than the cursor if all it found is   *)
(* late rows.                                                               *)
PageCursor(rows, page, at, newSession) ==
    LET found == {entries[n] : n \in page}
                    \union (IF page = rows /\ newSession THEN {sessionRow} ELSE {})
    IN IF found = {} THEN at
       ELSE IF page = rows THEN Max(found) ELSE Max({at} \union found)

----
(* The stream. *)

(* session_frame_loop: subscribe, then start from the client's position.    *)
Open ==
    /\ client = "loaded"
    /\ stream = "closed"
    /\ Subscribe(Client)
    /\ stream' = "looping"
    /\ cursor' = seen /\ entryCursor' = base /\ streamView' = knownView
    /\ more' = FALSE /\ frame' = NoFrame /\ received' = {}
    /\ UNCHANGED <<tables, browser, drops>>

ClearEvent ==
    /\ stream = "looping"
    /\ Clear(Client)
    /\ stream' = "reading"
    /\ UNCHANGED <<tables, browser, cursor, entryCursor, streamView, more, frame, received, drops>>

(* Defect: a stream goes on over a switch of its session's history. *)
ViewIgnored == FALSE

(* session_iteration: the rows that this stream is about are gone. *)
ViewReplaced == streamView # NoView /\ streamView # view

(* session_iteration: one transaction reads the delta and the view.         *)
Read ==
    /\ stream = "reading"
    /\ stream' = "sending"
    /\ LET known == IF entryCursor = NoRow THEN KnownRow(cursor) ELSE entryCursor
           rows == After(cursor, known)
           page == PageRows(rows, cursor)
           newSession == sessionRow > cursor
       IN /\ frame' = [rows |-> page,
                       session |-> IF newSession THEN sessionRow ELSE 0,
                       cursor |-> PageCursor(rows, page, cursor, newSession),
                       reset |-> ViewReplaced,
                       view |-> view]
          /\ entryCursor' = Max({known} \union page)
          /\ more' = (page # rows)
          /\ streamView' = IF streamView = NoView THEN view ELSE streamView
          /\ cursor' = IF ViewReplaced THEN cursor ELSE frame'.cursor
    /\ UNCHANGED <<signal, tables, browser, received, drops>>

(* Defect: the event is cleared when the read is done, not before it. *)
ClearAfterSending ==
    /\ stream = "sending"
    /\ ~frame.reset
    /\ Clear(Client)
    /\ got' = got \union frame.rows
    /\ received' = received \union frame.rows
    /\ session' = IF frame.session = 0 THEN session ELSE frame.session
    /\ seen' = frame.cursor
    /\ stream' = IF more THEN "looping" ELSE "waiting"
    /\ frame' = NoFrame
    /\ UNCHANGED <<tables, client, base, oldest, knownView, pageView,
                   cursor, entryCursor, streamView, more, drops>>

(* The frame arrives; a read that stopped reads again without a notice.     *)
Send ==
    /\ stream = "sending"
    /\ ~frame.reset
    /\ got' = got \union frame.rows
    /\ received' = received \union frame.rows
    /\ session' = IF frame.session = 0 THEN session ELSE frame.session
    /\ seen' = frame.cursor
    /\ stream' = IF more THEN "looping" ELSE "waiting"
    /\ frame' = NoFrame
    /\ UNCHANGED <<signal, tables, client, base, oldest, knownView, pageView,
                   cursor, entryCursor, streamView, more, drops>>

Close == Unsubscribe(Client) /\ stream' = "closed" /\ frame' = NoFrame

(* A reset ends the stream; the client drops its rows.  The dashboard names *)
(* the new view from now on, the terminal pane never names one.             *)
SendReset ==
    /\ stream = "sending"
    /\ frame.reset
    /\ Close
    /\ client' = "away"
    /\ knownView' \in {frame.view, NoView}
    /\ UNCHANGED <<tables, seen, base, oldest, got, session, pageView,
                   cursor, entryCursor, streamView, more, received, drops>>

Wake ==
    /\ stream = "waiting"
    /\ Client \in ready
    /\ stream' = "looping"
    /\ UNCHANGED <<signal, tables, browser, cursor, entryCursor, streamView, more, frame,
                   received, drops>>

----
(* The client. *)

Newest == Max({sessionRow} \union {entries[n] : n \in Rows})

(* readSession, _pane_connection.connect: a fresh model and its cursor.     *)
Snapshot ==
    /\ client = "away"
    /\ sessionRow > 0
    /\ client' = "loading"
    /\ seen' = Newest
    /\ session' = sessionRow
    /\ got' = {}
    /\ UNCHANGED <<signal, tables, base, oldest, knownView, pageView, server, drops>>

(* entries_page: the newest entries of the commits that the snapshot had.   *)
IsFirstPage(page, available) ==
    /\ page \subseteq available
    /\ \A n \in page, m \in available \ page : Before(Place(m), Place(n))
    /\ Cardinality(page) = IF Cardinality(available) < PageLimit
                           THEN Cardinality(available) ELSE PageLimit

LoadPage ==
    /\ client = "loading"
    /\ client' = "loaded"
    /\ pageView' = view
    /\ LET available == {n \in Rows : entries[n] <= seen}
       IN \E page \in SUBSET available :
             /\ IsFirstPage(page, available)
             /\ got' = page
             /\ base' = IF page = {} THEN EmptyPage ELSE Max(page)
             /\ \/ page = available /\ oldest' = <<0, 0>>
                \/ /\ page # available
                   /\ \E n \in page : /\ \A m \in page : ~Before(Place(m), Place(n))
                                     /\ oldest' = Place(n)
    /\ UNCHANGED <<signal, tables, seen, session, knownView, server, drops>>

(* A lost connection loses the frame on its way.  EventSource asks again    *)
(* with the same address and its last cursor, StreamRecovery with the rows  *)
(* the view has now, and a pane starts afresh.                              *)
Disconnect ==
    /\ stream # "closed"
    /\ drops < MaxDrops
    /\ drops' = drops + 1
    /\ Close
    /\ \/ UNCHANGED <<client, base>>
       \/ client' = client /\ base' = IF got = {} THEN EmptyPage ELSE Max(got)
       \/ client' = "away" /\ base' = base
    /\ UNCHANGED <<tables, seen, oldest, got, session, knownView, pageView,
                   cursor, entryCursor, streamView, more, received>>

Serve == ClearEvent \/ Read \/ Send \/ SendReset \/ Wake
Follow == Snapshot \/ LoadPage \/ Open

Next ==
    \/ Fold \/ Project \/ SwitchHistory
    \/ \E w \in Writers : Unrelated(w) \/ Signal(w)
    \/ Drain \/ LoopCallback
    \/ Serve \/ Follow \/ Disconnect

(* Threads and the event loop run; a drain ends when it finds no more       *)
(* facts; a client that is away connects again.                             *)
Fairness ==
    /\ \A w \in Writers : WF_vars(Signal(w))
    /\ WF_vars(LoopCallback)
    /\ WF_vars(Serve)
    /\ WF_vars(Follow)

Spec == Init /\ [][Next]_vars /\ Fairness

----
(* Properties. *)

(* What the client holds, or has in the frame on its way to it, or does not *)
(* show because its first page starts after it.                             *)
Shown(n) == n \in got \union frame.rows \/ Before(Place(n), oldest)

(* The session's history was replaced after the client read its page, and   *)
(* the client names no view by which a new stream could tell.               *)
Unaware == knownView = NoView /\ pageView # view

(* The client shows what the tables hold, and nothing of an older history   *)
(* unless it is unaware of the switch.                                      *)
UpToDate ==
    /\ streamView = view
    /\ \A n \in Rows : Shown(n)
    /\ session = sessionRow
    /\ got \subseteq Rows \/ Unaware

(* A stream that waits for a notice has shown everything, or the notice is  *)
(* on its way: subscribe, clear and read come in an order (change_signal.py *)
(* 79-83, stream_session_frames.py 80-97) in which no commit falls between. *)
NoLostWakeUp == stream = "waiting" => UpToDate \/ Coming(Client)

(* A stream's position never passes a row that the client lacks: the page   *)
(* of a read ends between commits, and the next read, or the stream after a *)
(* lost connection, starts where rows are still missing (delta, page_end).  *)
NothingSkipped ==
    /\ stream # "closed" /\ entryCursor # NoRow /\ ~frame.reset /\ streamView \in {view, NoView}
          => \A n \in Rows : entries[n] <= cursor /\ n <= entryCursor => Shown(n)
    /\ client = "loaded" /\ base # NoRow
          => \A n \in Rows : entries[n] <= seen /\ n <= base => Shown(n)

(* Rows of two histories never meet in one stream: the read that finds      *)
(* another view revision ends it (stream_session_frames.py 129-134).        *)
OneViewPerStream == \A n, m \in received : n < live => m < live

(* Once the session's tables stop changing (the bounds stop them) the       *)
(* client comes to show what they hold and no rows of an older history,     *)
(* whatever the order of commits, late rows, switches, notices and lost     *)
(* connections was before.  Only a client that names no view keeps the rows *)
(* of its page over a switch before its stream or between two streams: the  *)
(* server takes the view it finds (stream_session_frames.py 129-134).       *)
StreamConverges == <>[](sessionRow > 0 => UpToDate)

(* session_data.py:288: "Without an entry cursor, the reader has every      *)
(* entry row at or before its canonical cursor."                            *)
ReadersHaveTheirRows ==
    stream = "reading" /\ entryCursor = NoRow
        => \A n \in Rows : entries[n] <= cursor => Shown(n)
====
