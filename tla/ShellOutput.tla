---- MODULE ShellOutput ----
(***************************************************************************)
(* The following of one shell's output file.  Reactions to facts create    *)
(* the stored following, end it or prolong it; the puller reads the file   *)
(* in chunks and records them as raw events, and resumes after the         *)
(* position of the last one.  All of this runs on the engine's thread; the *)
(* shell writes the file meanwhile.  Bytes are numbered, the chunk         *)
(* [start, end] holds start + 1 to end.  The file watch is external.       *)
(***************************************************************************)
EXTENDS Naturals, Sequences, SequencesExt

CONSTANTS None, Finished,   \* no position, and the position of a drained source
          InitialSize,      \* of the file, when the shell starts
          ReadSize, MaxSize, MaxFailures, MaxRestarts   \* bounds

ASSUME SizesAssumption == InitialSize \in Nat /\ ReadSize \in Nat \ {0}
ASSUME PositionsAssumption == None \notin Nat /\ Finished \notin Nat /\ None # Finished

VARIABLES
    size, exists, changed,   \* the file; changed since the shell started
    waits,                   \* the shell truncates the file, its old content is not output
    following,               \* the stored row
    told,                    \* facts that reacted
    notice, watched,         \* a SOURCES notice; the file is watched
    old,                     \* the following is at its maximum lifetime
    recorded,                \* stored raw events of the source
    step,                    \* "idle", "reading", "ended", "recording"
    draining,                \* the read is that of the SessionFinished reaction
    held, position, next, chunks,   \* of the read: row, positions, chunks so far
    lost,                    \* history: output was dropped, see OutputIsRecorded
    failures, restarts

file == <<size, exists, changed, waits>>
reader == <<step, draining, held, position, next, chunks>>
bounds == <<failures, restarts>>
vars == <<file, following, told, notice, watched, old, recorded, reader, lost, bounds>>

Facts == {"located", "shell_finished", "backgrounded", "output_finished", "session_finished"}
Followings == [until : {"shell_finished", "session_finished"}, finishing : BOOLEAN, deletes : BOOLEAN]
Positions == Nat \union {None, Finished}
Chunk == [start : Nat, end : Nat, position : Positions]

TypeOK ==
    /\ size \in Nat /\ exists \in BOOLEAN /\ changed \in BOOLEAN /\ waits \in BOOLEAN
    /\ following \in Followings \union {None}
    /\ told \subseteq Facts
    /\ notice \in BOOLEAN /\ watched \in BOOLEAN /\ old \in BOOLEAN
    /\ recorded \in Seq(Chunk) /\ chunks \in Seq(Chunk)
    /\ step \in {"idle", "reading", "ended", "recording"}
    /\ draining \in BOOLEAN
    /\ held \in Followings \union {None}
    /\ position \in Positions /\ next \in Nat
    /\ lost \in BOOLEAN
    /\ failures \in Nat /\ restarts \in Nat

Init ==
    /\ size = InitialSize /\ exists = TRUE /\ changed = FALSE
    /\ waits \in BOOLEAN
    /\ following = None
    /\ told = {}
    /\ notice = TRUE /\ watched = FALSE /\ old = FALSE
    /\ recorded = <<>>
    /\ step = "idle" /\ draining = FALSE
    /\ held = None /\ position = None /\ next = 0 /\ chunks = <<>>
    /\ lost = FALSE /\ failures = 0 /\ restarts = 0

----
(* The shell and the time. *)

(* The first write of a shell that waits truncates the file. *)
Write ==
    /\ exists
    /\ size < MaxSize
    /\ size' = IF waits /\ ~changed THEN 1 ELSE size + 1
    /\ changed' = TRUE
    /\ notice' = (notice \/ watched)
    /\ UNCHANGED <<exists, waits, following, told, watched, old, recorded, reader, lost, bounds>>

(* A later redirect of the command to the path truncates it again; what is  *)
(* written then is not output at positions that were read before.           *)
Truncate ==
    /\ exists /\ waits /\ changed
    /\ size > 0
    /\ size' = 0
    /\ notice' = (notice \/ watched)
    /\ lost' = TRUE
    /\ UNCHANGED <<exists, changed, waits, following, told, watched, old, recorded, reader, bounds>>

(* The deadline of the lifetime is a SOURCES notice. *)
Age ==
    /\ following # None
    /\ ~old
    /\ old' = TRUE
    /\ notice' = TRUE
    /\ UNCHANGED <<file, following, told, watched, recorded, reader, lost, bounds>>

----
(* Reactions. *)

(* save keeps a row that is there. *)
StartFollowing ==
    IF following # None
    THEN UNCHANGED <<following, old>>
    ELSE /\ \E f \in Followings : ~f.finishing /\ following' = f
         /\ old' = FALSE

(* mark_shell_finished *)
MarkShellFinished ==
    following' = IF following # None /\ following.until = "shell_finished"
                 THEN [following EXCEPT !.finishing = TRUE] ELSE following

(* mark_finishing *)
MarkFinishing ==
    following' = IF following # None THEN [following EXCEPT !.finishing = TRUE] ELSE following

(* outlive_shell *)
OutliveShell ==
    following' = IF following # None
                 THEN [following EXCEPT !.until = "session_finished", !.finishing = FALSE]
                 ELSE following

(* Every write of the row is a SOURCES notice. The location of an output    *)
(* that is followed may be told again.                                      *)
React(fact) ==
    /\ step = "idle"
    /\ fact \in Facts \ {"session_finished"}
    /\ fact \notin told \/ (fact = "located" /\ following # None)
    /\ told' = told \union {fact}
    /\ \/ fact = "located" /\ StartFollowing
       \/ fact = "shell_finished" /\ MarkShellFinished /\ UNCHANGED old
       \/ fact = "backgrounded" /\ OutliveShell /\ UNCHANGED old
       \/ fact = "output_finished" /\ MarkFinishing /\ UNCHANGED old
    /\ notice' = TRUE
    /\ UNCHANGED <<file, watched, recorded, reader, lost, bounds>>

(* A reaction raises: the fact is committed and does not come again.        *)
ReactionFails(fact) ==
    /\ failures < MaxFailures
    /\ failures' = failures + 1
    /\ step = "idle"
    /\ fact \in Facts \ told
    /\ told' = told \union {fact}
    /\ lost' = (lost \/ fact = "session_finished")
    /\ UNCHANGED <<file, following, notice, watched, old, recorded, reader, restarts>>

----
(* Reads. *)

(* latest_positions *)
LatestPosition == IF recorded = <<>> THEN None ELSE Last(recorded).position

(* Defect: a source without a position is read as if it had one. *)
AlwaysResume(p) == p

(* The head of read: whether it comes to the file, and where it starts.     *)
Readable(p) == p # Finished /\ (p = None /\ waits => changed)
Start(p) == IF p # None THEN p ELSE IF waits THEN 0 ELSE InitialSize

EndOfRead ==
    /\ step' = "idle" /\ draining' = FALSE
    /\ held' = None /\ position' = None /\ next' = 0 /\ chunks' = <<>>

BeginRead(f, p) ==
    /\ held' = f
    /\ position' = p
    /\ chunks' = <<>>
    /\ IF Readable(p)
       THEN step' = "reading" /\ next' = Start(p)
       ELSE step' = "recording" /\ next' = 0

(* Defect: the watched paths leave out the output files. *)
WatchesNothing == FALSE

(* pull registers the watch before it reads. *)
Watches == following # None

Running == "session_finished" \notin told

(* read_sources: expiry, then the pull of the running session. *)
BeginPull ==
    /\ step = "idle"
    /\ notice
    /\ notice' = FALSE
    /\ IF following # None /\ old
       THEN /\ following' = None
            /\ exists' = (exists /\ ~following.deletes)
            /\ lost' = TRUE
            /\ watched' = FALSE
            /\ UNCHANGED reader
       ELSE /\ UNCHANGED <<following, exists, lost>>
            /\ watched' = (Running /\ Watches)
            /\ IF Running /\ following # None
               THEN BeginRead(following, LatestPosition) /\ draining' = FALSE
               ELSE UNCHANGED reader
    /\ UNCHANGED <<size, changed, waits, told, old, recorded, bounds>>

(* _drain_all *)
BeginDrain ==
    /\ step = "idle"
    /\ Running
    /\ told' = told \union {"session_finished"}
    /\ IF following # None
       THEN BeginRead(following, LatestPosition) /\ draining' = TRUE
       ELSE UNCHANGED reader
    /\ UNCHANGED <<file, following, notice, watched, old, recorded, lost, bounds>>

(* Defect: the position of a chunk is where it starts. *)
StartOfChunk(start, end) == start

(* source_position *)
PositionOfChunk(start, end) == end

(* _read_open_source, one read call: a chunk, or the end of the file. *)
ReadChunk ==
    /\ step = "reading"
    /\ IF exists /\ next < size
       THEN LET end == IF next + ReadSize < size THEN next + ReadSize ELSE size
            IN /\ chunks' = Append(chunks, [start |-> next, end |-> end,
                                            position |-> PositionOfChunk(next, end)])
               /\ next' = end
               /\ UNCHANGED step
       ELSE step' = "ended" /\ UNCHANGED <<chunks, next>>
    /\ UNCHANGED <<file, following, told, notice, watched, old, recorded, draining, held, position,
                   lost, bounds>>

DropFollowing(f) ==
    /\ following' = None
    /\ exists' = (exists /\ ~f.deletes)

(* _finish *)
AsFinished(seq) ==
    [i \in DOMAIN seq |-> IF i = Len(seq) THEN [seq[i] EXCEPT !.position = Finished] ELSE seq[i]]

(* The row and the file of a finishing source go before the record, with    *)
(* what the shell wrote since the end of the file was read.                 *)
EndRead ==
    /\ step = "ended"
    /\ step' = "recording"
    /\ IF held.finishing
       THEN DropFollowing(held) /\ chunks' = AsFinished(chunks) /\ lost' = (lost \/ next < size)
       ELSE UNCHANGED <<following, exists, chunks, lost>>
    /\ UNCHANGED <<size, changed, waits, told, notice, watched, old, recorded, draining, held,
                   position, next, bounds>>

(* record: an event that is stored is not stored again; of one read, that   *)
(* can only be the first chunk.                                             *)
Known(c) == \E i \in DOMAIN recorded : recorded[i].start = c.start /\ recorded[i].end = c.end
New(seq) == IF seq # <<>> /\ Known(Head(seq)) THEN Tail(seq) ELSE seq

(* The puller reads again until nothing comes; the reaction reads once and  *)
(* then removes the row and the file.                                       *)
Record ==
    /\ step = "recording"
    /\ recorded' = recorded \o New(chunks)
    /\ IF draining
       THEN DropFollowing(held) /\ EndOfRead
       ELSE /\ UNCHANGED <<following, exists>>
            /\ IF chunks = <<>> \/ Last(chunks).position = position
               THEN EndOfRead
               ELSE BeginRead(held, Last(chunks).position) /\ UNCHANGED draining
    /\ UNCHANGED <<size, changed, waits, told, notice, watched, old, lost, bounds>>

Removed == held.finishing /\ following = None

(* The puller asks for a retry; the reaction does not.                      *)
RecordFails ==
    /\ step = "recording"
    /\ chunks # <<>>
    /\ failures < MaxFailures
    /\ failures' = failures + 1
    /\ EndOfRead
    /\ notice' = (notice \/ ~draining)
    /\ lost' = (lost \/ draining \/ Removed)
    /\ UNCHANGED <<file, following, told, watched, old, recorded, restarts>>

(* The daemon dies; the next start is a notice of every kind.               *)
Restart ==
    /\ restarts < MaxRestarts
    /\ restarts' = restarts + 1
    /\ EndOfRead
    /\ notice' = TRUE
    /\ watched' = FALSE
    /\ lost' = (lost \/ draining \/ (step = "recording" /\ Removed /\ chunks # <<>>))
    /\ UNCHANGED <<file, following, told, old, recorded, failures>>

EngineStep == BeginPull \/ ReadChunk \/ EndRead \/ Record

Next ==
    \/ Write \/ Truncate \/ Age \/ BeginDrain \/ EngineStep \/ RecordFails \/ Restart
    \/ \E fact \in Facts : React(fact) \/ ReactionFails(fact)

(* The engine's thread runs; nobody has to write or to finish.              *)
Spec == Init /\ [][Next]_vars /\ WF_vars(EngineStep)

----
(* Properties. *)

(* Recorded chunks follow one another from the first byte of the output:    *)
(* no byte is recorded twice or left out, across restarts, failed records,  *)
(* locations that are told again and files that are truncated               *)
(* (output_source.py:72-80, 106-169).                                       *)
ChunksAreContiguous ==
    \A i \in DOMAIN recorded :
        recorded[i].start = IF i = 1 THEN Start(None) ELSE recorded[i - 1].end

RecordedTo(n) == recorded # <<>> /\ n <= Last(recorded).end

(* A byte that is in the file while the following is stored and the session *)
(* runs is recorded, unless the following gets too old, the file is         *)
(* truncated again, the reaction to the end of the session fails, or a      *)
(* finishing source removed its row and then its record failed or the shell *)
(* had written after the last read                                          *)
(* (puller.py:54-74, output_source.py:146-153, shell_output_reaction.py).   *)
OutputIsRecorded ==
    \A n \in 1..MaxSize :
        (following # None /\ Running /\ changed /\ Start(None) < n /\ n <= size)
            ~> (RecordedTo(n) \/ lost)
====
