---- MODULE ShellOutputProofs ----
(***************************************************************************)
(* Proofs about the following of an output file, for any sizes, failures   *)
(* and restarts.  Recorded chunks are contiguous because a read starts at  *)
(* the position of the last recorded event, nothing is recorded between    *)
(* that look and the record of the read, and a chunk is never empty, so    *)
(* none of the read is stored already.  A read that takes a notice goes on *)
(* to the end of the file, and what is written after it is a notice again. *)
(***************************************************************************)
EXTENDS ShellOutput, SequenceTheorems, TLAPS

(* A sequence of chunks that follow one another from a byte on. *)
Follow(seq, from) ==
    \A i \in DOMAIN seq :
        /\ seq[i].start = IF i = 1 THEN from ELSE seq[i - 1].end
        /\ seq[i].start < seq[i].end
        /\ seq[i].end <= seq[Len(seq)].end
        /\ seq[i].position \in {seq[i].end, Finished}

(* Where the next chunk of the source starts. *)
Resume == Start(LatestPosition)

ReadInv ==
    /\ Follow(recorded, Start(None))
    /\ step \in {"reading", "ended"} =>
           /\ position = LatestPosition /\ position # Finished
           /\ Follow(chunks, Resume)
           /\ next = IF chunks = <<>> THEN Resume ELSE chunks[Len(chunks)].end
    /\ step = "recording" /\ chunks # <<>> =>
           LatestPosition # Finished /\ Follow(chunks, Resume)

HeldInv == step # "idle" => held \in Followings

IInv == TypeOK /\ HeldInv /\ ReadInv

(* A position that is a number or nothing starts a read at a byte. *)
LEMMA StartType ==
    ASSUME TypeOK, NEW p \in Positions, p # Finished
    PROVE  Start(p) \in Nat
BY SizesAssumption DEF Start, Positions, TypeOK

LEMMA LatestPositionType == ASSUME TypeOK PROVE LatestPosition \in Positions
<1>1. CASE recorded = <<>>
  BY <1>1 DEF LatestPosition, Positions
<1>2. CASE recorded # <<>>
  <2>1. Last(recorded) \in Chunk
    BY <1>2 DEF TypeOK, Last
  <2> QED
    BY <1>2, <2>1 DEF LatestPosition, Chunk
<1> QED
  BY <1>1, <1>2

LEMMA TypeInit == Init => TypeOK /\ HeldInv
<1> SUFFICES ASSUME Init PROVE TypeOK /\ HeldInv
  OBVIOUS
<1>1. /\ size \in Nat /\ recorded \in Seq(Chunk) /\ chunks \in Seq(Chunk)
      /\ position \in Positions /\ waits \in BOOLEAN
  BY SizesAssumption DEF Init, Positions
<1> QED
  BY <1>1 DEF Init, TypeOK, HeldInv

(* What the two ends of a read do to the state of the reader. *)
ReaderType ==
    /\ step \in {"idle", "reading", "ended", "recording"}
    /\ draining \in BOOLEAN /\ held \in Followings \union {None}
    /\ position \in Positions /\ next \in Nat /\ chunks \in Seq(Chunk)

LEMMA BeginReadType ==
    ASSUME TypeOK, NEW f \in Followings, NEW p \in Positions, BeginRead(f, p), draining' \in BOOLEAN
    PROVE  ReaderType' /\ HeldInv'
<1>1. CASE Readable(p)
  <2>1. Start(p) \in Nat
    BY <1>1, StartType DEF Readable
  <2> QED
    BY <1>1, <2>1 DEF BeginRead, ReaderType, HeldInv
<1>2. CASE ~Readable(p)
  BY <1>2 DEF BeginRead, ReaderType, HeldInv
<1> QED
  BY <1>1, <1>2

LEMMA EndOfReadType == ASSUME EndOfRead PROVE ReaderType' /\ HeldInv'
<1>1. chunks' \in Seq(Chunk)
  BY DEF EndOfRead
<1>2. position' \in Positions
  BY DEF EndOfRead, Positions
<1>3. draining' \in BOOLEAN
  BY DEF EndOfRead
<1> QED
  BY <1>1, <1>2, <1>3 DEF EndOfRead, ReaderType, HeldInv

LEMMA TypeOutside ==
    ASSUME TypeOK, HeldInv, Write \/ Truncate \/ Age \/ \E fact \in Facts : React(fact) \/ ReactionFails(fact)
    PROVE  TypeOK' /\ HeldInv'
<1>1. CASE Write
  BY <1>1 DEF Write, TypeOK, HeldInv, reader, bounds
<1>5. CASE Truncate
  <2>1. size' = 0 /\ lost' = TRUE /\ notice' \in BOOLEAN
    BY <1>5 DEF Truncate
  <2>2. UNCHANGED <<exists, changed, waits, following, told, watched, old, recorded>>
    BY <1>5 DEF Truncate
  <2>3. UNCHANGED <<step, draining, held, position, next, chunks, failures, restarts>>
    BY <1>5 DEF Truncate, reader, bounds
  <2> QED
    BY <2>1, <2>2, <2>3 DEF TypeOK, HeldInv
<1>2. CASE Age
  BY <1>2 DEF Age, TypeOK, HeldInv, file, reader, bounds
<1>3. ASSUME NEW fact \in Facts, React(fact)
      PROVE  TypeOK' /\ HeldInv'
  <2>1. following' \in Followings \union {None} /\ old' \in BOOLEAN
    <3>1. CASE StartFollowing
      BY <3>1 DEF StartFollowing, TypeOK
    <3>2. CASE MarkShellFinished /\ UNCHANGED old
      BY <3>2 DEF MarkShellFinished, TypeOK, Followings
    <3>3. CASE OutliveShell /\ UNCHANGED old
      BY <3>3 DEF OutliveShell, TypeOK, Followings
    <3>4. CASE MarkFinishing /\ UNCHANGED old
      BY <3>4 DEF MarkFinishing, TypeOK, Followings
    <3> QED
      BY <1>3, <3>1, <3>2, <3>3, <3>4 DEF React
  <2> QED
    BY <1>3, <2>1 DEF React, TypeOK, HeldInv, file, reader, bounds
<1>4. ASSUME NEW fact \in Facts, ReactionFails(fact)
      PROVE  TypeOK' /\ HeldInv'
  BY <1>4 DEF ReactionFails, TypeOK, HeldInv, file, reader
<1> QED
  BY <1>1, <1>2, <1>3, <1>4, <1>5

LEMMA TypeReads ==
    ASSUME TypeOK, HeldInv, BeginPull \/ BeginDrain \/ ReadChunk \/ EndRead
    PROVE  TypeOK' /\ HeldInv'
<1>1. LatestPosition \in Positions
  BY LatestPositionType
<1>2. CASE BeginPull
  <2>1. CASE following # None /\ old
    BY <1>2, <2>1 DEF BeginPull, TypeOK, HeldInv, reader, bounds
  <2>2. CASE ~(following # None /\ old)
    <3>1. following \in Followings \union {None}
      BY DEF TypeOK
    <3>2. ASSUME Running, following # None PROVE ReaderType' /\ HeldInv'
      <4>1. BeginRead(following, LatestPosition) /\ draining' = FALSE
        BY <1>2, <2>2, <3>2 DEF BeginPull
      <4>2. draining' \in BOOLEAN
        BY <4>1
      <4> QED
        BY <1>1, <3>1, <3>2, <4>1, <4>2, BeginReadType
    <3>3. ASSUME ~(Running /\ following # None) PROVE ReaderType' /\ HeldInv'
      <4>1. UNCHANGED reader
        BY <1>2, <2>2, <3>3 DEF BeginPull
      <4> QED
        BY <4>1 DEF reader, ReaderType, TypeOK, HeldInv
    <3>4. UNCHANGED <<following, exists, lost>> /\ watched' \in BOOLEAN /\ notice' \in BOOLEAN
      BY <1>2, <2>2 DEF BeginPull
    <3> QED
      <4>1. UNCHANGED <<size, changed, waits, told, old, recorded, bounds>>
        BY <1>2 DEF BeginPull
      <4> QED
        BY <3>2, <3>3, <3>4, <4>1 DEF TypeOK, ReaderType, bounds
  <2> QED
    BY <2>1, <2>2
<1>3. CASE BeginDrain
  <2>1. following \in Followings \union {None}
    BY DEF TypeOK
  <2>2. ASSUME following # None PROVE ReaderType' /\ HeldInv'
    <3>1. BeginRead(following, LatestPosition) /\ draining' = TRUE
      BY <1>3, <2>2 DEF BeginDrain
    <3>2. draining' \in BOOLEAN
      BY <3>1
    <3> QED
      BY <1>1, <2>1, <2>2, <3>1, <3>2, BeginReadType
  <2>3. ASSUME following = None PROVE ReaderType' /\ HeldInv'
    <3>1. UNCHANGED reader
      BY <1>3, <2>3 DEF BeginDrain
    <3> QED
      BY <3>1 DEF reader, ReaderType, TypeOK, HeldInv
  <2>4. /\ told' \subseteq Facts
        /\ UNCHANGED <<file, following, notice, watched, old, recorded, lost, bounds>>
    BY <1>3 DEF BeginDrain, Facts, TypeOK
  <2> QED
    BY <2>2, <2>3, <2>4 DEF TypeOK, ReaderType, file, bounds
<1>4. CASE ReadChunk
  <2>1. CASE exists /\ next < size
    <3> DEFINE end == IF next + ReadSize < size THEN next + ReadSize ELSE size
               chunk == [start |-> next, end |-> end, position |-> PositionOfChunk(next, end)]
    <3>1. end \in Nat /\ chunk \in Chunk
      BY SizesAssumption DEF TypeOK, Chunk, Positions, PositionOfChunk
    <3>2. chunks' = Append(chunks, chunk) /\ next' = end /\ step' = step
      BY <1>4, <2>1 DEF ReadChunk
    <3>3. chunks' \in Seq(Chunk)
      BY <3>1, <3>2 DEF TypeOK
    <3> HIDE DEF end, chunk
    <3> QED
      BY <1>4, <3>1, <3>2, <3>3 DEF ReadChunk, TypeOK, HeldInv, file, bounds
  <2>2. CASE ~(exists /\ next < size)
    BY <1>4, <2>2 DEF ReadChunk, TypeOK, HeldInv, file, bounds
  <2> QED
    BY <2>1, <2>2
<1>5. CASE EndRead
  <2>1. AsFinished(chunks) \in Seq(Chunk)
    <3>1. ASSUME NEW i \in DOMAIN chunks
          PROVE  chunks[i] \in Chunk /\ [chunks[i] EXCEPT !.position = Finished] \in Chunk
      <4>1. chunks[i] \in Chunk
        BY DEF TypeOK
      <4>2. Finished \in Positions
        BY DEF Positions
      <4> QED
        BY <4>1, <4>2 DEF Chunk
    <3>2. AsFinished(chunks) \in [1..Len(chunks) -> Chunk]
      BY <3>1 DEF AsFinished, TypeOK
    <3> QED
      BY <3>2, SeqDef DEF TypeOK
  <2>2. chunks' \in Seq(Chunk) /\ following' \in Followings \union {None}
        /\ exists' \in BOOLEAN /\ lost' \in BOOLEAN
    BY <1>5, <2>1 DEF EndRead, DropFollowing, TypeOK
  <2> QED
    BY <1>5, <2>2 DEF EndRead, TypeOK, HeldInv, bounds
<1> QED
  BY <1>2, <1>3, <1>4, <1>5

LEMMA TypeEnds ==
    ASSUME TypeOK, HeldInv, Record \/ RecordFails \/ Restart
    PROVE  TypeOK' /\ HeldInv'
<1>1. CASE Record
  <2>1. New(chunks) \in Seq(Chunk)
    BY DEF New, TypeOK
  <2>2. recorded' \in Seq(Chunk)
    BY <1>1, <2>1 DEF Record, TypeOK
  <2>3. held \in Followings
    BY <1>1 DEF Record, HeldInv
  <2>4. CASE draining
    <3>1. ReaderType' /\ HeldInv'
      BY <1>1, <2>4, EndOfReadType DEF Record
    <3>2. following' = None /\ exists' \in BOOLEAN
      BY <1>1, <2>4 DEF Record, DropFollowing
    <3> QED
      BY <1>1, <2>2, <3>1, <3>2 DEF Record, TypeOK, ReaderType, bounds
  <2>5. CASE ~draining
    <3>1. CASE chunks = <<>> \/ Last(chunks).position = position
      BY <1>1, <2>2, <2>5, <3>1, EndOfReadType DEF Record, TypeOK, ReaderType, bounds
    <3>2. CASE ~(chunks = <<>> \/ Last(chunks).position = position)
      <4>1. Last(chunks) \in Chunk
        BY <3>2 DEF TypeOK, Last
      <4>2. Last(chunks).position \in Positions
        BY <4>1 DEF Chunk
      <4>3. BeginRead(held, Last(chunks).position) /\ draining' = draining
        BY <1>1, <2>5, <3>2 DEF Record
      <4>4. ReaderType' /\ HeldInv'
        BY <2>3, <4>2, <4>3, BeginReadType DEF TypeOK
      <4> QED
        BY <1>1, <2>2, <2>5, <4>4 DEF Record, TypeOK, ReaderType, bounds
    <3> QED
      BY <3>1, <3>2
  <2> QED
    BY <2>4, <2>5
<1>2. CASE RecordFails
  BY <1>2, EndOfReadType DEF RecordFails, TypeOK, ReaderType, file
<1>3. CASE Restart
  <2>1. ReaderType' /\ HeldInv'
    BY <1>3, EndOfReadType DEF Restart
  <2>2. restarts' \in Nat /\ UNCHANGED <<file, following, told, old, recorded, failures>>
    BY <1>3 DEF Restart, TypeOK
  <2>3. notice' \in BOOLEAN /\ watched' \in BOOLEAN
    BY <1>3 DEF Restart
  <2>4. lost' \in BOOLEAN
    BY <1>3 DEF Restart
  <2> QED
    BY <2>1, <2>2, <2>3, <2>4 DEF TypeOK, ReaderType, file
<1> QED
  BY <1>1, <1>2, <1>3

LEMMA TypeStep == TypeOK /\ HeldInv /\ [Next]_vars => TypeOK' /\ HeldInv'
<1> SUFFICES ASSUME TypeOK, HeldInv, [Next]_vars PROVE TypeOK' /\ HeldInv'
  OBVIOUS
<1>1. CASE UNCHANGED vars
  BY <1>1 DEF TypeOK, HeldInv, vars, file, reader, bounds
<1>2. CASE Next
  BY <1>2, TypeOutside, TypeReads, TypeEnds DEF Next, EngineStep
<1> QED
  BY <1>1, <1>2

(* The file, the row, the reader and the stored events keep their types.    *)
THEOREM TypeCorrect == Spec => []TypeOK
<1> QED
  BY TypeInit, TypeStep, PTL DEF Spec

----
(* Contiguous chunks. *)

LEMMA ReadInit == Init => ReadInv
BY DEF Init, ReadInv, Follow

(* Chunks of a read follow the recorded ones, so none of them is stored.    *)
LEMMA NothingIsKnown ==
    ASSUME TypeOK, Follow(recorded, Start(None)), chunks # <<>>,
           LatestPosition # Finished, Follow(chunks, Resume)
    PROVE  New(chunks) = chunks
<1>1. Head(chunks) = chunks[1] /\ 1 \in DOMAIN chunks /\ chunks[1] \in Chunk
  BY DEF TypeOK
<1>2. chunks[1].start = Resume /\ chunks[1].start < chunks[1].end
  BY <1>1 DEF Follow
<1>3. SUFFICES ASSUME NEW i \in DOMAIN recorded, recorded[i].end = chunks[1].end
               PROVE  FALSE
  BY <1>1 DEF New, Known
<1>4. recorded # <<>> /\ Len(recorded) \in DOMAIN recorded /\ Last(recorded) = recorded[Len(recorded)]
  BY DEF TypeOK, Last
<1>5. recorded[i] \in Chunk /\ recorded[Len(recorded)] \in Chunk
  BY <1>4 DEF TypeOK
<1>6. LatestPosition = recorded[Len(recorded)].end
  BY <1>4 DEF LatestPosition, Follow
<1>7. Resume = recorded[Len(recorded)].end
  BY <1>5, <1>6, PositionsAssumption DEF Resume, Start, Chunk
<1>8. recorded[i].end <= recorded[Len(recorded)].end
  BY DEF Follow
<1> QED
  BY <1>1, <1>2, <1>3, <1>5, <1>7, <1>8 DEF Chunk

(* Two sequences that follow one another make one. *)
LEMMA FollowConcat ==
    ASSUME NEW s \in Seq(Chunk), NEW t \in Seq(Chunk), NEW from \in Nat, NEW middle \in Nat,
           Follow(s, from), Follow(t, middle), t # <<>>,
           middle = IF s = <<>> THEN from ELSE s[Len(s)].end
    PROVE  Follow(s \o t, from)
<1>1. Len(s) \in Nat /\ Len(t) \in Nat /\ Len(t) > 0 /\ Len(s \o t) = Len(s) + Len(t)
  OBVIOUS
<1>2. \A i \in 1..(Len(s) + Len(t)) :
         (s \o t)[i] = IF i <= Len(s) THEN s[i] ELSE t[i - Len(s)]
  OBVIOUS
<1>3. (s \o t)[Len(s \o t)] = t[Len(t)] /\ t[Len(t)] \in Chunk /\ t[1] \in Chunk
  BY <1>1, <1>2
<1>4. t[1].start = middle /\ t[1].start < t[1].end /\ t[1].end <= t[Len(t)].end
  BY <1>1 DEF Follow
<1>5. middle <= t[Len(t)].end
  BY <1>3, <1>4 DEF Chunk
<1>6. ASSUME NEW i \in 1..Len(s)
      PROVE  /\ (s \o t)[i] = s[i] /\ s[i] \in Chunk
             /\ s[i].start = IF i = 1 THEN from ELSE (s \o t)[i - 1].end
             /\ s[i].start < s[i].end /\ s[i].end <= t[Len(t)].end
             /\ s[i].position \in {s[i].end, Finished}
  <2>1. (s \o t)[i] = s[i] /\ s[i] \in Chunk /\ s[Len(s)] \in Chunk /\ s # <<>>
    BY <1>1, <1>2
  <2>2. i # 1 => (s \o t)[i - 1] = s[i - 1]
    BY <1>1, <1>2
  <2>3. s[i].end <= s[Len(s)].end /\ s[Len(s)].end = middle
    BY <2>1 DEF Follow
  <2>4. s[i].end <= t[Len(t)].end
    BY <1>3, <1>5, <2>1, <2>3 DEF Chunk
  <2> QED
    BY <2>1, <2>2, <2>4 DEF Follow
<1>7. ASSUME NEW i \in (Len(s) + 1)..(Len(s) + Len(t))
      PROVE  /\ (s \o t)[i] = t[i - Len(s)]
             /\ (s \o t)[i].start = IF i = 1 THEN from ELSE (s \o t)[i - 1].end
             /\ (s \o t)[i].start < (s \o t)[i].end /\ (s \o t)[i].end <= t[Len(t)].end
             /\ (s \o t)[i].position \in {(s \o t)[i].end, Finished}
  <2>1. (s \o t)[i] = t[i - Len(s)] /\ i - Len(s) \in DOMAIN t
    BY <1>1, <1>2
  <2>2. CASE i = Len(s) + 1
    <3>1. (s \o t)[i].start = middle
      BY <1>1, <1>4, <2>1, <2>2
    <3>2. CASE s = <<>>
      BY <1>1, <2>1, <2>2, <3>1, <3>2 DEF Follow
    <3>3. CASE s # <<>>
      <4>1. i # 1 /\ (s \o t)[i - 1] = s[Len(s)]
        BY <1>1, <1>2, <2>2, <3>3
      <4> QED
        BY <2>1, <3>1, <3>3, <4>1 DEF Follow
    <3> QED
      BY <3>2, <3>3
  <2>3. CASE i # Len(s) + 1
    <3>1. /\ i # 1 /\ i - Len(s) # 1
          /\ (s \o t)[i - 1] = t[(i - Len(s)) - 1]
      BY <1>1, <1>2, <2>3
    <3> QED
      BY <2>1, <3>1 DEF Follow
  <2> QED
    BY <2>2, <2>3
<1>8. DOMAIN (s \o t) = 1..Len(s) \union (Len(s) + 1)..(Len(s) + Len(t))
  BY <1>1
<1>9. SUFFICES ASSUME NEW i \in DOMAIN (s \o t)
               PROVE  /\ (s \o t)[i].start = IF i = 1 THEN from ELSE (s \o t)[i - 1].end
                      /\ (s \o t)[i].start < (s \o t)[i].end
                      /\ (s \o t)[i].end <= (s \o t)[Len(s \o t)].end
                      /\ (s \o t)[i].position \in {(s \o t)[i].end, Finished}
  BY DEF Follow
<1>10. CASE i \in 1..Len(s)
  <2>1. (s \o t)[i] = s[i]
    BY <1>6, <1>10
  <2> QED
    BY <1>3, <1>6, <1>10, <2>1
<1>11. CASE i \in (Len(s) + 1)..(Len(s) + Len(t))
  BY <1>3, <1>7, <1>11
<1> QED
  BY <1>8, <1>10, <1>11

(* The bytes a new chunk adds, and the mark of a finished source. *)
LEMMA FollowAppend ==
    ASSUME NEW s \in Seq(Chunk), NEW from \in Nat, NEW c \in Chunk, Follow(s, from),
           c.start = IF s = <<>> THEN from ELSE s[Len(s)].end,
           c.start < c.end, c.position = c.end
    PROVE  Follow(Append(s, c), from)
<1>1. <<c>> \in Seq(Chunk) /\ <<c>> # <<>> /\ c.start \in Nat
  BY DEF Chunk
<1>2. Append(s, c) = s \o <<c>>
  BY <1>1, AppendIsConcat
<1>3. Follow(<<c>>, c.start)
  BY DEF Follow, Chunk
<1> QED
  BY <1>1, <1>2, <1>3, FollowConcat

LEMMA FollowFinished ==
    ASSUME NEW s \in Seq(Chunk), NEW from \in Nat, Follow(s, from)
    PROVE  Follow(AsFinished(s), from)
<1>1. DOMAIN AsFinished(s) = 1..Len(s) /\ Len(AsFinished(s)) = Len(s)
  BY DEF AsFinished
<1>2. \A i \in 1..Len(s) : s[i] \in Chunk
  OBVIOUS
<1>3. ASSUME NEW i \in 1..Len(s)
      PROVE  /\ AsFinished(s)[i].start = s[i].start /\ AsFinished(s)[i].end = s[i].end
             /\ AsFinished(s)[i].position \in {s[i].position, Finished}
  BY <1>2 DEF AsFinished, Chunk
<1> QED
  BY <1>1, <1>3 DEF Follow

(* Steps that neither record nor read. *)
LEMMA ReadFrame ==
    ASSUME ReadInv, UNCHANGED <<recorded, waits>>,
           UNCHANGED reader \/ (step' = "idle" /\ chunks' = <<>>)
    PROVE  ReadInv'
BY DEF ReadInv, LatestPosition, Resume, Start, Follow, reader

LEMMA ResumeType == ASSUME TypeOK, LatestPosition # Finished PROVE Resume \in Nat
BY LatestPositionType, StartType DEF Resume

(* A read goes on where the last recorded chunk ends. *)
LEMMA ResumeIsTheEnd ==
    ASSUME TypeOK, Follow(recorded, Start(None)), LatestPosition # Finished
    PROVE  Resume = IF recorded = <<>> THEN Start(None) ELSE recorded[Len(recorded)].end
<1>1. CASE recorded = <<>>
  BY <1>1 DEF Resume, LatestPosition
<1>2. CASE recorded # <<>>
  <2>1. Last(recorded) = recorded[Len(recorded)] /\ Len(recorded) \in DOMAIN recorded
        /\ recorded[Len(recorded)] \in Chunk
    BY <1>2 DEF TypeOK, Last
  <2>2. LatestPosition = recorded[Len(recorded)].end
    BY <1>2, <2>1 DEF LatestPosition, Follow
  <2> QED
    BY <1>2, <2>1, <2>2, PositionsAssumption DEF Resume, Start, Chunk
<1> QED
  BY <1>1, <1>2

(* A read that begins at the last recorded position. *)
LEMMA ReadBegins ==
    ASSUME TypeOK, TypeOK', NEW f \in Followings, BeginRead(f, LatestPosition'),
           Follow(recorded, Start(None))', UNCHANGED waits
    PROVE  ReadInv'
<1>1. chunks' = <<>> /\ position' = LatestPosition'
  BY DEF BeginRead
<1>2. CASE Readable(LatestPosition')
  <2>1. step' = "reading" /\ next' = Resume' /\ LatestPosition' # Finished
    BY <1>2 DEF BeginRead, Readable, Resume, Start
  <2> QED
    BY <1>1, <2>1 DEF ReadInv, Follow
<1>3. CASE ~Readable(LatestPosition')
  <2>1. step' = "recording"
    BY <1>3 DEF BeginRead
  <2> QED
    BY <1>1, <2>1 DEF ReadInv
<1> QED
  BY <1>2, <1>3

LEMMA ReadStep == TypeOK /\ HeldInv /\ ReadInv /\ [Next]_vars => ReadInv'
<1> SUFFICES ASSUME TypeOK, HeldInv, ReadInv, [Next]_vars PROVE ReadInv'
  OBVIOUS
<1>1. TypeOK'
  BY TypeStep
<1>2. CASE Write \/ Truncate \/ Age \/ (\E fact \in Facts : React(fact) \/ ReactionFails(fact)) \/ UNCHANGED vars
  <2>1. UNCHANGED <<recorded, waits>> /\ UNCHANGED reader
    BY <1>2 DEF Write, Truncate, Age, React, ReactionFails, vars, file
  <2> QED
    BY <2>1, ReadFrame
<1>3. CASE RecordFails \/ Restart
  BY <1>3, ReadFrame DEF RecordFails, Restart, EndOfRead, file
<1>4. CASE BeginPull \/ BeginDrain
  <2>1. UNCHANGED <<recorded, waits>>
    BY <1>4 DEF BeginPull, BeginDrain, file
  <2>2. UNCHANGED reader \/ (following # None /\ BeginRead(following, LatestPosition))
    BY <1>4 DEF BeginPull, BeginDrain
  <2>3. CASE UNCHANGED reader
    BY <2>1, <2>3, ReadFrame
  <2>4. CASE following # None /\ BeginRead(following, LatestPosition)
    <3>1. following \in Followings
      BY <2>4 DEF TypeOK
    <3>2. LatestPosition' = LatestPosition /\ Follow(recorded, Start(None))'
      BY <2>1 DEF LatestPosition, ReadInv, Follow, Start
    <3> QED
      BY <1>1, <2>1, <2>4, <3>1, <3>2, ReadBegins
  <2> QED
    BY <2>2, <2>3, <2>4
<1>5. CASE ReadChunk
  <2>1. /\ step = "reading" /\ position = LatestPosition /\ position # Finished
        /\ Follow(chunks, Resume)
        /\ next = IF chunks = <<>> THEN Resume ELSE chunks[Len(chunks)].end
    BY <1>5 DEF ReadChunk, ReadInv
  <2>2. UNCHANGED <<recorded, waits, position>>
    BY <1>5 DEF ReadChunk, file
  <2>3. Resume' = Resume /\ LatestPosition' = LatestPosition /\ Resume \in Nat
        /\ Follow(recorded, Start(None))'
    BY <2>1, <2>2, ResumeType DEF Resume, LatestPosition, Start, ReadInv, Follow
  <2>4. CASE exists /\ next < size
    <3> DEFINE end == IF next + ReadSize < size THEN next + ReadSize ELSE size
               chunk == [start |-> next, end |-> end, position |-> end]
    <3>1. end \in Nat /\ next < end /\ chunk \in Chunk
      BY <2>4, SizesAssumption DEF TypeOK, Chunk, Positions
    <3>2. chunks' = Append(chunks, chunk) /\ next' = end /\ step' = step
      BY <1>5, <2>4 DEF ReadChunk, PositionOfChunk
    <3>3. chunk.start = next /\ chunk.end = end /\ chunk.position = end
      OBVIOUS
    <3> HIDE DEF end, chunk
    <3>4. Follow(chunks', Resume)
      BY <2>1, <2>3, <3>1, <3>2, <3>3, FollowAppend DEF TypeOK
    <3>5. chunks' # <<>> /\ chunks'[Len(chunks')] = chunk
      BY <3>1, <3>2 DEF TypeOK
    <3> QED
      BY <2>1, <2>2, <2>3, <3>2, <3>3, <3>4, <3>5 DEF ReadInv, Follow
  <2>5. CASE ~(exists /\ next < size)
    <3>1. step' = "ended" /\ UNCHANGED <<chunks, next>>
      BY <1>5, <2>5 DEF ReadChunk
    <3> QED
      BY <2>1, <2>2, <2>3, <3>1 DEF ReadInv, Follow
  <2> QED
    BY <2>4, <2>5
<1>6. CASE EndRead
  <2>1. position = LatestPosition /\ position # Finished /\ Follow(chunks, Resume)
    BY <1>6 DEF EndRead, ReadInv
  <2>2. step' = "recording" /\ UNCHANGED <<recorded, waits>>
        /\ (chunks' = chunks \/ chunks' = AsFinished(chunks))
    BY <1>6 DEF EndRead
  <2>3. Resume' = Resume /\ LatestPosition' = LatestPosition /\ Resume \in Nat
        /\ Follow(recorded, Start(None))'
    BY <2>1, <2>2, ResumeType DEF Resume, LatestPosition, Start, ReadInv, Follow
  <2>4. Follow(chunks', Resume)
    BY <2>1, <2>2, <2>3, FollowFinished DEF TypeOK
  <2> QED
    BY <2>1, <2>2, <2>3, <2>4 DEF ReadInv, Follow
<1>7. CASE Record
  <2>1. step = "recording" /\ recorded' = recorded \o New(chunks) /\ UNCHANGED waits
    BY <1>7 DEF Record
  <2>2. CASE chunks = <<>>
    <3>1. recorded' = recorded /\ EndOfRead
      BY <1>7, <2>1, <2>2 DEF Record, New, TypeOK
    <3> QED
      BY <2>1, <3>1, ReadFrame DEF EndOfRead
  <2>3. CASE chunks # <<>>
    <3>1. /\ LatestPosition # Finished /\ Follow(chunks, Resume)
          /\ Follow(recorded, Start(None))
      BY <2>1, <2>3 DEF ReadInv
    <3>2. recorded' = recorded \o chunks
      BY <2>1, <2>3, <3>1, NothingIsKnown
    <3>3. Resume = IF recorded = <<>> THEN Start(None) ELSE recorded[Len(recorded)].end
      BY <3>1, ResumeIsTheEnd
    <3>4. Start(None) \in Nat /\ Resume \in Nat
      BY <3>1, ResumeType, StartType, PositionsAssumption DEF Positions
    <3>5. Follow(recorded', Start(None))
      BY <2>3, <3>1, <3>2, <3>3, <3>4, FollowConcat DEF TypeOK
    <3>6. Follow(recorded, Start(None))'
      BY <2>1, <3>5 DEF Follow, Start
    <3>7. CASE EndOfRead
      BY <3>6, <3>7 DEF EndOfRead, ReadInv
    <3>8. CASE BeginRead(held, Last(chunks).position)
      <4>1. Last(chunks) = chunks[Len(chunks)] /\ recorded' # <<>>
            /\ Last(recorded)' = chunks[Len(chunks)]
        BY <2>3, <3>2 DEF TypeOK, Last
      <4>2. LatestPosition' = Last(chunks).position
        BY <4>1 DEF LatestPosition
      <4>3. held \in Followings
        BY <2>1 DEF HeldInv
      <4> QED
        BY <1>1, <2>1, <3>6, <3>8, <4>2, <4>3, ReadBegins
    <3> QED
      BY <1>7, <3>7, <3>8 DEF Record
  <2> QED
    BY <2>2, <2>3
<1> QED
  BY <1>2, <1>3, <1>4, <1>5, <1>6, <1>7 DEF Next, EngineStep

(* No byte of the output is recorded twice or left out between two chunks,  *)
(* for any file, read size, number of failures and of restarts.             *)
THEOREM ChunksFollow == Spec => []ChunksAreContiguous
<1>1. ReadInv => ChunksAreContiguous
  BY DEF ReadInv, Follow, ChunksAreContiguous
<1> QED
  BY <1>1, TypeInit, TypeStep, ReadInit, ReadStep, PTL DEF Spec

----
(* Output that nobody has read yet. *)

(* Bytes that are in the file and not recorded, while the following is      *)
(* stored and the session runs, are always on their way: the reader is at   *)
(* work or a SOURCES notice waits.  It is the safety part of                *)
(* OutputIsRecorded; no failure, restart or late write loses the wake-up    *)
(* (puller.py:54-74, output_source.py:72-80).                               *)
UnreadOutputIsAwaited ==
    following # None /\ Running /\ changed /\ Start(None) < size /\ ~RecordedTo(size)
        => notice \/ step # "idle"

(* The following starts once, so it is gone for good when it is removed. *)
Unlocated ==
    "located" \notin told =>
        following = None /\ exists /\ recorded = <<>> /\ step = "idle" /\ chunks = <<>>

(* The row goes before a chunk gets the position of a drained source. *)
StoredIsUnfinished ==
    following # None =>
        /\ exists /\ LatestPosition # Finished
        /\ \A i \in DOMAIN chunks : chunks[i].position # Finished

Watching == following # None /\ Running /\ ~notice => watched

(* Old content is not read while the first write may still truncate it. *)
OldContentIsSpared ==
    waits /\ ~changed => recorded = <<>> /\ chunks = <<>> /\ step \notin {"reading", "ended"}

ReadIsOfLatest == step = "recording" /\ chunks # <<>> => position = LatestPosition

DrainsAtTheEnd == draining => ~Running

FollowingInv ==
    /\ Unlocated /\ StoredIsUnfinished /\ Watching /\ OldContentIsSpared /\ ReadIsOfLatest
    /\ DrainsAtTheEnd

(* What a read that sees no later notice has found when it is over. *)
Done == changed /\ Start(None) < size => RecordedTo(size)

ReadToTheEnd ==
    following # None /\ Running /\ ~notice =>
        /\ step = "idle" => Done
        /\ step = "recording" /\ chunks = <<>> => Done
        /\ step = "ended" => size <= next

Assumed == TypeOK /\ HeldInv /\ ReadInv /\ FollowingInv

LEMMA FollowingInit == Init => FollowingInv /\ ReadToTheEnd
BY DEF Init, FollowingInv, Unlocated, StoredIsUnfinished, Watching, OldContentIsSpared,
       ReadIsOfLatest, DrainsAtTheEnd, ReadToTheEnd

(* Only the end of the session drains, and it is not undone. *)
LEMMA DrainStep == Assumed /\ [Next]_vars => DrainsAtTheEnd'
<1> SUFFICES ASSUME Assumed, [Next]_vars, draining' PROVE ~Running'
  BY DEF DrainsAtTheEnd
<1>1. told \subseteq told'
  BY DEF Next, EngineStep, Write, Truncate, Age, BeginPull, BeginDrain, ReadChunk, EndRead, Record,
         RecordFails, Restart, React, ReactionFails, vars, file
<1>2. draining \/ BeginDrain
  <2>1. UNCHANGED reader \/ draining' = FALSE \/ UNCHANGED draining \/ BeginDrain
    BY DEF Next, EngineStep, Write, Truncate, Age, BeginPull, ReadChunk, EndRead, Record,
           RecordFails, Restart, React, ReactionFails, EndOfRead, vars
  <2> QED
    BY <2>1 DEF reader
<1>3. CASE draining
  BY <1>1, <1>3 DEF Assumed, FollowingInv, DrainsAtTheEnd, Running
<1>4. CASE BeginDrain
  BY <1>4 DEF BeginDrain, Running
<1> QED
  BY <1>2, <1>3, <1>4

(* Steps that leave the reader and the stored events alone. *)
LEMMA FollowingOutside ==
    ASSUME Assumed, Write \/ Truncate \/ Age \/ (\E fact \in Facts : React(fact) \/ ReactionFails(fact))
                    \/ UNCHANGED vars
    PROVE  FollowingInv'
<1> USE DEF Assumed
<1>0. DrainsAtTheEnd'
  BY DrainStep DEF Next, EngineStep
<1>1. UNCHANGED <<recorded, waits, exists, reader>> /\ (changed => changed')
  BY DEF Write, Truncate, Age, React, ReactionFails, vars, file
<1>2. LatestPosition' = LatestPosition
  BY <1>1 DEF LatestPosition
<1>3. OldContentIsSpared' /\ ReadIsOfLatest'
  BY <1>1, <1>2 DEF FollowingInv, OldContentIsSpared, ReadIsOfLatest, reader
<1>4. CASE Write \/ Truncate \/ Age \/ UNCHANGED vars \/ \E fact \in Facts : ReactionFails(fact)
  <2>1. following' = following /\ told \subseteq told'
    BY <1>4 DEF Write, Truncate, Age, ReactionFails, vars
  <2>2. ("located" \notin told' => following = None) /\ Unlocated'
    BY <1>1, <2>1 DEF FollowingInv, Unlocated, reader
  <2>3. StoredIsUnfinished'
    BY <1>1, <1>2, <2>1 DEF FollowingInv, StoredIsUnfinished, reader
  <2>4. Watching'
    BY <1>4, <2>1 DEF FollowingInv, Watching, Running, Write, Truncate, Age, ReactionFails, vars
  <2> QED
    BY <1>0, <1>3, <2>2, <2>3, <2>4 DEF FollowingInv
<1>5. ASSUME NEW fact \in Facts, React(fact) PROVE FollowingInv'
  <2>1. notice' = TRUE /\ told' = told \union {fact} /\ (fact \notin told \/ following # None)
    BY <1>5 DEF React
  <2>2. following' # None => following # None \/ fact = "located"
    BY <1>5 DEF React, StartFollowing, MarkShellFinished, MarkFinishing, OutliveShell
  <2>3. Unlocated'
    BY <1>1, <2>1, <2>2 DEF FollowingInv, Unlocated, reader
  <2>4. StoredIsUnfinished'
    <3>1. CASE following # None
      BY <1>1, <1>2, <3>1 DEF FollowingInv, StoredIsUnfinished, reader
    <3>2. CASE fact = "located" /\ following = None
      <4>1. exists /\ recorded = <<>> /\ chunks = <<>>
        BY <2>1, <3>2 DEF FollowingInv, Unlocated
      <4>2. LatestPosition = None
        BY <4>1 DEF LatestPosition
      <4> QED
        BY <1>1, <1>2, <4>1, <4>2, PositionsAssumption DEF StoredIsUnfinished, reader
    <3> QED
      BY <2>2, <3>1, <3>2 DEF StoredIsUnfinished
  <2>5. Watching'
    BY <2>1 DEF Watching
  <2> QED
    BY <1>0, <1>3, <2>3, <2>4, <2>5 DEF FollowingInv
<1> QED
  BY <1>4, <1>5

(* A read begins, which the old content of a waiting shell does not let it. *)
LEMMA FollowingBegins ==
    ASSUME Assumed, BeginPull \/ BeginDrain
    PROVE  FollowingInv'
<1> USE DEF Assumed
<1>0. DrainsAtTheEnd'
  BY DrainStep DEF Next, EngineStep
<1>1. UNCHANGED <<recorded, waits, changed>> /\ step = "idle" /\ told \subseteq told'
  BY DEF BeginPull, BeginDrain, file
<1>2. LatestPosition' = LatestPosition
  BY <1>1 DEF LatestPosition
<1>3. UNCHANGED reader \/ (following # None /\ BeginRead(following, LatestPosition))
  BY DEF BeginPull, BeginDrain
<1>4. (following' = following /\ exists' = exists) \/ (following # None /\ following' = None)
  BY DEF BeginPull, BeginDrain, file
<1>5. UNCHANGED <<step, chunks>> \/ (following # None /\ chunks' = <<>>)
  BY <1>3 DEF reader, BeginRead
<1>6. Unlocated'
  <2>1. SUFFICES ASSUME "located" \notin told
                 PROVE  following' = None /\ exists' /\ UNCHANGED <<recorded, step, chunks>>
    BY <1>1 DEF FollowingInv, Unlocated
  <2> QED
    BY <1>1, <1>4, <1>5, <2>1 DEF FollowingInv, Unlocated
<1>7. StoredIsUnfinished'
  BY <1>2, <1>4, <1>5 DEF FollowingInv, StoredIsUnfinished
<1>8. Watching'
  BY DEF FollowingInv, Watching, Running, Watches, BeginPull, BeginDrain
<1>9. OldContentIsSpared'
  <2>1. SUFFICES ASSUME waits, ~changed PROVE (recorded = <<>> /\ chunks = <<>>
                                               /\ step \notin {"reading", "ended"})'
    BY <1>1 DEF OldContentIsSpared
  <2>2. recorded = <<>> /\ chunks = <<>> /\ LatestPosition = None
    BY <2>1 DEF FollowingInv, OldContentIsSpared, LatestPosition
  <2>3. ~Readable(LatestPosition)
    BY <2>1, <2>2 DEF Readable
  <2> QED
    BY <1>1, <1>3, <2>2, <2>3 DEF BeginRead, reader
<1>10. ReadIsOfLatest'
  BY <1>1, <1>3, <1>5 DEF ReadIsOfLatest, reader, BeginRead
<1> QED
  BY <1>0, <1>6, <1>7, <1>8, <1>9, <1>10 DEF FollowingInv

LEMMA FollowingReads ==
    ASSUME Assumed, ReadChunk \/ EndRead
    PROVE  FollowingInv'
<1> USE DEF Assumed
<1>0. DrainsAtTheEnd'
  BY DrainStep DEF Next, EngineStep
<1>1. UNCHANGED <<recorded, waits, changed, told, notice, watched, position>>
      /\ step \in {"reading", "ended"}
  BY DEF ReadChunk, EndRead, file
<1>2. LatestPosition' = LatestPosition /\ position = LatestPosition
  BY <1>1 DEF LatestPosition, ReadInv
<1>3. Unlocated' /\ OldContentIsSpared' /\ ReadIsOfLatest'
  BY <1>1, <1>2 DEF FollowingInv, Unlocated, OldContentIsSpared, ReadIsOfLatest
<1>4. following' # None => UNCHANGED <<following, exists>>
  BY DEF ReadChunk, EndRead, DropFollowing, file
<1>5. Watching'
  BY <1>1, <1>4 DEF FollowingInv, Watching, Running
<1>6. StoredIsUnfinished'
  <2>1. SUFFICES ASSUME following' # None
                 PROVE  \A i \in DOMAIN chunks' : chunks'[i].position # Finished
    BY <1>2, <1>4 DEF FollowingInv, StoredIsUnfinished
  <2>2. \A i \in DOMAIN chunks : chunks[i].position # Finished
    BY <1>4, <2>1 DEF FollowingInv, StoredIsUnfinished
  <2>3. CASE EndRead
    BY <2>1, <2>2, <2>3 DEF EndRead, DropFollowing
  <2>4. CASE ReadChunk /\ exists /\ next < size
    <3> DEFINE end == IF next + ReadSize < size THEN next + ReadSize ELSE size
               chunk == [start |-> next, end |-> end, position |-> end]
    <3>1. end \in Nat /\ chunk \in Chunk /\ chunk.position # Finished
      BY SizesAssumption, PositionsAssumption DEF TypeOK, Chunk, Positions
    <3>2. chunks' = Append(chunks, chunk)
      BY <2>4 DEF ReadChunk, PositionOfChunk
    <3> HIDE DEF end, chunk
    <3> QED
      BY <2>2, <3>1, <3>2 DEF TypeOK
  <2>5. CASE ReadChunk /\ ~(exists /\ next < size)
    BY <2>2, <2>5 DEF ReadChunk
  <2> QED
    BY <2>3, <2>4, <2>5
<1> QED
  BY <1>0, <1>3, <1>5, <1>6 DEF FollowingInv

LEMMA FollowingEnds ==
    ASSUME Assumed, RecordFails \/ Restart
    PROVE  FollowingInv'
<1> USE DEF Assumed
<1>0. DrainsAtTheEnd'
  BY DrainStep DEF Next, EngineStep
<1>1. UNCHANGED <<recorded, waits, changed, told, following, exists>>
      /\ step' = "idle" /\ chunks' = <<>>
  BY DEF RecordFails, Restart, EndOfRead, file
<1>2. LatestPosition' = LatestPosition
  BY <1>1 DEF LatestPosition
<1>3. Watching'
  BY <1>1 DEF FollowingInv, Watching, Running, RecordFails, Restart
<1> QED
  BY <1>0, <1>1, <1>2, <1>3
     DEF FollowingInv, Unlocated, StoredIsUnfinished, OldContentIsSpared, ReadIsOfLatest

(* The last of a read that is recorded gives the position of the next one.  *)
LEMMA RecordedLast ==
    ASSUME Assumed, Record, chunks # <<>>
    PROVE  /\ recorded' = recorded \o chunks /\ recorded' # <<>>
           /\ Last(chunks) = chunks[Len(chunks)] /\ Len(chunks) \in DOMAIN chunks
           /\ LatestPosition' = Last(chunks).position
<1> USE DEF Assumed
<1>1. LatestPosition # Finished /\ Follow(chunks, Resume) /\ Follow(recorded, Start(None))
  BY DEF ReadInv, Record
<1>2. recorded' = recorded \o chunks
  BY <1>1, NothingIsKnown DEF Record
<1>3. recorded' # <<>> /\ Last(recorded') = chunks[Len(chunks)]
      /\ Last(chunks) = chunks[Len(chunks)] /\ Len(chunks) \in DOMAIN chunks
  BY <1>2 DEF TypeOK, Last
<1> QED
  BY <1>2, <1>3 DEF LatestPosition

LEMMA FollowingRecord ==
    ASSUME Assumed, Record
    PROVE  FollowingInv'
<1> USE DEF Assumed
<1>0. DrainsAtTheEnd'
  BY DrainStep DEF Next, EngineStep
<1>1. UNCHANGED <<waits, changed, told, notice, watched>> /\ step = "recording"
  BY DEF Record
<1>2. following' # None => UNCHANGED <<following, exists>>
  BY DEF Record, DropFollowing
<1>3. chunks' = <<>>
  BY DEF Record, EndOfRead, BeginRead
<1>4. Unlocated' /\ Watching' /\ ReadIsOfLatest'
  BY <1>1, <1>2, <1>3 DEF FollowingInv, Unlocated, Watching, Running, ReadIsOfLatest
<1>5. StoredIsUnfinished'
  <2>1. SUFFICES ASSUME following' # None PROVE LatestPosition' # Finished
    BY <1>2, <1>3 DEF FollowingInv, StoredIsUnfinished
  <2>2. /\ LatestPosition # Finished
        /\ \A i \in DOMAIN chunks : chunks[i].position # Finished
    BY <1>2, <2>1 DEF FollowingInv, StoredIsUnfinished
  <2>3. CASE chunks = <<>>
    <3>1. recorded' = recorded
      BY <2>3 DEF Record, New, TypeOK
    <3> QED
      BY <2>2, <3>1 DEF LatestPosition
  <2>4. CASE chunks # <<>>
    BY <2>2, <2>4, RecordedLast
  <2> QED
    BY <2>3, <2>4
<1>6. OldContentIsSpared'
  <2>1. SUFFICES ASSUME waits, ~changed PROVE recorded' = <<>> /\ step' = "idle"
    BY <1>1, <1>3 DEF OldContentIsSpared
  <2>2. recorded = <<>> /\ chunks = <<>>
    BY <2>1 DEF FollowingInv, OldContentIsSpared
  <2> QED
    BY <2>2 DEF Record, New, EndOfRead
<1> QED
  BY <1>0, <1>4, <1>5, <1>6 DEF FollowingInv

LEMMA FollowingStep == Assumed /\ [Next]_vars => FollowingInv'
BY FollowingOutside, FollowingBegins, FollowingReads, FollowingEnds, FollowingRecord
   DEF Next, EngineStep

----
(* The read that takes a notice goes to the end of what was there. *)

(* A write after the end of the file was read is a notice of its own. *)
LEMMA ToTheEndOutside ==
    ASSUME Assumed, ReadToTheEnd,
           Write \/ Truncate \/ Age \/ (\E fact \in Facts : React(fact) \/ ReactionFails(fact))
           \/ UNCHANGED vars
    PROVE  ReadToTheEnd'
<1> USE DEF Assumed
<1>1. SUFFICES ASSUME following' # None, Running', ~notice'
               PROVE  UNCHANGED <<following, size, changed, waits, recorded, step, chunks, next>>
                      /\ Running /\ ~notice
  BY DEF ReadToTheEnd, Done, Start, RecordedTo
<1>2. CASE Write \/ Truncate
  <2>1. following # None /\ Running /\ ~notice /\ ~watched
    BY <1>1, <1>2 DEF Write, Truncate, Running
  <2> QED
    BY <2>1 DEF FollowingInv, Watching
<1>3. CASE Age \/ \E fact \in Facts : React(fact)
  BY <1>1, <1>3 DEF Age, React
<1>4. CASE UNCHANGED vars \/ \E fact \in Facts : ReactionFails(fact)
  BY <1>1, <1>4 DEF ReactionFails, Running, vars, file, reader
<1> QED
  BY <1>2, <1>3, <1>4

LEMMA ToTheEndReads ==
    ASSUME Assumed, ReadToTheEnd,
           BeginPull \/ BeginDrain \/ ReadChunk \/ RecordFails \/ Restart
    PROVE  ReadToTheEnd'
<1> USE DEF Assumed
<1>1. SUFFICES ASSUME following' # None, Running', ~notice'
               PROVE  /\ step' = "idle" => Done'
                      /\ step' = "recording" /\ chunks' = <<>> => Done'
                      /\ step' = "ended" => size' <= next'
  BY DEF ReadToTheEnd
<1>2. CASE BeginPull
  <2>1. /\ following # None /\ Running /\ BeginRead(following, LatestPosition)
        /\ UNCHANGED <<size, changed, waits, recorded>>
    BY <1>1, <1>2 DEF BeginPull, Running
  <2>2. CASE Readable(LatestPosition)
    BY <2>1, <2>2 DEF BeginRead
  <2>3. CASE ~Readable(LatestPosition)
    <3>1. LatestPosition # Finished
      BY <2>1 DEF FollowingInv, StoredIsUnfinished
    <3>2. ~changed
      BY <2>3, <3>1 DEF Readable
    <3> QED
      BY <2>1, <2>3, <3>2 DEF BeginRead, Done
  <2> QED
    BY <2>2, <2>3
<1>3. CASE BeginDrain
  BY <1>1, <1>3 DEF BeginDrain, Running
<1>4. CASE ReadChunk
  <2>1. following # None /\ step' \in {"reading", "ended"} /\ UNCHANGED <<size, exists>>
    BY <1>1, <1>4 DEF ReadChunk, file
  <2>2. exists
    BY <2>1 DEF FollowingInv, StoredIsUnfinished
  <2>3. step' = "ended" => ~(next < size) /\ next' = next
    BY <1>4, <2>2 DEF ReadChunk
  <2> QED
    BY <2>1, <2>3 DEF TypeOK
<1>5. CASE RecordFails
  <2>1. draining /\ Running
    BY <1>1, <1>5 DEF RecordFails, Running, TypeOK
  <2> QED
    BY <2>1 DEF FollowingInv, DrainsAtTheEnd
<1>6. CASE Restart
  BY <1>1, <1>6 DEF Restart
<1> QED
  BY <1>2, <1>3, <1>4, <1>5, <1>6

LEMMA ToTheEndEnds ==
    ASSUME Assumed, ReadToTheEnd, EndRead
    PROVE  ReadToTheEnd'
<1> USE DEF Assumed
<1>1. SUFFICES ASSUME following' # None, Running', ~notice', chunks' = <<>>
               PROVE  Done'
  BY DEF ReadToTheEnd, EndRead
<1>2. /\ following # None /\ Running /\ ~notice /\ step = "ended" /\ chunks = <<>>
      /\ UNCHANGED <<size, changed, waits, recorded>>
  BY <1>1 DEF EndRead, DropFollowing, Running
<1>3. /\ size <= next /\ next = Resume
      /\ LatestPosition # Finished /\ Follow(recorded, Start(None))
  BY <1>2 DEF ReadToTheEnd, ReadInv
<1>4. Resume = IF recorded = <<>> THEN Start(None) ELSE recorded[Len(recorded)].end
  BY <1>3, ResumeIsTheEnd
<1>5. Start(None) \in Nat
  BY StartType, PositionsAssumption DEF Positions
<1>6. CASE recorded = <<>>
  BY <1>2, <1>3, <1>4, <1>5, <1>6 DEF Done, Start, TypeOK
<1>7. CASE recorded # <<>>
  <2>1. Last(recorded) = recorded[Len(recorded)]
    BY <1>7 DEF TypeOK, Last
  <2>2. size <= Last(recorded).end
    BY <1>3, <1>4, <1>7, <2>1
  <2> QED
    BY <1>2, <1>7, <2>2 DEF Done, RecordedTo
<1> QED
  BY <1>6, <1>7

(* After a record with chunks the puller reads again; the end of the last   *)
(* one is not the position the read began at.                               *)
LEMMA ToTheEndRecord ==
    ASSUME Assumed, ReadToTheEnd, Record
    PROVE  ReadToTheEnd'
<1> USE DEF Assumed
<1>1. SUFFICES ASSUME following' # None, Running', ~notice'
               PROVE  /\ step' = "idle" => Done'
                      /\ step' = "recording" /\ chunks' = <<>> => Done'
                      /\ step' = "ended" => size' <= next'
  BY DEF ReadToTheEnd
<1>2. /\ ~draining /\ following # None /\ Running /\ ~notice /\ step = "recording"
      /\ UNCHANGED <<size, changed, waits>>
  BY <1>1 DEF Record, DropFollowing, Running
<1>3. CASE chunks = <<>>
  <2>1. Done /\ recorded' = recorded /\ step' = "idle"
    BY <1>2, <1>3 DEF Record, ReadToTheEnd, New, EndOfRead, TypeOK
  <2> QED
    BY <1>2, <2>1 DEF Done, Start, RecordedTo
<1>4. CASE chunks # <<>>
  <2>1. /\ LatestPosition # Finished /\ position = LatestPosition
        /\ Follow(chunks, Resume) /\ Follow(recorded, Start(None))
        /\ \A i \in DOMAIN chunks : chunks[i].position # Finished
    BY <1>2, <1>4 DEF ReadInv, FollowingInv, StoredIsUnfinished, ReadIsOfLatest
  <2>2. /\ Last(chunks) = chunks[Len(chunks)] /\ Len(chunks) \in DOMAIN chunks
        /\ 1 \in DOMAIN chunks
        /\ chunks[Len(chunks)] \in Chunk /\ chunks[1] \in Chunk
    BY <1>4, RecordedLast DEF TypeOK
  <2>3. Last(chunks).position = chunks[Len(chunks)].end
    BY <2>1, <2>2 DEF Follow
  <2>4. Resume < Last(chunks).position
    BY <2>1, <2>2, <2>3, ResumeType DEF Follow, Chunk
  <2>5. Last(chunks).position \in Nat
    BY <2>2, <2>3 DEF Chunk
  <2>6. Last(chunks).position # position
    <3>1. SUFFICES ASSUME LatestPosition = Last(chunks).position PROVE FALSE
      BY <2>1
    <3>2. Resume = LatestPosition
      BY <2>5, <3>1, PositionsAssumption DEF Resume, Start
    <3> QED
      BY <2>4, <2>5, <3>1, <3>2
  <2>7. BeginRead(held, Last(chunks).position)
    BY <1>2, <1>4, <2>6 DEF Record
  <2>8. Readable(Last(chunks).position)
    BY <2>5, PositionsAssumption DEF Readable
  <2> QED
    BY <2>7, <2>8 DEF BeginRead
<1> QED
  BY <1>3, <1>4

LEMMA ToTheEndStep == Assumed /\ ReadToTheEnd /\ [Next]_vars => ReadToTheEnd'
BY ToTheEndOutside, ToTheEndReads, ToTheEndEnds, ToTheEndRecord DEF Next, EngineStep

(* Output that is in the file is read or going to be, for any file, read    *)
(* size, number of failures and of restarts: no wake-up is lost.            *)
THEOREM OutputIsNotForgotten == Spec => []UnreadOutputIsAwaited
<1>1. Assumed /\ [Next]_vars => Assumed'
  BY TypeStep, ReadStep, FollowingStep DEF Assumed
<1>2. Init => Assumed /\ ReadToTheEnd
  BY TypeInit, ReadInit, FollowingInit DEF Assumed
<1>3. ReadToTheEnd => UnreadOutputIsAwaited
  BY DEF ReadToTheEnd, UnreadOutputIsAwaited, Done
<1> QED
  BY <1>1, <1>2, <1>3, ToTheEndStep, PTL DEF Spec
====
