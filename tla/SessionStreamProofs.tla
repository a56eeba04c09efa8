---- MODULE SessionStreamProofs ----
(***************************************************************************)
(* Proofs about a client that follows a session, for any number of         *)
(* writers, facts, rows and lost connections, and any page sizes.  Rows    *)
(* get growing numbers and a read shows whole commits, so a cursor never   *)
(* passes a row that is not shown; whoever changes the tables owes a       *)
(* publication, and a reader clears its event before it reads.             *)
(***************************************************************************)
EXTENDS SessionStream, WellFoundedInduction, TLAPS

(* A set of numbers up to a bound, if it is not empty, has a greatest one. *)
LEMMA MaxIsGreatest ==
    ASSUME NEW n \in Nat, NEW S \in SUBSET (0..n), S # {}
    PROVE  Max(S) \in S /\ \A y \in S : Max(S) >= y
<1> DEFINE T == {m \in Nat : \E x \in S : m = n - x}
<1>1. \A x \in S : n - x \in T
  OBVIOUS
<1>2. PICK t \in T : \A y \in T : ~ (<<y, t>> \in OpToRel(<, Nat))
  BY <1>1, NatLessThanWellFounded, WFMin
<1>3. PICK x \in S : t = n - x
  BY <1>2
<1>4. ASSUME NEW y \in S PROVE x >= y
  <2>1. n - y \in T
    BY <1>1
  <2>2. ~(n - y < t)
    BY <1>2, <2>1 DEF OpToRel
  <2> QED
    BY <2>2, <1>3
<1> QED
  BY <1>4 DEF Max

----
(* Types and bounds. *)

Bounded ==
    /\ live \in 1..Len(entries) + 1
    /\ \A n \in 1..Len(entries) : entries[n] <= folded
    /\ sessionRow <= folded /\ seen <= folded /\ cursor <= folded /\ frame.cursor <= folded
    /\ got \union received \union frame.rows \subseteq 1..Len(entries)
    /\ base # NoRow => base <= Len(entries)
    /\ entryCursor # NoRow => entryCursor <= Len(entries)

TypeInv == TypeOK /\ Bounded

(* What the engine does to the tables: rows are added at the end, those of  *)
(* an older view are gone, and a change makes somebody publish.             *)
Grow ==
    /\ Len(entries') >= Len(entries)
    /\ \A n \in 1..Len(entries) : entries'[n] = entries[n]
    /\ folded' >= folded
    /\ \/ sessionRow' = sessionRow
       \/ sessionRow' = folded + 1 /\ folded' = folded + 1
    /\ \/ view' = view /\ live' = live
       \/ view' = view + 1 /\ live' = Len(entries) + 1
    /\ \/ owing' # {}
       \/ UNCHANGED <<entries, sessionRow, view, live, signal>>
    /\ UNCHANGED <<browser, server, listening>>

LEMMA AppendRow ==
    ASSUME NEW s \in Seq(Nat), NEW row \in Nat
    PROVE  /\ Append(s, row) \in Seq(Nat) /\ Len(Append(s, row)) = Len(s) + 1
           /\ \A n \in 1..Len(s) + 1 :
                  Append(s, row)[n] = IF n <= Len(s) THEN s[n] ELSE row
  OBVIOUS

LEMMA EntriesType ==
    ASSUME TypeInv
    PROVE  /\ entries \in Seq(Nat) /\ Len(entries) \in Nat
           /\ folded \in Nat /\ origin \in Nat
           /\ \A n \in 1..Len(entries) : entries[n] \in Nat /\ entries[n] <= folded
  BY DEF TypeInv, TypeOK, Bounded

LEMMA GrowStep ==
    ASSUME TypeInv, Fold \/ Project \/ SwitchHistory
    PROVE  /\ Grow
           /\ entries' \in Seq(Nat)
           /\ live' \in 1..Len(entries') + 1
           /\ \A n \in 1..Len(entries') : entries'[n] <= folded'
           /\ {folded', sessionRow', view', origin'} \subseteq Nat
           /\ sessionRow' <= folded'
           /\ owing' \in SUBSET Writers
           /\ UNCHANGED <<ready, batching, deferred, sending, posted, drops>>
<1> USE DEF TypeInv, TypeOK, SignalTypeOK, Bounded
<1>1. CASE Fold
  <2>1. PICK count \in 0..2, changesSession \in BOOLEAN :
            /\ entries' = entries \o [k \in 1..count |-> folded']
            /\ sessionRow' = IF changesSession THEN folded' ELSE sessionRow
            /\ IF count > 0 \/ changesSession
               THEN Committed(Engine)
               ELSE Free(Engine) /\ UNCHANGED signal
    BY <1>1 DEF Fold
  <2>2. folded' = folded + 1 /\ UNCHANGED <<live, origin, view, browser, server, drops>>
    BY <1>1 DEF Fold
  <2> DEFINE new == [k \in 1..count |-> folded']
  <2>3. new \in Seq(Nat) /\ Len(new) = count
    BY <2>2
  <2>4. /\ entries' \in Seq(Nat) /\ Len(entries') = Len(entries) + count
        /\ \A n \in 1..Len(entries') :
              entries'[n] = IF n <= Len(entries) THEN entries[n] ELSE folded'
    BY <2>1, <2>2, <2>3
  <2>5. sessionRow' \in {sessionRow, folded + 1}
    BY <2>1, <2>2
  <2>6. /\ owing' # {} \/ UNCHANGED <<entries, sessionRow, signal>>
        /\ owing' \in SUBSET Writers
        /\ UNCHANGED <<listening, ready, batching, deferred, sending, posted>>
    <3>1. CASE count > 0 \/ changesSession
      BY <2>1, <3>1, EngineAssumption DEF Committed
    <3>2. CASE ~(count > 0 \/ changesSession)
      <4>1. entries' = entries /\ sessionRow' = sessionRow /\ UNCHANGED signal
        BY <2>1, <2>3, <2>4, <3>2
      <4> QED
        BY <4>1 DEF signal
    <3> QED
      BY <3>1, <3>2
  <2> HIDE DEF new
  <2>7. /\ Len(entries) \in Nat /\ Len(entries') >= Len(entries)
        /\ \A n \in 1..Len(entries) : entries'[n] = entries[n]
        /\ \A n \in 1..Len(entries') : entries'[n] <= folded'
    <3>1. count \in Nat
      OBVIOUS
    <3> HIDE DEF TypeInv, TypeOK, SignalTypeOK, Bounded
    <3>2. Len(entries) \in Nat /\ folded \in Nat
      BY EntriesType
    <3>3. /\ Len(entries') >= Len(entries)
          /\ \A n \in 1..Len(entries) : n \in 1..Len(entries') /\ n <= Len(entries)
      BY <2>4, <3>1, <3>2
    <3>4. \A n \in 1..Len(entries) : entries'[n] = entries[n]
      BY <2>4, <3>3
    <3>5. ASSUME NEW n \in 1..Len(entries') PROVE entries'[n] <= folded'
      <4>1. CASE n <= Len(entries)
        <5>1. n \in 1..Len(entries)
          BY <4>1, <3>2
        <5>2. entries'[n] = entries[n] /\ entries[n] \in Nat /\ entries[n] <= folded
          BY <5>1, <3>4, EntriesType
        <5> QED
          BY <5>2, <2>2, <3>2
      <4>2. CASE ~(n <= Len(entries))
        BY <4>2, <2>2, <2>4, <3>2
      <4> QED
        BY <4>1, <4>2
    <3> QED
      BY <3>2, <3>3, <3>4, <3>5
  <2>8. sessionRow' <= folded' /\ {folded', sessionRow', view', origin'} \subseteq Nat
    BY <2>2, <2>5
  <2>9. live' \in 1..Len(entries') + 1
    BY <2>2, <2>4
  <2>10. Grow
    BY <2>2, <2>5, <2>6, <2>7 DEF Grow
  <2> QED
    BY <2>2, <2>4, <2>6, <2>7, <2>8, <2>9, <2>10
<1>2. CASE Project
  <2>1. PICK commit \in origin..folded : entries' = Append(entries, commit)
    BY <1>2 DEF Project
  <2>2. /\ UNCHANGED <<live, origin, folded, sessionRow, view, browser, server, drops>>
        /\ Committed(Engine)
    BY <1>2 DEF Project
  <2>3. commit \in Nat /\ commit <= folded
    <3> HIDE DEF TypeInv, TypeOK, SignalTypeOK, Bounded
    <3> QED
      BY EntriesType
  <2>4. /\ entries' \in Seq(Nat) /\ Len(entries') = Len(entries) + 1
        /\ \A n \in 1..Len(entries') :
              entries'[n] = IF n <= Len(entries) THEN entries[n] ELSE commit
    <3> HIDE DEF TypeInv, TypeOK, SignalTypeOK, Bounded
    <3> QED
      BY <2>1, <2>3, EntriesType, AppendRow
  <2>5. /\ owing' # {} /\ owing' \in SUBSET Writers
        /\ UNCHANGED <<listening, ready, batching, deferred, sending, posted>>
    BY <2>2, EngineAssumption DEF Committed
  <2>6. /\ Len(entries) \in Nat /\ Len(entries') >= Len(entries)
        /\ \A n \in 1..Len(entries) : entries'[n] = entries[n]
        /\ \A n \in 1..Len(entries') : entries'[n] <= folded'
    <3>1. folded' = folded
      BY <2>2
    <3> HIDE DEF TypeInv, TypeOK, SignalTypeOK, Bounded
    <3>2. Len(entries) \in Nat /\ folded \in Nat
      BY EntriesType
    <3>3. /\ Len(entries') >= Len(entries)
          /\ \A n \in 1..Len(entries) : n \in 1..Len(entries') /\ n <= Len(entries)
      BY <2>4, <3>2
    <3>4. \A n \in 1..Len(entries) : entries'[n] = entries[n]
      BY <2>4, <3>3
    <3>5. ASSUME NEW n \in 1..Len(entries') PROVE entries'[n] <= folded'
      <4>1. CASE n <= Len(entries)
        <5>1. n \in 1..Len(entries)
          BY <4>1, <3>2
        <5> QED
          BY <5>1, <3>1, <3>4, EntriesType
      <4>2. CASE ~(n <= Len(entries))
        BY <4>2, <2>3, <2>4, <3>1
      <4> QED
        BY <4>1, <4>2
    <3> QED
      BY <3>2, <3>3, <3>4, <3>5
  <2>7. sessionRow' <= folded' /\ {folded', sessionRow', view', origin'} \subseteq Nat
    BY <2>2
  <2>8. live' \in 1..Len(entries') + 1
    BY <2>2, <2>4
  <2>9. Grow
    BY <2>2, <2>5, <2>6 DEF Grow
  <2> QED
    BY <2>2, <2>4, <2>5, <2>6, <2>7, <2>8, <2>9
<1>3. CASE SwitchHistory
  <2>1. /\ folded' = folded + 1 /\ origin' = folded' /\ sessionRow' = folded'
        /\ live' = Len(entries) + 1 /\ view' = view + 1
        /\ entries' = Append(entries, folded')
        /\ UNCHANGED <<browser, server, drops>>
        /\ Committed(Engine)
    BY <1>3 DEF SwitchHistory
  <2>2. /\ entries' \in Seq(Nat) /\ Len(entries') = Len(entries) + 1
        /\ \A n \in 1..Len(entries') :
              entries'[n] = IF n <= Len(entries) THEN entries[n] ELSE folded'
    <3> HIDE DEF TypeInv, TypeOK, SignalTypeOK, Bounded
    <3>1. folded' \in Nat
      BY <2>1, EntriesType
    <3> QED
      BY <2>1, <3>1, EntriesType, AppendRow
  <2>3. /\ owing' # {} /\ owing' \in SUBSET Writers
        /\ UNCHANGED <<listening, ready, batching, deferred, sending, posted>>
    BY <2>1, EngineAssumption DEF Committed
  <2>4. /\ Len(entries) \in Nat /\ Len(entries') >= Len(entries)
        /\ \A n \in 1..Len(entries) : entries'[n] = entries[n]
        /\ \A n \in 1..Len(entries') : entries'[n] <= folded'
    <3> HIDE DEF TypeInv, TypeOK, SignalTypeOK, Bounded
    <3>1. folded' = folded + 1
      BY <2>1
    <3>2. Len(entries) \in Nat /\ folded \in Nat
      BY EntriesType
    <3>3. /\ Len(entries') >= Len(entries)
          /\ \A n \in 1..Len(entries) : n \in 1..Len(entries') /\ n <= Len(entries)
      BY <2>2, <3>2
    <3>4. \A n \in 1..Len(entries) : entries'[n] = entries[n]
      BY <2>2, <3>3
    <3>5. ASSUME NEW n \in 1..Len(entries') PROVE entries'[n] <= folded'
      <4>1. CASE n <= Len(entries)
        <5>1. n \in 1..Len(entries)
          BY <4>1, <3>2
        <5>2. entries'[n] = entries[n] /\ entries[n] \in Nat /\ entries[n] <= folded
          BY <5>1, <3>4, EntriesType
        <5> QED
          BY <5>2, <3>1, <3>2
      <4>2. CASE ~(n <= Len(entries))
        BY <4>2, <2>2, <3>1, <3>2
      <4> QED
        BY <4>1, <4>2
    <3> QED
      BY <3>2, <3>3, <3>4, <3>5
  <2>5. sessionRow' <= folded' /\ {folded', sessionRow', view', origin'} \subseteq Nat
    BY <2>1
  <2>6. live' \in 1..Len(entries') + 1
    BY <2>1, <2>2
  <2>7. Grow
    BY <2>1, <2>3, <2>4 DEF Grow
  <2> QED
    BY <2>1, <2>2, <2>3, <2>4, <2>5, <2>6, <2>7
<1> QED
  BY <1>1, <1>2, <1>3

----
(* What a read finds. *)

LEMMA RowsType == ASSUME TypeInv PROVE Rows \subseteq 1..Len(entries)
  BY DEF TypeInv, TypeOK, Rows

(* A reader without an entry row is taken to have the last row of its commits. *)
Known == IF entryCursor = NoRow THEN KnownRow(cursor) ELSE entryCursor

LEMMA KnownType == ASSUME TypeInv PROVE Known \in 0..Len(entries)
<1>1. CASE entryCursor = NoRow
  <2> DEFINE S == {0} \union {n \in Rows : entries[n] <= cursor}
  <2>1. S \in SUBSET (0..Len(entries)) /\ Len(entries) \in Nat
    BY RowsType DEF TypeInv, TypeOK
  <2>2. Max(S) \in S
    BY <2>1, MaxIsGreatest
  <2> QED
    BY <1>1, <2>1, <2>2 DEF Known, KnownRow
<1>2. CASE entryCursor # NoRow
  BY <1>2 DEF Known, TypeInv, TypeOK, Bounded
<1> QED
  BY <1>1, <1>2

(* A page is a part of what was found, and its cursor does not pass a row   *)
(* that was left for the next page.                                         *)
LEMMA PageFacts ==
    ASSUME TypeInv, NEW known \in 0..Len(entries), NEW newSession \in BOOLEAN
    PROVE  LET rows == After(cursor, known)
               page == PageRows(rows, cursor)
               end  == PageCursor(rows, page, cursor, newSession)
           IN /\ page \subseteq rows /\ rows \subseteq Rows
              /\ end \in 0..folded
              /\ \A n \in rows \ page : entries[n] > end
<1> DEFINE rows == After(cursor, known)
           page == PageRows(rows, cursor)
           end == PageCursor(rows, page, cursor, newSession)
           commits == {entries[n] : n \in page}
           found == commits \union (IF page = rows /\ newSession THEN {sessionRow} ELSE {})
<1>1. page \subseteq rows /\ rows \subseteq Rows /\ rows \subseteq 1..Len(entries)
  BY RowsType DEF After, PageRows
<1>2. cursor \in 0..folded /\ folded \in Nat /\ sessionRow \in 0..folded
  BY DEF TypeInv, TypeOK, Bounded
<1>3. \A n \in rows : entries[n] \in 0..folded
  BY <1>1 DEF TypeInv, TypeOK, Bounded
<1>4. found \in SUBSET (0..folded)
  BY <1>1, <1>2, <1>3
<1>5. CASE found = {}
  <2>1. end = cursor
    BY <1>5 DEF PageCursor
  <2>2. ASSUME NEW n \in rows \ page PROVE entries[n] > end
    <3>1. PICK m \in Overflows(rows, cursor) : ~(entries[n] < entries[m])
      BY DEF PageRows
    <3>2. m \in rows /\ entries[m] > cursor
      BY <3>1 DEF Overflows
    <3> QED
      BY <1>2, <1>3, <2>1, <3>1, <3>2
  <2> QED
    BY <1>1, <1>2, <2>1, <2>2
<1>6. CASE found # {} /\ page = rows
  <2>1. end = Max(found)
    BY <1>6 DEF PageCursor
  <2> QED
    BY <1>1, <1>2, <1>4, <1>6, <2>1, MaxIsGreatest
<1>7. CASE found # {} /\ page # rows
  <2> DEFINE S == {cursor} \union found
  <2>1. end = Max(S)
    BY <1>7 DEF PageCursor
  <2>2. S \in SUBSET (0..folded)
    BY <1>2, <1>4
  <2>3. end \in S
    BY <1>2, <2>1, <2>2, MaxIsGreatest
  <2>4. ASSUME NEW n \in rows \ page PROVE entries[n] > end
    <3>1. PICK m \in Overflows(rows, cursor) : ~(entries[n] < entries[m])
      BY DEF PageRows
    <3>2. m \in rows /\ entries[m] > cursor
      BY <3>1 DEF Overflows
    <3>3. \A k \in page : entries[k] < entries[m]
      BY <3>1 DEF PageRows
    <3>4. page # rows /\ entries[m] \in Nat
      BY <1>2, <1>3, <1>7, <3>2
    <3>5. found = commits
      BY <3>4
    <3>6. end < entries[m]
      <4>1. CASE end = cursor
        BY <4>1, <3>2, <1>2, <3>4
      <4>2. CASE end \in commits
        BY <4>2, <3>3
      <4> QED
        BY <2>3, <3>5, <4>1, <4>2
    <3>7. end \in Nat
      BY <1>2, <2>2, <2>3
    <3>8. entries[n] \in Nat
      BY <1>2, <1>3
    <3> HIDE DEF end, rows, page
    <3> QED
      BY <3>1, <3>4, <3>6, <3>7, <3>8
  <2> QED
    BY <1>1, <2>2, <2>3, <2>4
<1> QED
  BY <1>5, <1>6, <1>7

(* The read in terms of these facts. *)
LEMMA ReadStep ==
    ASSUME TypeInv, Read
    PROVE  \E rows \in SUBSET Rows : \E page \in SUBSET rows :
              /\ rows = After(cursor, Known)
              /\ stream = "reading" /\ stream' = "sending"
              /\ frame' \in Frames
              /\ frame'.rows = page
              /\ frame'.session = IF sessionRow > cursor THEN sessionRow ELSE 0
              /\ frame'.reset = ViewReplaced
              /\ frame'.view = view
              /\ frame'.cursor \in 0..folded
              /\ \A n \in rows \ page : entries[n] > frame'.cursor
              /\ more' = (page # rows)
              /\ entryCursor' \in 0..Len(entries)
              /\ \A n \in page \union {Known} : n <= entryCursor'
              /\ entryCursor' \in page \union {Known}
              /\ streamView' = IF streamView = NoView THEN view ELSE streamView
              /\ cursor' = IF ViewReplaced THEN cursor ELSE frame'.cursor
              /\ UNCHANGED <<signal, tables, browser, received, drops>>
<1> DEFINE rows == After(cursor, Known)
           page == PageRows(rows, cursor)
           newSession == sessionRow > cursor
<1>1. Known \in 0..Len(entries) /\ newSession \in BOOLEAN
  BY KnownType DEF TypeInv, TypeOK
<1>2. /\ page \subseteq rows /\ rows \subseteq Rows
      /\ PageCursor(rows, page, cursor, newSession) \in 0..folded
      /\ \A n \in rows \ page : entries[n] > PageCursor(rows, page, cursor, newSession)
  BY <1>1, PageFacts
<1>3. frame' = [rows |-> page,
                session |-> IF newSession THEN sessionRow ELSE 0,
                cursor |-> PageCursor(rows, page, cursor, newSession),
                reset |-> ViewReplaced,
                view |-> view]
  BY DEF Read, Known
<1>4. frame' \in Frames
  BY <1>2, <1>3, RowsType DEF Frames, ViewReplaced, TypeInv, TypeOK
<1>5. entryCursor' = Max({Known} \union page)
  BY DEF Read, Known
<1>6. /\ entryCursor' \in {Known} \union page
      /\ \A n \in {Known} \union page : entryCursor' >= n
  <2>1. {Known} \union page \in SUBSET (0..Len(entries)) /\ Len(entries) \in Nat
    BY <1>1, <1>2, RowsType DEF TypeInv, TypeOK
  <2> QED
    BY <1>5, <2>1, MaxIsGreatest
<1>7. /\ stream = "reading" /\ stream' = "sending"
      /\ more' = (page # rows)
      /\ streamView' = IF streamView = NoView THEN view ELSE streamView
      /\ cursor' = IF ViewReplaced THEN cursor ELSE frame'.cursor
      /\ UNCHANGED <<signal, tables, browser, received, drops>>
  BY DEF Read, Known
<1>8. \A n \in {Known} \union page : n \in 0..Len(entries) 
  BY <1>1, <1>2, RowsType
<1> HIDE DEF rows, page, newSession
<1>9. frame'.rows = page /\ frame'.session = (IF newSession THEN sessionRow ELSE 0)
      /\ frame'.cursor = PageCursor(rows, page, cursor, newSession)
      /\ frame'.reset = ViewReplaced /\ frame'.view = view
  BY <1>3
<1>10. /\ page \in SUBSET rows /\ rows \in SUBSET Rows
       /\ frame'.cursor \in 0..folded
       /\ \A n \in rows \ page : entries[n] > frame'.cursor
       /\ entryCursor' \in 0..Len(entries)
       /\ \A n \in page \union {Known} : n <= entryCursor'
  BY <1>2, <1>6, <1>8, <1>9
<1> QED
  <2> USE <1>10
  <2> WITNESS rows \in SUBSET Rows
  <2> WITNESS page \in SUBSET rows
  <2> QED
    BY <1>4, <1>6, <1>7, <1>9, <1>10 DEF rows, newSession

----
LEMMA TypeInit == Init => TypeInv
<1> SUFFICES ASSUME Init PROVE TypeInv
  OBVIOUS
<1>1. SignalTypeOK
  BY DEF Init, SignalInit, SignalTypeOK
<1>2. entries = <<>> /\ Len(entries) = 0
  BY DEF Init
<1>3. NoFrame \in Frames /\ NoFrame.cursor = 0 /\ NoFrame.rows = {}
  BY DEF NoFrame, Frames
<1> QED
  <2>1. TypeOK
    <3>1. Client \notin listening /\ stream = "closed"
      BY DEF Init, SignalInit
    <3>2. entries \in Seq(Nat) /\ oldest \in Nat \X Nat
      BY DEF Init
    <3>3. {live, origin, folded, sessionRow, view, seen, session, pageView, cursor, drops} \subseteq Nat
      BY DEF Init
    <3>4. frame \in Frames /\ more \in BOOLEAN /\ got = {} /\ received = {}
      BY <1>3 DEF Init
    <3>5. base = NoRow /\ entryCursor = NoRow /\ knownView = NoView /\ streamView = NoView
      BY DEF Init
    <3>6. client \in {"away", "loading", "loaded"} /\ stream \in Places
      BY DEF Init, Places
    <3> QED
      BY <1>1, <3>1, <3>2, <3>3, <3>4, <3>5, <3>6 DEF TypeOK
  <2>2. Bounded
    BY <1>2, <1>3 DEF Init, Bounded
  <2> QED
    BY <2>1, <2>2 DEF TypeInv

(* Steps of the change signal that neither add nor remove a reader. *)
SignalStep ==
    \/ \E w \in Writers : Unrelated(w) \/ Signal(w)
    \/ Drain \/ LoopCallback

LEMMA SignalStepType ==
    ASSUME TypeInv, SignalStep
    PROVE  /\ SignalTypeOK'
           /\ UNCHANGED <<listening, tables, browser, server, drops>>
<1> USE DEF TypeInv, TypeOK, SignalTypeOK
<1>1. ASSUME NEW w \in Writers, Unrelated(w) \/ Signal(w)
      PROVE  SignalTypeOK' /\ UNCHANGED <<listening, tables, browser, server, drops>>
  <2>1. CASE Unrelated(w)
    BY <2>1 DEF Unrelated, Committed
  <2>2. CASE LeaveBatch(w)
    BY <1>1, <2>2 DEF Unrelated, Signal, LeaveBatch, Committed
  <2>3. CASE Publish(w)
    BY <1>1, <2>3 DEF Unrelated, Signal, Publish, Committed
  <2>4. CASE Deliver(w, Client)
    BY <1>1, <2>4, ClientAssumption DEF Unrelated, Signal, Deliver, Committed
  <2> QED
    BY <1>1, <2>1, <2>2, <2>3, <2>4 DEF Signal
<1>2. CASE Drain
  BY <1>2, EngineAssumption DEF Drain, EnterBatch
<1>3. CASE LoopCallback
  BY <1>3, ClientAssumption DEF LoopCallback, RunCallback
<1> QED
  BY <1>1, <1>2, <1>3 DEF SignalStep

LEMMA CloseType ==
    ASSUME TypeInv, Close
    PROVE  SignalTypeOK' /\ Client \notin listening' /\ stream' = "closed" /\ frame' = NoFrame
  BY DEF TypeInv, TypeOK, SignalTypeOK, Close, Unsubscribe

LEMMA NoFrameType == NoFrame \in Frames /\ NoFrame.cursor = 0 /\ NoFrame.rows = {}
                     /\ NoFrame.session = 0 /\ NoFrame.reset = FALSE /\ NoFrame.view = 0
  BY DEF NoFrame, Frames

LEMMA TypeStep == TypeInv /\ [Next]_vars => TypeInv'
<1> SUFFICES ASSUME TypeInv, [Next]_vars PROVE TypeInv'
  OBVIOUS
<1> USE DEF TypeInv
<1>1. CASE Fold \/ Project \/ SwitchHistory
  <2>1. /\ SignalTypeOK' /\ UNCHANGED <<browser, server, listening, drops>>
        /\ entries' \in Seq(Nat) /\ Len(entries') >= Len(entries) /\ folded' >= folded
        /\ \A n \in 1..Len(entries') : entries'[n] <= folded'
        /\ live' \in 1..Len(entries') + 1
        /\ {folded', sessionRow', view', origin'} \subseteq Nat
        /\ sessionRow' <= folded'
    BY <1>1, GrowStep DEF Grow, TypeOK, SignalTypeOK
  <2>2. TypeOK'
    BY <2>1 DEF TypeOK, browser, server
  <2>3. Bounded'
    <3>1. Len(entries) \in Nat /\ Len(entries') \in Nat /\ folded \in Nat /\ folded' \in Nat
      BY <2>1, EntriesType
    <3>2. UNCHANGED <<seen, cursor, frame, got, received, base, entryCursor>>
      BY <2>1 DEF browser, server
    <3>3. seen \in Nat /\ cursor \in Nat /\ frame.cursor \in Nat
      BY DEF TypeOK, Frames
    <3>4. seen <= folded' /\ cursor <= folded' /\ frame.cursor <= folded'
      BY <2>1, <3>1, <3>3 DEF Bounded
    <3>5. got \union received \union frame.rows \subseteq 1..Len(entries')
      BY <2>1, <3>1 DEF Bounded
    <3>6. base # NoRow => base <= Len(entries')
      BY <2>1, <3>1 DEF Bounded, TypeOK
    <3>7. entryCursor # NoRow => entryCursor <= Len(entries')
      BY <2>1, <3>1 DEF Bounded, TypeOK
    <3> QED
      BY <2>1, <3>2, <3>4, <3>5, <3>6, <3>7 DEF Bounded
  <2> QED
    BY <2>2, <2>3
<1>2. CASE SignalStep
  BY <1>2, SignalStepType DEF TypeOK, Bounded, tables, browser, server
<1>3. CASE ClearEvent
  BY <1>3 DEF ClearEvent, Clear, TypeOK, SignalTypeOK, Bounded, Places, tables, browser
<1>4. CASE Read
  <2>1. /\ stream = "reading" /\ stream' = "sending" /\ frame' \in Frames
        /\ frame'.rows \subseteq 1..Len(entries)
        /\ frame'.cursor \in 0..folded
        /\ more' \in BOOLEAN
        /\ entryCursor' \in 0..Len(entries)
        /\ streamView' \in Nat \union {NoView}
        /\ cursor' \in 0..folded
        /\ UNCHANGED <<signal, tables, browser, received, drops>>
    <3>1. PICK page \in SUBSET Rows :
              /\ stream = "reading" /\ stream' = "sending"
              /\ frame' \in Frames
              /\ frame'.rows = page
              /\ frame'.cursor \in 0..folded
              /\ more' \in BOOLEAN
              /\ entryCursor' \in 0..Len(entries)
              /\ streamView' = IF streamView = NoView THEN view ELSE streamView
              /\ cursor' = IF ViewReplaced THEN cursor ELSE frame'.cursor
              /\ UNCHANGED <<signal, tables, browser, received, drops>>
      BY <1>4, ReadStep
    <3>2. cursor \in 0..folded /\ view \in Nat /\ streamView \in Nat \union {NoView}
      BY DEF TypeOK, Bounded
    <3>3. frame'.rows \subseteq 1..Len(entries) /\ more' \in BOOLEAN
      BY <3>1, RowsType
    <3>4. cursor' \in 0..folded /\ streamView' \in Nat \union {NoView}
      BY <3>1, <3>2
    <3> QED
      BY <3>1, <3>3, <3>4
  <2>2. TypeOK'
    BY <2>1 DEF TypeOK, SignalTypeOK, Places, signal, tables, browser
  <2>3. Bounded'
    <3>1. UNCHANGED <<entries, live, folded, sessionRow, seen, got, received, base>>
      BY <2>1 DEF tables, browser
    <3>2. folded \in Nat /\ Len(entries) \in Nat /\ entryCursor' <= Len(entries)
      BY <2>1 DEF TypeOK
    <3>3. cursor' <= folded /\ frame'.cursor <= folded
      BY <2>1, <3>2
    <3> QED
      BY <2>1, <3>1, <3>2, <3>3 DEF Bounded
  <2> QED
    BY <2>2, <2>3
<1>5. CASE Send
  <2>1. frame.session \in Nat /\ frame.cursor \in Nat /\ frame.rows \subseteq Nat
    BY DEF TypeOK, Frames
  <2>2. /\ got' = got \union frame.rows /\ received' = received \union frame.rows
        /\ session' \in {session, frame.session} /\ seen' = frame.cursor
        /\ stream # "closed" /\ stream' \in {"looping", "waiting"} /\ frame' = NoFrame
        /\ UNCHANGED <<signal, tables, client, base, oldest, knownView, pageView,
                       cursor, entryCursor, streamView, more, drops>>
    BY <1>5 DEF Send
  <2>3. TypeOK'
    BY <2>1, <2>2, NoFrameType DEF TypeOK, SignalTypeOK, Places, signal, tables
  <2>4. Bounded'
    BY <2>1, <2>2, NoFrameType DEF TypeOK, Bounded, tables
  <2> QED
    BY <2>3, <2>4
<1>6. CASE SendReset
  <2>1. frame.view \in Nat
    BY DEF TypeOK, Frames
  <2> QED
    BY <1>6, <2>1, CloseType, NoFrameType DEF SendReset, TypeOK, Bounded, Places, tables
<1>7. CASE Wake
  BY <1>7 DEF Wake, TypeOK, SignalTypeOK, Bounded, Places, signal, tables, browser
<1>8. CASE Snapshot
  <2> DEFINE S == {sessionRow} \union {entries[n] : n \in Rows}
  <2>1. S \in SUBSET (0..folded) /\ folded \in Nat
    <3>1. folded \in Nat /\ sessionRow \in 0..folded
      BY DEF TypeOK, Bounded
    <3>2. \A n \in Rows : n \in 1..Len(entries) /\ entries[n] \in 0..folded
      BY RowsType DEF TypeOK, Bounded
    <3> QED
      BY <3>1, <3>2
  <2>2. seen' \in 0..folded
    BY <1>8, <2>1, MaxIsGreatest DEF Snapshot, Newest
  <2> QED
    BY <1>8, <2>1, <2>2 DEF Snapshot, TypeOK, SignalTypeOK, Bounded, signal, tables, server
<1>9. CASE LoadPage
  <2>1. PICK page \in SUBSET {n \in Rows : entries[n] <= seen} :
            /\ got' = page
            /\ base' = IF page = {} THEN EmptyPage ELSE Max(page)
            /\ \/ oldest' = <<0, 0>>
               \/ \E n \in page : oldest' = Place(n)
    BY <1>9 DEF LoadPage
  <2>2. page \in SUBSET (1..Len(entries)) /\ page \in SUBSET (0..Len(entries)) /\ Len(entries) \in Nat
    BY RowsType DEF TypeOK
  <2>3. base' \in 0..Len(entries) \union {NoRow}
    <3>1. CASE page = {}
      BY <2>1, <2>2, <3>1, EmptyPageAssumption
    <3>2. CASE page # {}
      BY <2>1, <2>2, <3>2, MaxIsGreatest
    <3> QED
      BY <3>1, <3>2
  <2>4. oldest' \in Nat \X Nat
    BY <2>1, <2>2 DEF Place, TypeOK
  <2>5. base' # NoRow => base' <= Len(entries)
    BY <2>2, <2>3
  <2>6. client' = "loaded" /\ pageView' = view
        /\ UNCHANGED <<signal, tables, seen, session, knownView, server, drops>>
    BY <1>9 DEF LoadPage
  <2>7. TypeOK'
    BY <2>1, <2>2, <2>3, <2>4, <2>6 DEF TypeOK, SignalTypeOK, signal, tables, server
  <2>8. Bounded'
    BY <2>1, <2>2, <2>5, <2>6 DEF TypeOK, Bounded, tables, server
  <2> QED
    BY <2>7, <2>8
<1>10. CASE Open
  <2>1. TypeOK'
    BY <1>10, NoFrameType, ClientAssumption
       DEF Open, Subscribe, TypeOK, SignalTypeOK, Places, tables, browser
  <2>2. NoFrame.cursor <= folded /\ NoFrame.rows \subseteq 1..Len(entries)
    BY NoFrameType DEF TypeOK
  <2>3. Bounded'
    BY <1>10, <2>2 DEF Open, Bounded, tables, browser
  <2> QED
    BY <2>1, <2>3
<1>11. CASE Disconnect
  <2>1. got \in SUBSET (0..Len(entries)) /\ Len(entries) \in Nat
    BY DEF TypeOK, Bounded
  <2>2. base' \in 0..Len(entries) \union {NoRow}
    <3>1. base' \in {base, EmptyPage} \/ (got # {} /\ base' = Max(got))
      BY <1>11 DEF Disconnect
    <3>2. base \in 0..Len(entries) \union {NoRow}
      BY DEF TypeOK, Bounded
    <3>3. EmptyPage \in 0..Len(entries) \union {NoRow}
      BY <2>1, EmptyPageAssumption
    <3>4. got # {} => Max(got) \in 0..Len(entries)
      BY <2>1, MaxIsGreatest
    <3> QED
      BY <3>1, <3>2, <3>3, <3>4
  <2>3. base' # NoRow => base' <= Len(entries)
    BY <2>1, <2>2
  <2>4. client' \in {"away", "loading", "loaded"} /\ drops' \in Nat /\ Close
        /\ UNCHANGED <<tables, seen, oldest, got, session, knownView, pageView,
                       cursor, entryCursor, streamView, more, received>>
    BY <1>11 DEF Disconnect, TypeOK
  <2>5. TypeOK'
    BY <2>1, <2>2, <2>4, CloseType, NoFrameType DEF TypeOK, Places, tables
  <2>6. Bounded'
    BY <2>1, <2>3, <2>4, CloseType, NoFrameType DEF TypeOK, Bounded, tables
  <2> QED
    BY <2>5, <2>6
<1>12. CASE UNCHANGED vars
  BY <1>12 DEF vars, signal, tables, browser, server, TypeOK, SignalTypeOK, Bounded
<1> QED
  BY <1>1, <1>2, <1>3, <1>4, <1>5, <1>6, <1>7, <1>8, <1>9, <1>10, <1>11, <1>12
     DEF Next, Serve, Follow, SignalStep

----
(* Which rows the client has been shown. *)

(* Where client and stream are, and what their requests name. *)
Linked ==
    /\ stream # "closed" => client = "loaded" /\ entryCursor # NoRow
    /\ client = "loaded" => base # NoRow
    /\ stream # "sending" => frame = NoFrame
    /\ stream = "sending" /\ ~frame.reset => frame.cursor = cursor

Had(n) == n \in got \/ Before(Place(n), oldest)

(* Below the newest row that a reader has or names, no row of its commits   *)
(* is missing.                                                              *)
Requested ==
    client = "loaded" =>
        \A n \in Rows : \A m \in got \union {base} : n <= m /\ entries[n] <= seen => Had(n)

Streamed ==
    stream # "closed" /\ ~frame.reset =>
        \A n \in Rows : \A m \in got \union frame.rows \union {base, entryCursor} :
            n <= m /\ entries[n] <= cursor => Shown(n)

FeedInv == Linked /\ Requested /\ Streamed

(* Rows that are added come after every row that a reader can have. *)
LEMMA OldRows ==
    ASSUME TypeInv, Grow, NEW m \in 0..Len(entries), NEW n \in Rows', n <= m
    PROVE  n \in Rows /\ entries'[n] = entries[n]
<1>1. n \in Nat /\ n >= live' /\ n >= 1
  BY DEF Rows, Grow, TypeInv, TypeOK, Bounded
<1>2. n \in 1..Len(entries) /\ Len(entries) \in Nat
  BY <1>1 DEF TypeInv, TypeOK
<1>3. live' >= live
  BY DEF Grow, TypeInv, TypeOK, Bounded
<1> QED
  BY <1>1, <1>2, <1>3 DEF Rows, Grow, TypeInv, TypeOK

LEMMA NewestRow ==
    ASSUME TypeInv, NEW S \in SUBSET (1..Len(entries)), S # {}
    PROVE  Max(S) \in S /\ Max(S) \in Nat /\ \A n \in S : n <= Max(S)
<1>1. Len(entries) \in Nat /\ S \in SUBSET (0..Len(entries))
  BY DEF TypeInv, TypeOK
<1>2. Max(S) \in S /\ \A n \in S : Max(S) >= n
  BY <1>1, MaxIsGreatest
<1>3. \A n \in S : n \in Nat
  BY <1>1
<1>4. \A n \in S : n <= Max(S)
  BY <1>2, <1>3
<1> QED
  BY <1>2, <1>3, <1>4

LEMMA GotType ==
    ASSUME TypeInv
    PROVE  /\ got \in SUBSET (1..Len(entries)) /\ frame.rows \in SUBSET (1..Len(entries))
           /\ received \in SUBSET (1..Len(entries))
           /\ Len(entries) \in Nat /\ frame \in Frames
           /\ base # NoRow => base \in 0..Len(entries)
           /\ entryCursor # NoRow => entryCursor \in 0..Len(entries)
  BY DEF TypeInv, TypeOK, Bounded

LEMMA LinkedInit == Init => Linked
  BY DEF Init, Linked

LEMMA LinkedStep == EmptyPage = 0 /\ TypeInv /\ Linked /\ [Next]_vars => Linked'
<1> SUFFICES ASSUME EmptyPage = 0, TypeInv, Linked, [Next]_vars PROVE Linked'
  OBVIOUS
<1> USE NoRowAssumption DEF Linked
<1>1. CASE Fold \/ Project \/ SwitchHistory
  BY <1>1, GrowStep DEF Grow, browser, server
<1>2. CASE SignalStep
  BY <1>2, SignalStepType DEF browser, server
<1>3. CASE ClearEvent
  BY <1>3 DEF ClearEvent, browser
<1>4. CASE Read
  <2>1. /\ stream = "reading" /\ stream' = "sending" /\ entryCursor' \in 0..Len(entries)
        /\ frame'.reset = ViewReplaced
        /\ cursor' = IF ViewReplaced THEN cursor ELSE frame'.cursor
        /\ UNCHANGED browser
    BY <1>4, ReadStep
  <2> QED
    BY <2>1 DEF browser
<1>5. CASE Send
  BY <1>5 DEF Send
<1>6. CASE SendReset
  BY <1>6 DEF SendReset, Close
<1>7. CASE Wake
  BY <1>7 DEF Wake, browser
<1>8. CASE Snapshot
  BY <1>8 DEF Snapshot, server
<1>9. CASE LoadPage
  <2>1. PICK page \in SUBSET {n \in Rows : entries[n] <= seen} :
            base' = IF page = {} THEN EmptyPage ELSE Max(page)
    BY <1>9 DEF LoadPage
  <2>2. page \in SUBSET (1..Len(entries))
    BY RowsType
  <2>3. base' \in Nat
    <3>1. CASE page = {}
      BY <2>1, <3>1
    <3>2. CASE page # {}
      BY <2>1, <2>2, <3>2, NewestRow
    <3> QED
      BY <3>1, <3>2
  <2>4. client = "loading" /\ UNCHANGED server
    BY <1>9 DEF LoadPage
  <2> QED
    BY <2>3, <2>4 DEF server
<1>10. CASE Open
  BY <1>10 DEF Open, browser
<1>11. CASE Disconnect
  <2>1. stream' = "closed" /\ frame' = NoFrame /\ client = "loaded"
    BY <1>11 DEF Disconnect, Close
  <2>2. base' \in {base, 0} \/ (got # {} /\ base' = Max(got))
    BY <1>11 DEF Disconnect
  <2>4. base' # NoRow
    <3>1. got # {} => Max(got) \in Nat
      BY GotType, NewestRow
    <3> QED
      BY <2>1, <2>2, <3>1
  <2> QED
    BY <2>1, <2>4
<1>12. CASE UNCHANGED vars
  BY <1>12 DEF vars, browser, server
<1> QED
  BY <1>1, <1>2, <1>3, <1>4, <1>5, <1>6, <1>7, <1>8, <1>9, <1>10, <1>11, <1>12
     DEF Next, Serve, Follow, SignalStep

LEMMA FeedInit == Init => FeedInv
<1> SUFFICES ASSUME Init PROVE Requested /\ Streamed
  BY LinkedInit DEF FeedInv
<1> QED
  BY DEF Init, Requested, Streamed

LEMMA RequestedStep ==
    ASSUME EmptyPage = 0, TypeInv, FeedInv, Next
    PROVE  Requested'
<1> USE DEF FeedInv
<1>1. CASE Fold \/ Project \/ SwitchHistory
  <2>1. Grow /\ UNCHANGED <<client, got, base, seen, oldest>>
    BY <1>1, GrowStep DEF Grow, browser
  <2>2. ASSUME client = "loaded", NEW n \in Rows', NEW m \in got \union {base},
               n <= m, entries'[n] <= seen
        PROVE  Had(n)'
    <3>1. m \in 0..Len(entries)
      BY <2>2, GotType DEF Linked
    <3>2. n \in Rows /\ entries'[n] = entries[n]
      BY <2>1, <2>2, <3>1, OldRows
    <3>3. Had(n)
      BY <2>2, <3>2 DEF Requested
    <3> QED
      BY <2>1, <3>2, <3>3 DEF Had, Place
  <2> QED
    BY <2>1, <2>2 DEF Requested
<1>2. CASE UNCHANGED <<tables, browser>>
  BY <1>2 DEF Requested, Rows, Had, Place, tables, browser
<1>3. CASE Send
  <2>1. ASSUME client = "loaded", NEW n \in Rows, NEW m \in got \union frame.rows \union {base},
               n <= m, entries[n] <= frame.cursor
        PROVE  Shown(n)
    BY <1>3, <2>1 DEF Send, Linked, Streamed
  <2>2. \A n : Had(n)' <=> Shown(n)
    BY <1>3 DEF Send, Had, Shown, Place, tables
  <2> QED
    BY <1>3, <2>1, <2>2 DEF Send, Requested, Rows, tables
<1>4. CASE SendReset \/ Snapshot
  BY <1>4 DEF SendReset, Snapshot, Requested
<1>5. CASE LoadPage
  <2> DEFINE available == {n \in Rows : entries[n] <= seen}
  <2>1. PICK page \in SUBSET available :
            /\ IsFirstPage(page, available)
            /\ got' = page
            /\ \/ page = available /\ oldest' = <<0, 0>>
               \/ /\ page # available
                  /\ \E n \in page : oldest' = Place(n)
    BY <1>5 DEF LoadPage
  <2>2. UNCHANGED <<entries, live, seen>>
    BY <1>5 DEF LoadPage, tables
  <2>3. ASSUME NEW n \in available PROVE Had(n)'
    <3>1. CASE n \in page
      BY <2>1, <3>1 DEF Had
    <3>2. CASE n \notin page
      <4>1. PICK k \in page : oldest' = Place(k)
        BY <2>1, <3>2
      <4>2. Before(Place(n), oldest')
        BY <2>1, <3>2, <4>1 DEF IsFirstPage
      <4> QED
        BY <2>2, <4>2 DEF Had, Place
    <3> QED
      BY <3>1, <3>2
  <2> QED
    BY <2>2, <2>3 DEF Requested, Rows
<1>6. CASE Disconnect
  <2>1. UNCHANGED <<tables, seen, got, oldest>>
    BY <1>6 DEF Disconnect
  <2>2. ASSUME client' = "loaded", NEW n \in Rows, NEW m \in got \union {base'},
               n <= m, entries[n] <= seen
        PROVE  Had(n)
    <3>1. client = "loaded" /\ (base' \in {base, 0} \/ (got # {} /\ base' = Max(got)))
      BY <1>6, <2>2 DEF Disconnect
    <3>2. n \in Nat /\ n >= 1
      BY RowsType DEF TypeInv, TypeOK
    <3>3. m \in got \union {base}
      <4>1. got # {} => Max(got) \in got
        BY GotType, NewestRow
      <4> QED
        BY <2>2, <3>1, <3>2, <4>1
    <3> QED
      BY <2>2, <3>1, <3>3 DEF Requested
  <2> QED
    BY <2>1, <2>2 DEF Requested, Had, Place, Rows, tables
<1> QED
  <2>1. SignalStep \/ ClearEvent \/ Read \/ Wake \/ Open => UNCHANGED <<tables, browser>>
    BY SignalStepType DEF ClearEvent, Read, Wake, Open
  <2> QED
    BY <1>1, <1>2, <1>3, <1>4, <1>5, <1>6, <2>1 DEF Next, Serve, Follow, SignalStep

LEMMA StreamedStep ==
    ASSUME EmptyPage = 0, TypeInv, FeedInv, Next
    PROVE  Streamed'
<1> USE DEF FeedInv
<1>1. CASE Fold \/ Project \/ SwitchHistory
  <2>1. Grow /\ UNCHANGED <<stream, got, base, frame, cursor, entryCursor, oldest>>
    BY <1>1, GrowStep DEF Grow, browser, server
  <2>2. ASSUME stream # "closed", ~frame.reset, NEW n \in Rows',
               NEW m \in got \union frame.rows \union {base, entryCursor},
               n <= m, entries'[n] <= cursor
        PROVE  Shown(n)'
    <3>1. m \in 0..Len(entries)
      BY <2>2, GotType DEF Linked
    <3>2. n \in Rows /\ entries'[n] = entries[n]
      BY <2>1, <2>2, <3>1, OldRows
    <3>3. Shown(n)
      BY <2>2, <3>2 DEF Streamed
    <3> QED
      BY <2>1, <3>2, <3>3 DEF Shown, Place
  <2> QED
    BY <2>1, <2>2 DEF Streamed
<1>2. CASE UNCHANGED <<tables, browser, cursor, entryCursor, frame>> /\ stream # "closed"
  BY <1>2 DEF Streamed, Rows, Shown, Place, tables, browser
<1>3. CASE Read
  <2>1. PICK rows \in SUBSET Rows : \E page \in SUBSET rows :
            /\ rows = After(cursor, Known)
            /\ stream = "reading"
            /\ frame'.rows = page
            /\ frame'.reset = ViewReplaced
            /\ \A n \in rows \ page : entries[n] > frame'.cursor
            /\ frame'.cursor \in 0..folded
            /\ cursor' = IF ViewReplaced THEN cursor ELSE frame'.cursor
            /\ UNCHANGED <<tables, browser>>
    BY <1>3, ReadStep
  <2>2. PICK page \in SUBSET rows :
            /\ rows = After(cursor, Known)
            /\ stream = "reading"
            /\ frame'.rows = page
            /\ frame'.reset = ViewReplaced
            /\ \A n \in rows \ page : entries[n] > frame'.cursor
            /\ frame'.cursor \in 0..folded
            /\ cursor' = IF ViewReplaced THEN cursor ELSE frame'.cursor
            /\ UNCHANGED <<tables, browser>>
    BY <2>1
  <2>3. frame = NoFrame /\ frame.rows = {} /\ ~frame.reset /\ Known = entryCursor
    BY <2>2, NoFrameType DEF Linked, Known
  <2>4. ASSUME ~frame'.reset, NEW n \in Rows, entries[n] <= cursor'
        PROVE  Shown(n)'
    <3>1. \A k : k \in got \/ Before(Place(k), oldest) => Shown(k)'
      BY <2>2 DEF Shown, Place, tables, browser
    <3>2. CASE n \in page
      BY <2>2, <3>2 DEF Shown
    <3>3. CASE n \in rows \ page
      <4>1. entries[n] \in Nat /\ frame'.cursor \in Nat
        BY <2>2, RowsType DEF TypeInv, TypeOK
      <4>2. cursor' = frame'.cursor
        BY <2>2, <2>4
      <4> QED
        BY <2>2, <2>4, <3>3, <4>1, <4>2
    <3>4. CASE n \notin rows
      <4>1. ~(entries[n] > cursor) /\ ~(n > entryCursor)
        BY <2>2, <2>3, <3>4 DEF After
      <4>2. entries[n] \in Nat /\ cursor \in Nat /\ n \in Nat
        BY RowsType DEF TypeInv, TypeOK
      <4>3. entryCursor \in Nat
        BY <2>2, GotType DEF Linked
      <4>4. entries[n] <= cursor /\ n <= entryCursor
        BY <4>1, <4>2, <4>3
      <4>5. Shown(n)
        BY <2>2, <2>3, <4>4 DEF Streamed
      <4> QED
        BY <2>3, <3>1, <4>5 DEF Shown
    <3> QED
      BY <3>2, <3>3, <3>4
  <2> QED
    BY <2>2, <2>4 DEF Streamed, Rows, tables
<1>4. CASE Send
  <2>1. /\ got' = got \union frame.rows /\ frame' = NoFrame /\ frame'.rows = {} /\ ~frame.reset
        /\ UNCHANGED <<entries, live, base, entryCursor, cursor, oldest>> /\ stream # "closed"
    BY <1>4, NoFrameType DEF Send, tables
  <2>2. \A n : Shown(n)' <=> Shown(n)
    BY <2>1 DEF Shown, Place
  <2> QED
    BY <2>1, <2>2 DEF Streamed, Rows
<1>5. CASE SendReset \/ Disconnect
  BY <1>5 DEF SendReset, Disconnect, Close, Streamed
<1>6. CASE Snapshot \/ LoadPage
  BY <1>6 DEF Snapshot, LoadPage, Linked, Streamed, server
<1>7. CASE Open
  <2>1. /\ client = "loaded" /\ frame' = NoFrame /\ frame'.rows = {}
        /\ cursor' = seen /\ entryCursor' = base /\ UNCHANGED <<tables, browser>>
    BY <1>7, NoFrameType DEF Open
  <2>2. \A n : Had(n) => Shown(n)'
    BY <2>1 DEF Had, Shown, Place, tables, browser
  <2> QED
    BY <2>1, <2>2 DEF Streamed, Requested, Rows, tables, browser
<1>8. CASE SignalStep
  BY <1>8, SignalStepType DEF Streamed, Rows, Shown, Place, tables, browser, server
<1> QED
  <2>1. ClearEvent \/ Wake => UNCHANGED <<tables, browser, cursor, entryCursor, frame>> /\ stream # "closed"
    BY DEF ClearEvent, Wake
  <2> QED
    BY <1>1, <1>2, <1>3, <1>4, <1>5, <1>6, <1>7, <1>8, <2>1 DEF Next, Serve, Follow, SignalStep

LEMMA FeedStep == EmptyPage = 0 /\ TypeInv /\ FeedInv /\ [Next]_vars => FeedInv'
<1> SUFFICES ASSUME EmptyPage = 0, TypeInv, FeedInv, [Next]_vars PROVE FeedInv'
  OBVIOUS
<1>1. Linked'
  BY LinkedStep DEF FeedInv
<1>2. CASE Next
  BY <1>1, <1>2, RequestedStep, StreamedStep DEF FeedInv
<1>3. CASE UNCHANGED vars
  BY <1>1, <1>3
     DEF vars, tables, browser, server, FeedInv, Requested, Streamed, Rows, Had, Shown, Place
<1> QED
  BY <1>2, <1>3

----
(* Which session row the client shows. *)

ShownSession == IF frame.session = 0 THEN session ELSE frame.session

SessionInv ==
    /\ client # "away" /\ sessionRow <= seen => session = sessionRow
    /\ stream # "closed" /\ ~frame.reset /\ sessionRow <= cursor => ShownSession = sessionRow

LEMMA SessionInit == Init => SessionInv
  BY DEF Init, SessionInv

LEMMA SessionStep == TypeInv /\ Linked /\ SessionInv /\ [Next]_vars => SessionInv'
<1> SUFFICES ASSUME TypeInv, Linked, SessionInv, [Next]_vars PROVE SessionInv'
  OBVIOUS
<1>1. CASE Fold \/ Project \/ SwitchHistory
  <2>1. \/ sessionRow' = sessionRow
        \/ sessionRow' = folded + 1
    BY <1>1, GrowStep DEF Grow
  <2>2. seen <= folded /\ cursor <= folded /\ seen \in Nat /\ cursor \in Nat /\ folded \in Nat
    BY DEF TypeInv, TypeOK, Bounded
  <2>3. UNCHANGED <<client, seen, session, stream, frame, cursor>>
    BY <1>1, GrowStep DEF Grow, browser, server
  <2>4. sessionRow' = folded + 1 => ~(sessionRow' <= seen) /\ ~(sessionRow' <= cursor)
    BY <2>2
  <2> QED
    BY <2>1, <2>3, <2>4 DEF SessionInv, ShownSession
<1>2. CASE SignalStep
  BY <1>2, SignalStepType DEF SessionInv, ShownSession, tables, browser, server
<1>3. CASE ClearEvent \/ Wake
  BY <1>3 DEF ClearEvent, Wake, SessionInv, ShownSession, tables, browser
<1>4. CASE Read
  <2>1. /\ stream = "reading"
        /\ frame'.session = IF sessionRow > cursor THEN sessionRow ELSE 0
        /\ UNCHANGED <<tables, browser>>
    BY <1>4, ReadStep
  <2>2. sessionRow \in Nat /\ cursor \in Nat
    BY DEF TypeInv, TypeOK
  <2>3. CASE sessionRow > cursor
    <3>1. frame'.session = sessionRow /\ sessionRow # 0
      BY <2>1, <2>2, <2>3
    <3> QED
      BY <2>1, <3>1 DEF SessionInv, ShownSession, tables, browser
  <2>4. CASE ~(sessionRow > cursor)
    <3>1. frame'.session = 0 /\ sessionRow <= cursor
      BY <2>1, <2>2, <2>4
    <3>2. frame.session = 0 /\ ~frame.reset
      BY <2>1, NoFrameType DEF Linked
    <3>3. session = sessionRow
      BY <2>1, <3>1, <3>2 DEF SessionInv, ShownSession
    <3> QED
      BY <2>1, <3>1, <3>3 DEF SessionInv, ShownSession, tables, browser
  <2> QED
    BY <2>3, <2>4
<1>5. CASE Send
  <2>1. /\ stream = "sending" /\ ~frame.reset /\ frame.cursor = cursor
        /\ frame'.session = 0
        /\ session' = ShownSession
        /\ seen' = cursor /\ UNCHANGED <<tables, client, cursor>>
    BY <1>5, NoFrameType DEF Send, Linked, ShownSession
  <2> QED
    BY <2>1 DEF SessionInv, ShownSession, tables
<1>6. CASE SendReset
  BY <1>6 DEF SendReset, Close, SessionInv
<1>7. CASE Snapshot
  <2>1. client = "away" /\ session' = sessionRow /\ UNCHANGED <<tables, server>>
    BY <1>7 DEF Snapshot
  <2> QED
    BY <2>1 DEF SessionInv, Linked, tables, server
<1>8. CASE LoadPage
  BY <1>8 DEF LoadPage, SessionInv, Linked, tables, server
<1>9. CASE Open
  BY <1>9, NoFrameType DEF Open, SessionInv, ShownSession, Linked, tables, browser
<1>10. CASE Disconnect
  <2>1. stream # "closed" /\ stream' = "closed" /\ UNCHANGED <<tables, seen, session>>
    BY <1>10 DEF Disconnect, Close
  <2> QED
    BY <2>1 DEF SessionInv, Linked, tables
<1>11. CASE UNCHANGED vars
  BY <1>11 DEF vars, tables, browser, server, SessionInv, ShownSession
<1> QED
  BY <1>1, <1>2, <1>3, <1>4, <1>5, <1>6, <1>7, <1>8, <1>9, <1>10, <1>11
     DEF Next, Serve, Follow, SignalStep

----
(* Notices. *)

Fresh ==
    /\ streamView = view
    /\ \A n \in Rows : Shown(n)
    /\ ShownSession = sessionRow

(* A stream that will not read again by itself. *)
Complete == stream = "waiting" \/ (stream = "sending" /\ ~more /\ ~frame.reset)

WakeInv == Complete => Fresh \/ Coming(Client)

LEMMA WakeInit == Init => WakeInv
  BY DEF Init, WakeInv, Complete

(* No step of the signal loses a notice for a reader that is subscribed. *)
LEMMA NoticesStay ==
    ASSUME TypeInv, SignalStep, stream # "closed", Coming(Client)
    PROVE  Coming(Client)'
<1>1. Client \in listening /\ sending \in [Writers -> SUBSET Readers] /\ owing \in SUBSET Writers
  BY DEF TypeInv, TypeOK, SignalTypeOK
<1>2. ASSUME NEW w \in Writers, Unrelated(w) PROVE Coming(Client)'
  BY <1>2 DEF Unrelated, Committed, Coming
<1>3. ASSUME NEW w \in Writers, LeaveBatch(w) PROVE Coming(Client)'
  BY <1>3 DEF LeaveBatch, Coming
<1>4. ASSUME NEW w \in Writers, Publish(w) PROVE Coming(Client)'
  <2>1. CASE batching # {}
    BY <1>4, <2>1 DEF Publish, Coming
  <2>2. CASE batching = {}
    BY <1>1, <1>4, <2>2 DEF Publish, Coming
  <2> QED
    BY <2>1, <2>2
<1>5. ASSUME NEW w \in Writers, Deliver(w, Client) PROVE Coming(Client)'
  BY <1>5 DEF Deliver, Coming
<1>6. CASE Drain
  BY <1>6 DEF Drain, EnterBatch, Coming
<1>7. CASE LoopCallback
  BY <1>7 DEF LoopCallback, RunCallback, Coming
<1> QED
  BY <1>2, <1>3, <1>4, <1>5, <1>6, <1>7 DEF SignalStep, Signal

LEMMA WakeStep ==
    TypeInv /\ FeedInv /\ SessionInv /\ WakeInv /\ [Next]_vars => WakeInv'
<1> SUFFICES ASSUME TypeInv, FeedInv, SessionInv, WakeInv, [Next]_vars PROVE WakeInv'
  OBVIOUS
<1> USE DEF WakeInv, FeedInv
<1>1. CASE Fold \/ Project \/ SwitchHistory
  <2>1. Grow /\ UNCHANGED <<browser, server>>
    BY <1>1, GrowStep DEF Grow
  <2>2. CASE owing' # {}
    BY <2>2 DEF Coming
  <2>3. CASE UNCHANGED <<entries, sessionRow, view, live, signal>>
    BY <2>1, <2>3
       DEF Complete, Fresh, Rows, Shown, Place, ShownSession, Coming, signal, browser, server
  <2> QED
    BY <2>1, <2>2, <2>3 DEF Grow
<1>2. CASE SignalStep
  <2>1. UNCHANGED <<tables, browser, server>>
    BY <1>2, SignalStepType
  <2>2. Complete' = Complete /\ Fresh' = Fresh
    BY <2>1 DEF Complete, Fresh, Rows, Shown, Place, ShownSession, tables, browser, server
  <2>3. Complete => stream # "closed"
    BY DEF Complete
  <2> QED
    BY <1>2, <2>2, <2>3, NoticesStay
<1>3. CASE ClearEvent \/ Wake
  BY <1>3 DEF ClearEvent, Wake, Complete
<1>4. CASE Read
  <2>1. PICK rows \in SUBSET Rows :
            /\ rows = After(cursor, Known)
            /\ stream = "reading"
            /\ frame'.rows \subseteq rows
            /\ frame'.reset = ViewReplaced
            /\ frame'.session = IF sessionRow > cursor THEN sessionRow ELSE 0
            /\ more' = (frame'.rows # rows)
            /\ streamView' = IF streamView = NoView THEN view ELSE streamView
            /\ UNCHANGED <<tables, browser>>
    BY <1>4, ReadStep
  <2>2. frame = NoFrame /\ frame.rows = {} /\ ~frame.reset /\ frame.session = 0 /\ Known = entryCursor
    BY <2>1, NoFrameType DEF Linked, Known
  <2>3. ASSUME ~more', ~frame'.reset, NEW n \in Rows PROVE Shown(n)'
    <3>1. CASE n \in rows
      BY <2>1, <2>3, <3>1 DEF Shown
    <3>2. CASE n \notin rows
      <4>1. ~(entries[n] > cursor) /\ ~(n > entryCursor)
        BY <2>1, <2>2, <3>2 DEF After
      <4>2. entries[n] \in Nat /\ cursor \in Nat /\ n \in Nat
        BY RowsType DEF TypeInv, TypeOK
      <4>3. entryCursor \in Nat
        BY <2>1, GotType DEF Linked
      <4>4. entries[n] <= cursor /\ n <= entryCursor
        BY <4>1, <4>2, <4>3
      <4>5. Shown(n)
        BY <2>1, <2>2, <4>4 DEF Streamed
      <4> QED
        BY <2>1, <2>2, <4>5 DEF Shown, Place, tables, browser
    <3> QED
      BY <3>1, <3>2
  <2>4. ~frame'.reset => streamView' = view
    BY <2>1 DEF ViewReplaced
  <2>5. ShownSession' = sessionRow
    <3>1. sessionRow \in Nat /\ cursor \in Nat
      BY DEF TypeInv, TypeOK
    <3>2. CASE sessionRow > cursor
      <4>1. frame'.session = sessionRow /\ sessionRow # 0
        BY <2>1, <3>1, <3>2
      <4> QED
        BY <4>1 DEF ShownSession
    <3>3. CASE ~(sessionRow > cursor)
      <4>1. frame'.session = 0 /\ sessionRow <= cursor
        BY <2>1, <3>1, <3>3
      <4> QED
        BY <2>1, <2>2, <4>1 DEF SessionInv, ShownSession, browser
    <3> QED
      BY <3>2, <3>3
  <2>6. ~more' /\ ~frame'.reset => Fresh'
    BY <2>1, <2>3, <2>4, <2>5 DEF Fresh, Rows, tables
  <2> QED
    BY <1>4, <2>6 DEF Complete, Read
<1>5. CASE Send
  <2>1. /\ got' = got \union frame.rows /\ frame'.rows = {} /\ frame'.session = 0
        /\ session' = ShownSession
        /\ UNCHANGED <<signal, tables, oldest, streamView>>
        /\ stream = "sending" /\ ~frame.reset
        /\ stream' = IF more THEN "looping" ELSE "waiting"
    BY <1>5, NoFrameType DEF Send, ShownSession
  <2>2. \A n : Shown(n)' <=> Shown(n)
    BY <2>1 DEF Shown, Place, tables
  <2>3. Fresh' = Fresh
    BY <2>1, <2>2 DEF Fresh, Rows, ShownSession, tables
  <2>4. Coming(Client)' = Coming(Client)
    BY <2>1 DEF Coming, signal
  <2> QED
    BY <2>1, <2>3, <2>4 DEF Complete
<1>6. CASE SendReset \/ Disconnect
  BY <1>6 DEF SendReset, Disconnect, Close, Complete
<1>7. CASE Snapshot \/ LoadPage
  BY <1>7 DEF Snapshot, LoadPage, Linked, Complete, server
<1>8. CASE Open
  BY <1>8 DEF Open, Complete
<1>9. CASE UNCHANGED vars
  BY <1>9 DEF vars, signal, tables, browser, server, Complete, Fresh, Rows, Shown, Place,
              ShownSession, Coming
<1> QED
  BY <1>1, <1>2, <1>3, <1>4, <1>5, <1>6, <1>7, <1>8, <1>9 DEF Next, Serve, Follow, SignalStep

----
(* Which history the rows of a stream are from. *)

Sent == received \union (IF frame.reset THEN {} ELSE frame.rows)

ViewsInv ==
    /\ streamView # NoView => streamView <= view
    /\ knownView # NoView => knownView <= view
    /\ frame.view <= view
    /\ stream # "closed" =>
           /\ streamView = NoView => Sent = {}
           /\ streamView = view => \A n \in Sent : n >= live
           /\ streamView \notin {NoView, view} => \A n \in Sent : n < live
    /\ OneViewPerStream

LEMMA ViewsInit == Init => ViewsInv
  BY NoFrameType DEF Init, ViewsInv, OneViewPerStream

LEMMA ViewTypes ==
    ASSUME TypeInv
    PROVE  /\ view \in Nat /\ frame.view \in Nat /\ live \in Nat
           /\ streamView \in Nat \union {NoView} /\ knownView \in Nat \union {NoView}
           /\ NoView \notin Nat
  BY NoRowAssumption DEF TypeInv, TypeOK, Frames

LEMMA ViewsStep == TypeInv /\ ViewsInv /\ [Next]_vars => ViewsInv'
<1> SUFFICES ASSUME TypeInv, ViewsInv, [Next]_vars PROVE ViewsInv'
  OBVIOUS
<1>1. CASE Fold \/ Project \/ SwitchHistory
  <2>1. Grow /\ UNCHANGED <<stream, streamView, knownView, frame, received>>
    BY <1>1, GrowStep DEF Grow, browser, server
  <2>2. CASE view' = view /\ live' = live
    BY <2>1, <2>2 DEF ViewsInv, Sent, OneViewPerStream
  <2>3. CASE view' = view + 1 /\ live' = Len(entries) + 1
    <3>1. \A n \in received \union frame.rows : n < live'
      BY <2>3, GotType
    <3>2. streamView # view' /\ view <= view' /\ frame.view <= view'
      BY <2>3, ViewTypes DEF ViewsInv
    <3>3. streamView # NoView => streamView <= view'
      BY <2>3, ViewTypes DEF ViewsInv
    <3>4. knownView # NoView => knownView <= view'
      BY <2>3, ViewTypes DEF ViewsInv
    <3> QED
      BY <2>1, <3>1, <3>2, <3>3, <3>4 DEF ViewsInv, Sent, OneViewPerStream
  <2> QED
    BY <2>1, <2>2, <2>3 DEF Grow
<1>2. CASE SignalStep
  BY <1>2, SignalStepType DEF ViewsInv, Sent, OneViewPerStream, tables, browser, server
<1>3. CASE ClearEvent \/ Wake
  BY <1>3 DEF ClearEvent, Wake, ViewsInv, Sent, OneViewPerStream, tables, browser
<1>4. CASE Read
  <2>1. /\ stream = "reading"
        /\ frame'.rows \subseteq Rows
        /\ frame'.reset = ViewReplaced
        /\ frame'.view = view
        /\ streamView' = IF streamView = NoView THEN view ELSE streamView
        /\ UNCHANGED <<tables, browser, received>>
    BY <1>4, ReadStep
  <2>2. \A n \in frame'.rows : n >= live
    BY <2>1 DEF Rows
  <2>3. \A n \in received : streamView = view => n >= live
    BY <2>1 DEF ViewsInv, Sent
  <2>4. \A n \in received : streamView \notin {NoView, view} => n < live
    BY <2>1 DEF ViewsInv, Sent
  <2>5. streamView = NoView => received = {}
    BY <2>1 DEF ViewsInv, Sent
  <2>6. streamView' # NoView /\ (streamView' = view \/ streamView' \notin {NoView, view})
    BY <2>1, ViewTypes
  <2>7. streamView' = view => \A n \in Sent' : n >= live
    BY <2>1, <2>2, <2>3, <2>5 DEF Sent
  <2>8. streamView' # view => \A n \in Sent' : n < live
    <3>1. streamView' # view => streamView' = streamView /\ frame'.reset
      BY <2>1 DEF ViewReplaced
    <3> QED
      BY <2>1, <2>4, <2>6, <3>1 DEF Sent
  <2>9. streamView' <= view /\ frame'.view <= view
    BY <2>1, ViewTypes DEF ViewsInv
  <2> QED
    BY <2>1, <2>6, <2>7, <2>8, <2>9 DEF ViewsInv, OneViewPerStream, tables, browser
<1>5. CASE Send
  <2>1. /\ stream = "sending" /\ ~frame.reset /\ received' = Sent /\ frame' = NoFrame
        /\ Sent' = Sent
        /\ UNCHANGED <<tables, streamView, knownView>>
    BY <1>5, NoFrameType DEF Send, Sent
  <2>2. NoFrame.view <= view
    BY ViewTypes, NoFrameType
  <2>3. (\A n \in Sent : n >= live) \/ (\A n \in Sent : n < live)
    BY <2>1 DEF ViewsInv
  <2>4. \A n \in Sent : n \in Nat
    BY GotType DEF Sent
  <2>5. OneViewPerStream'
    <3>1. \A n, m \in Sent : n < live => m < live
      BY <2>3, <2>4, ViewTypes
    <3> QED
      BY <2>1, <3>1 DEF OneViewPerStream, tables
  <2> QED
    BY <2>1, <2>2, <2>5 DEF ViewsInv, tables
<1>6. CASE SendReset
  <2>1. knownView' \in {frame.view, NoView} /\ frame' = NoFrame /\ stream' = "closed"
        /\ UNCHANGED <<tables, streamView, received>>
    BY <1>6 DEF SendReset, Close
  <2> QED
    BY <2>1, NoFrameType, ViewTypes DEF ViewsInv, OneViewPerStream, tables
<1>7. CASE Snapshot \/ LoadPage
  BY <1>7 DEF Snapshot, LoadPage, ViewsInv, Sent, OneViewPerStream, tables, server
<1>8. CASE Open
  <2>1. /\ Sent' = {} /\ received' = {} /\ frame' = NoFrame /\ streamView' = knownView
        /\ UNCHANGED <<tables, knownView>>
    BY <1>8, NoFrameType DEF Open, Sent, browser
  <2> QED
    BY <2>1, NoFrameType, ViewTypes DEF ViewsInv, OneViewPerStream, tables
<1>9. CASE Disconnect
  <2>1. frame' = NoFrame /\ stream' = "closed" /\ UNCHANGED <<tables, streamView, knownView, received>>
    BY <1>9 DEF Disconnect, Close
  <2> QED
    BY <2>1, NoFrameType, ViewTypes DEF ViewsInv, OneViewPerStream, tables
<1>10. CASE UNCHANGED vars
  BY <1>10 DEF vars, tables, browser, server, ViewsInv, Sent, OneViewPerStream
<1> QED
  BY <1>1, <1>2, <1>3, <1>4, <1>5, <1>6, <1>7, <1>8, <1>9, <1>10 DEF Next, Serve, Follow, SignalStep

----
(* Rows of an older history that a client holds. *)

(* The rows that a client holds are from the view of its page or from a     *)
(* stream that was opened later, and a client that names a view read its    *)
(* page at that view or later.                                              *)
HeldInv ==
    /\ pageView <= view
    /\ client = "loaded" /\ pageView = view => \A n \in got : n >= live
    /\ client = "loaded" /\ knownView # NoView => pageView >= knownView
    /\ stream # "closed" /\ knownView # NoView => streamView = knownView
    /\ stream # "closed" /\ Sent # {} => streamView >= pageView

LEMMA HeldInit == Init => HeldInv
  BY DEF Init, HeldInv

LEMMA HeldStep ==
    TypeInv /\ Linked /\ ViewsInv /\ HeldInv /\ [Next]_vars => HeldInv'
<1> SUFFICES ASSUME TypeInv, Linked, ViewsInv, HeldInv, [Next]_vars PROVE HeldInv'
  OBVIOUS
<1> pageView \in Nat
  BY DEF TypeInv, TypeOK
<1>1. CASE Fold \/ Project \/ SwitchHistory
  <2>1. Grow /\ UNCHANGED <<client, got, stream, streamView, knownView, pageView, frame, received>>
    BY <1>1, GrowStep DEF Grow, browser, server
  <2>2. (view' = view /\ live' = live) \/ view' = view + 1
    BY <2>1 DEF Grow
  <2> QED
    BY <2>1, <2>2, ViewTypes DEF HeldInv, Sent
<1>2. CASE SignalStep
  BY <1>2, SignalStepType DEF HeldInv, Sent, tables, browser, server
<1>3. CASE ClearEvent \/ Wake
  BY <1>3 DEF ClearEvent, Wake, HeldInv, Sent, tables, browser
<1>4. CASE Read
  <2>1. /\ stream = "reading"
        /\ frame'.reset = ViewReplaced
        /\ streamView' = IF streamView = NoView THEN view ELSE streamView
        /\ UNCHANGED <<tables, browser, received>>
    BY <1>4, ReadStep
  <2>2. knownView # NoView => streamView' = knownView
    BY <2>1, ViewTypes DEF HeldInv
  <2>3. ASSUME Sent' # {} PROVE streamView' >= pageView
    <3>1. CASE streamView' = view
      BY <3>1, ViewTypes DEF HeldInv
    <3>2. CASE streamView' # view
      <4>1. frame'.reset /\ streamView' = streamView
        BY <2>1, <3>2 DEF ViewReplaced
      <4>2. received # {}
        BY <2>1, <2>3, <4>1 DEF Sent
      <4> QED
        BY <2>1, <4>1, <4>2 DEF HeldInv, Sent
    <3> QED
      BY <3>1, <3>2
  <2> QED
    BY <2>1, <2>2, <2>3 DEF HeldInv, tables, browser
<1>5. CASE Send
  <2>1. /\ stream = "sending" /\ ~frame.reset /\ Sent' = Sent
        /\ got' = got \union frame.rows
        /\ UNCHANGED <<tables, client, streamView, knownView, pageView>>
    BY <1>5, NoFrameType DEF Send, Sent
  <2>2. ASSUME client = "loaded", pageView = view, NEW n \in got' PROVE n >= live
    <3>1. CASE n \in got
      BY <2>2, <3>1 DEF HeldInv
    <3>2. CASE n \in frame.rows
      <4>1. n \in Sent /\ streamView >= view
        BY <2>1, <2>2, <3>2 DEF Sent, HeldInv
      <4>2. streamView = view
        BY <2>1, <4>1, ViewTypes DEF ViewsInv
      <4> QED
        BY <2>1, <4>1, <4>2 DEF ViewsInv
    <3> QED
      BY <2>1, <3>1, <3>2
  <2>3. client = "loaded" /\ pageView = view => \A n \in got' : n >= live
    BY <2>2
  <2> QED
    BY <2>1, <2>3 DEF HeldInv, tables
<1>6. CASE SendReset
  <2>1. client' = "away" /\ stream' = "closed" /\ UNCHANGED <<tables, pageView>>
    BY <1>6 DEF SendReset, Close
  <2> QED
    BY <2>1 DEF HeldInv, tables
<1>7. CASE Snapshot
  <2>1. client' = "loading" /\ stream = "closed" /\ UNCHANGED <<tables, server, knownView, pageView>>
    BY <1>7 DEF Snapshot, Linked
  <2> QED
    BY <2>1 DEF HeldInv, tables, server
<1>8. CASE LoadPage
  <2>1. /\ pageView' = view /\ got' \subseteq Rows /\ stream = "closed"
        /\ UNCHANGED <<tables, server, knownView>>
    BY <1>8 DEF LoadPage, Linked
  <2>2. \A n \in got' : n >= live
    BY <2>1 DEF Rows
  <2>3. knownView # NoView => view >= knownView
    BY ViewTypes DEF ViewsInv
  <2> QED
    BY <2>1, <2>2, <2>3, ViewTypes DEF HeldInv, tables, server
<1>9. CASE Open
  <2>1. Sent' = {} /\ streamView' = knownView /\ UNCHANGED <<tables, browser>>
    BY <1>9, NoFrameType DEF Open, Sent, browser
  <2> QED
    BY <2>1 DEF HeldInv, tables, browser
<1>10. CASE Disconnect
  <2>1. /\ stream' = "closed" /\ UNCHANGED <<tables, got, knownView, pageView>>
        /\ client' \in {client, "away"}
    BY <1>10 DEF Disconnect, Close
  <2> QED
    BY <2>1 DEF HeldInv, tables
<1>11. CASE UNCHANGED vars
  BY <1>11 DEF vars, tables, browser, server, HeldInv, Sent
<1> QED
  BY <1>1, <1>2, <1>3, <1>4, <1>5, <1>6, <1>7, <1>8, <1>9, <1>10, <1>11 DEF Next, Serve, Follow, SignalStep

----
(* Every state keeps its variables in their types, and a subscription lives *)
(* as long as its stream.                                                   *)
THEOREM TypeCorrect == Spec => []TypeOK
<1>1. TypeInv => TypeOK
  BY DEF TypeInv
<1> QED
  BY <1>1, TypeInit, TypeStep, PTL DEF Spec

(* Rows of two histories never meet in one stream. *)
THEOREM ViewsAreNotMixed == Spec => []OneViewPerStream
<1>1. Init => TypeInv /\ ViewsInv
  BY TypeInit, ViewsInit
<1>2. TypeInv /\ ViewsInv /\ [Next]_vars => TypeInv' /\ ViewsInv'
  BY TypeStep, ViewsStep
<1>3. ViewsInv => OneViewPerStream
  BY DEF ViewsInv
<1> QED
  BY <1>1, <1>2, <1>3, PTL DEF Spec

FollowInv == TypeInv /\ FeedInv /\ SessionInv /\ WakeInv /\ ViewsInv /\ HeldInv

LEMMA FollowInit == Init => FollowInv
  BY TypeInit, FeedInit, SessionInit, WakeInit, ViewsInit, HeldInit DEF FollowInv

LEMMA FollowStep == EmptyPage = 0 /\ FollowInv /\ [Next]_vars => FollowInv'
  BY TypeStep, FeedStep, SessionStep, WakeStep, ViewsStep, HeldStep DEF FollowInv, FeedInv

(* The position of a client that names an entry row when it has none never  *)
(* passes a row that it lacks.                                              *)
THEOREM RowsAreNotSkipped ==
    ASSUME EmptyPage = 0 PROVE Spec => []NothingSkipped
<1>1. FollowInv => NothingSkipped
  <2> SUFFICES ASSUME FollowInv PROVE NothingSkipped
    OBVIOUS
  <2> USE DEF FollowInv, FeedInv
  <2>1. ASSUME stream # "closed", entryCursor # NoRow, ~frame.reset, NEW n \in Rows,
               entries[n] <= cursor, n <= entryCursor
        PROVE  Shown(n)
    BY <2>1 DEF Streamed
  <2>2. ASSUME client = "loaded", base # NoRow, NEW n \in Rows, entries[n] <= seen, n <= base
        PROVE  Shown(n)
    BY <2>2 DEF Requested, Had, Shown
  <2> QED
    BY <2>1, <2>2 DEF NothingSkipped
<1>2. FollowInv /\ [Next]_vars => FollowInv'
  BY FollowStep
<1> QED
  BY <1>1, <1>2, FollowInit, PTL DEF Spec

(* A stream of such a client that waits for a notice has shown what the     *)
(* tables hold, and nothing of a history that was replaced unless the       *)
(* client is unaware of it, or the notice is on its way.                    *)
THEOREM NoticesAreNotLost ==
    ASSUME EmptyPage = 0 PROVE Spec => []NoLostWakeUp
<1>1. FollowInv => NoLostWakeUp
  <2> SUFFICES ASSUME FollowInv, stream = "waiting", ~Coming(Client) PROVE UpToDate
    BY DEF NoLostWakeUp
  <2>1. Fresh /\ frame = NoFrame
    BY DEF FollowInv, FeedInv, Linked, WakeInv, Complete
  <2>2. client = "loaded" /\ got \subseteq 1..Len(entries) /\ pageView \in Nat
    BY DEF FollowInv, FeedInv, Linked, TypeInv, TypeOK, Bounded
  <2>3. ASSUME ~Unaware PROVE pageView = view
    <3>1. CASE knownView = NoView
      BY <2>3, <3>1 DEF Unaware
    <3>2. CASE knownView # NoView
      <4>1. pageView >= knownView /\ knownView = view /\ pageView <= view
        BY <2>1, <2>2, <3>2 DEF FollowInv, HeldInv, Fresh
      <4> QED
        BY <2>2, <4>1, ViewTypes DEF FollowInv
    <3> QED
      BY <3>1, <3>2
  <2>4. pageView = view => got \subseteq Rows
    <3>1. pageView = view => \A n \in got : n >= live
      BY <2>2 DEF FollowInv, HeldInv
    <3>2. \A n \in got : n \in DOMAIN entries
      BY <2>2 DEF FollowInv, TypeInv, TypeOK
    <3> QED
      BY <3>1, <3>2 DEF Rows
  <2> QED
    BY <2>1, <2>3, <2>4, NoFrameType DEF Fresh, UpToDate, ShownSession
<1>2. FollowInv /\ [Next]_vars => FollowInv'
  BY FollowStep
<1> QED
  BY <1>1, <1>2, FollowInit, PTL DEF Spec
====
