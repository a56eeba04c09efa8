---- MODULE EnginePipelineProofs ----
(***************************************************************************)
(* Proofs about the engine for any sessions, hooks, scripts, faults and    *)
(* bounds on failures and restarts.                                        *)
(***************************************************************************)
EXTENDS EnginePipeline, FactsProofs

(* The harness writes no more than its script says: with it the next       *)
(* position of a source is a record of that source.                        *)
WithinScript == \A s \in Sessions : written[s] <= Len(Script[s])

(* Where the worker is says what it holds: accepted facts belong to the    *)
(* translating stage, and a fact that was reacted to is the next one of    *)
(* the journal, which grows in no stage but the translating one.           *)
WorkerPlace ==
    /\ accepted # <<>> => stage = RAW
    /\ reacted => stage = CANONICAL /\ progress < Len(journal) /\ NextFact \in effects
    /\ progress <= Len(journal)

TypeInv == TypeOK /\ WithinScript /\ WorkerPlace

LEMMA ScriptLength ==
    ASSUME NEW s \in Sessions
    PROVE  Len(Script[s]) \in Nat /\ DOMAIN Script[s] = 1..Len(Script[s])
  BY ScriptAssumption

(* Position is the last stored record of the source, or 0.                 *)
LEMMA PositionIsLast ==
    ASSUME NEW s \in Sessions
    PROVE  /\ Position(s) \in 0..Len(Script[s])
           /\ Position(s) = 0 \/ <<s, Position(s)>> \in Range(raw)
           /\ \A i \in DOMAIN Script[s] : <<s, i>> \in Range(raw) => i <= Position(s)
<1> DEFINE Known == {0} \union {i \in DOMAIN Script[s] : <<s, i>> \in Range(raw)}
           n == Len(Script[s])
<1>1. n \in Nat /\ Known \subseteq 0..n /\ Known # {}
  <2>1. n \in Nat /\ DOMAIN Script[s] = 1..n
    BY ScriptLength
  <2>2. {i \in DOMAIN Script[s] : <<s, i>> \in Range(raw)} \subseteq 1..n
    BY <2>1, Zenon
  <2>3. 1..n \subseteq 0..n /\ 0 \in 0..n
    BY <2>1
  <2>4. 0 \in Known
    OBVIOUS
  <2> QED
    BY <2>1, <2>2, <2>3, <2>4, Zenon
<1>2. Max(Known) \in Known /\ \A x \in Known : x <= Max(Known)
  <2> HIDE DEF Known, n
  <2> QED
    BY <1>1, MaxOfBounded
<1> QED
  BY <1>1, <1>2 DEF Position

LEMMA NextRecordIsRaw ==
    ASSUME TypeInv, NEW s \in Sessions, Position(s) < written[s]
    PROVE  <<s, Position(s) + 1>> \in Raw
<1>1. Position(s) + 1 \in 1..Len(Script[s])
  <2>1. Position(s) \in 0..Len(Script[s])
    BY PositionIsLast
  <2>2. written[s] \in Nat /\ written[s] <= Len(Script[s]) /\ Len(Script[s]) \in Nat
    BY ScriptLength DEF TypeInv, TypeOK, WithinScript
  <2> QED
    BY <2>1, <2>2
<1> QED
  BY <1>1, ScriptLength DEF Raw, RecordsOf

LEMMA TypeInit == Init => TypeInv
<1> SUFFICES ASSUME Init PROVE TypeInv
  OBVIOUS
<1>1. \A s \in Sessions : written[s] = 0 /\ 0 <= Len(Script[s])
  BY ScriptLength DEF Init
<1>2. reacted \in BOOLEAN
  BY DEF Init
<1>3. TypeOK /\ WithinScript
  BY <1>1, <1>2 DEF Init, TypeOK, WithinScript, Kinds
<1>4. WorkerPlace
  BY DEF Init, WorkerPlace
<1> QED
  BY <1>3, <1>4 DEF TypeInv

LEMMA TypeStep == TypeInv /\ [Next]_vars => TypeOK' /\ WithinScript'
<1> DEFINE Goal == TypeOK' /\ WithinScript'
<1> SUFFICES ASSUME TypeInv, [Next]_vars
             PROVE  Goal
  OBVIOUS
<1> USE DEF TypeInv, TypeOK, WithinScript, outside, rawTables, factTables, viewTables,
            queue, threads, worker, history, bounds
<1>kinds. SOURCES \in Kinds /\ RAW \in Kinds /\ CANONICAL \in Kinds
  BY DEF Kinds
<1>1. ASSUME NEW s \in Sessions, AppendRecord(s)
      PROVE  Goal
  BY <1>1, ScriptLength DEF AppendRecord
<1>2. ASSUME NEW h \in Hooks, DeliverHook(h)
      PROVE  Goal
  <2>1. h \in Raw
    BY DEF Raw
  <2>2. raw' \in Seq(Raw) /\ pendingRaw' \subseteq Raw
    BY <1>2, <2>1 DEF DeliverHook, StoreRaw
  <2> QED
    BY <1>2, <2>2 DEF DeliverHook
<1>3. ASSUME NEW s \in Sessions, FileNotice(s)
      PROVE  Goal
  BY <1>3, <1>kinds DEF FileNotice
<1>4. ASSUME NEW h \in Hooks, HookNotice(h)
      PROVE  Goal
  BY <1>4, <1>kinds DEF HookNotice
<1>5. ASSUME NEW fired \in SUBSET armed, Take(fired)
      PROVE  Goal
  <2>1. ready_stages(ready \union fired) \subseteq Kinds
    BY <1>kinds DEF ready_stages
  <2> QED
    BY <1>5, <2>1 DEF Take
<1>6. CASE BeginSources
  <2>1. Watchable \subseteq Sessions
    BY DEF Watchable
  <2> QED
    BY <1>6, <1>kinds, <2>1 DEF BeginSources, WatchNotice
<1>7. CASE SourcesFail
  BY <1>7, <1>kinds DEF SourcesFail, MayFail
<1>8. ASSUME NEW kind \in Kinds, BeginStored(kind)
      PROVE  Goal
  BY <1>8 DEF BeginStored
<1>9. CASE EndSources \/ EndRaw \/ EndCanonical
  BY <1>9 DEF EndSources, EndRaw, EndCanonical, EndStage
<1>10. CASE StageFails
  <2>1. reacted' \in BOOLEAN
    BY <1>10 DEF StageFails, EndStage
  <2>2. failures' \in Nat
    BY <1>10 DEF StageFails, MayFail
  <2> QED
    BY <1>10, <1>kinds, <2>1, <2>2 DEF StageFails, EndStage
<1>11. ASSUME NEW s \in Sessions, ReadRecord(s)
       PROVE  Goal
  <2>1. raw' \in Seq(Raw) /\ pendingRaw' \subseteq Raw
    BY <1>11, NextRecordIsRaw DEF ReadRecord, StoreRaw
  <2> QED
    BY <1>11, <1>kinds, <2>1 DEF ReadRecord
<1>12. ASSUME NEW s \in Sessions, FinishRead(s) \/ ReadFails(s)
       PROVE  Goal
  BY <1>12, <1>kinds DEF FinishRead, ReadFails, MayFail
<1>13. ASSUME NEW r \in Raw, Translate(r)
       PROVE  Goal
  <2>1. PICK new \in Translations :
           /\ IsFresh(new, FactsOf(r), journal)
           /\ journal' = journal \o new
           /\ row' = [s \in Sessions |->
                         IF row[s] = "absent" THEN "absent" ELSE LifecycleAfter(new, s, row[s])]
           /\ accepted' = new
    BY <1>13 DEF Translate
  <2>2. journal' \in Seq(Facts) /\ accepted' \in Seq(Facts)
    BY <2>1, TranslationIsSeq
  <2>3. row' \in [Sessions -> {"absent", "running", "finished"}]
    BY <2>1 DEF LifecycleAfter
  <2> QED
    BY <1>13, <1>kinds, <2>2, <2>3 DEF Translate
<1>14. CASE InputReact
  <2>1. Head(accepted) \in Facts /\ Tail(accepted) \in Seq(Facts)
    BY <1>14, HeadTailProperties DEF InputReact
  <2>2. SessionOf[Head(accepted)] \in Sessions
    BY <2>1, SessionOfAssumption
  <2>3. row' \in [Sessions -> {"absent", "running", "finished"}]
    BY <1>14, <2>2 DEF InputReact, Insert, Relocate, LifecycleAfter
  <2>4. inputRuns' \in [Facts -> Nat]
    BY <1>14, <2>1 DEF InputReact
  <2> QED
    BY <1>14, <1>kinds, <2>1, <2>3, <2>4 DEF InputReact, Insert, Relocate
<1>15. CASE InputReactionFails
  <2>1. Head(accepted) \in Facts /\ Tail(accepted) \in Seq(Facts)
    BY <1>15, HeadTailProperties DEF InputReactionFails
  <2> QED
    BY <1>15, <2>1 DEF InputReactionFails, MayFail
<1>16. CASE React
  <2>1. NextFact \in Facts
    BY <1>16 DEF React, NextFact
  <2>2. reacted' \in BOOLEAN
    BY <1>16 DEF React
  <2> QED
    BY <1>16, <2>1, <2>2 DEF React
<1>17. CASE Materialize
  <2>1. NextFact \in Facts
    BY <1>17 DEF Materialize, NextFact, WorkerPlace
  <2>2. reacted' \in BOOLEAN
    BY <1>17 DEF Materialize
  <2> QED
    BY <1>17, <2>1, <2>2 DEF Materialize
<1>18. CASE Restart
  <2>1. reacted' \in BOOLEAN
    BY <1>18 DEF Restart, EndStage
  <2> QED
    BY <1>18, <1>kinds, <2>1 DEF Restart, EndStage
<1>19. CASE UNCHANGED vars
  BY <1>19 DEF vars
<1> QED
  BY <1>1, <1>2, <1>3, <1>4, <1>5, <1>6, <1>7, <1>8, <1>9, <1>10, <1>11, <1>12, <1>13, <1>14,
     <1>15, <1>16, <1>17, <1>18, <1>19
     DEF Next, Environment, Worker, Batch, Sources, Interpretation, Reaction

LEMMA PlaceStep == TypeInv /\ [Next]_vars => WorkerPlace'
<1> SUFFICES ASSUME TypeInv, [Next]_vars
             PROVE  WorkerPlace'
  OBVIOUS
<1> USE DEF TypeInv, TypeOK, WorkerPlace, NextFact, outside, rawTables, factTables, viewTables,
            queue, threads, worker, history, bounds
<1>1. ASSUME NEW r \in Raw, Translate(r)
      PROVE  WorkerPlace'
  <2>1. PICK new \in Translations : journal' = journal \o new
    BY <1>1 DEF Translate
  <2>2. Len(journal') = Len(journal) + Len(new) /\ Len(new) \in Nat
    BY <2>1, TranslationIsSeq
  <2>3. ~reacted /\ UNCHANGED <<stage, reacted, progress>>
    BY <1>1, KindsAssumption DEF Translate
  <2> QED
    BY <1>1, <2>2, <2>3 DEF Translate
<1>2. CASE InputReact \/ InputReactionFails
  <2>1. stage = RAW /\ UNCHANGED <<stage, journal, progress, reacted>>
    BY <1>2 DEF InputReact, InputReactionFails
  <2> QED
    BY <2>1, KindsAssumption
<1>3. CASE React
  BY <1>3, KindsAssumption DEF React
<1>4. CASE Materialize
  BY <1>4, KindsAssumption DEF Materialize
<1>5. CASE \/ BeginSources \/ \E kind \in Kinds : BeginStored(kind)
  <2>1. accepted = <<>> /\ ~reacted /\ UNCHANGED <<accepted, reacted, journal, progress>>
    BY <1>5, KindsAssumption DEF BeginSources, BeginStored, IsNext, Kinds
  <2> QED
    BY <2>1
<1>6. CASE EndSources \/ EndRaw \/ EndCanonical \/ StageFails \/ Restart
  <2>1. accepted' = <<>> /\ ~reacted' /\ UNCHANGED <<journal, progress>>
    BY <1>6, KindsAssumption DEF EndSources, EndRaw, EndCanonical, StageFails, Restart, EndStage
  <2> QED
    BY <2>1
<1>7. CASE \/ Environment \/ SourcesFail \/ Sources
           \/ \E s \in Sessions : FileNotice(s)
           \/ \E h \in Hooks : HookNotice(h)
           \/ \E fired \in SUBSET armed : Take(fired)
           \/ UNCHANGED vars
  <2>1. UNCHANGED <<accepted, stage, reacted, journal, progress, effects>>
    BY <1>7 DEF Environment, AppendRecord, DeliverHook, SourcesFail, Sources, ReadRecord,
                FinishRead, ReadFails, FileNotice, HookNotice, Take, vars
  <2> QED
    BY <2>1
<1> QED
  BY <1>1, <1>2, <1>3, <1>4, <1>5, <1>6, <1>7
     DEF Next, Worker, Batch, Interpretation, Reaction

LEMMA TypeInvariant == Spec => []TypeInv
<1>1. TypeInv /\ [Next]_vars => TypeInv'
  BY TypeStep, PlaceStep DEF TypeInv
<1> QED
  BY TypeInit, <1>1, PTL DEF Spec

(* Every state keeps its variables in their types: no step reads past the  *)
(* end of the journal or of a source.                                      *)
THEOREM TypeCorrect == Spec => []TypeOK
<1>1. TypeInv => TypeOK
  BY DEF TypeInv
<1> QED
  BY <1>1, TypeInvariant, PTL

----
(* Reading sources. *)

LEMMA PrefixStep == TypeInv /\ RecordsFormPrefix /\ [Next]_vars => RecordsFormPrefix'
<1> SUFFICES ASSUME TypeInv, RecordsFormPrefix, [Next]_vars,
                    NEW s \in Sessions, NEW i \in DOMAIN Script[s], <<s, i>> \in Range(raw')
             PROVE  i <= written'[s] /\ (i = 1 \/ <<s, i - 1>> \in Range(raw'))
  BY DEF RecordsFormPrefix
<1> USE DEF TypeInv, TypeOK, WithinScript, outside, rawTables
<1>i. i \in Nat /\ i >= 1
  BY ScriptLength
<1>1. ASSUME raw' = raw, written[s] <= written'[s], written'[s] \in Nat
      PROVE  i <= written'[s] /\ (i = 1 \/ <<s, i - 1>> \in Range(raw'))
  BY <1>1, <1>i DEF RecordsFormPrefix
<1>2. ASSUME NEW t \in Sessions, AppendRecord(t)
      PROVE  i <= written'[s] /\ (i = 1 \/ <<s, i - 1>> \in Range(raw'))
  <2>1. raw' = raw /\ written[s] <= written'[s] /\ written'[s] \in Nat
    BY <1>2 DEF AppendRecord
  <2> QED
    BY <1>1, <2>1
<1>3. ASSUME NEW h \in Hooks, DeliverHook(h)
      PROVE  i <= written'[s] /\ (i = 1 \/ <<s, i - 1>> \in Range(raw'))
  <2>1. Range(raw') = Range(raw) \union {h} /\ written' = written
    BY <1>3, RangeOfAppend DEF DeliverHook, StoreRaw
  <2>2. <<s, i>> # h
    BY <1>i, RecordIsNoHook
  <2> QED
    BY <2>1, <2>2 DEF RecordsFormPrefix
<1>4. ASSUME NEW t \in Sessions, ReadRecord(t)
      PROVE  i <= written'[s] /\ (i = 1 \/ <<s, i - 1>> \in Range(raw'))
  <2>1. Range(raw') = Range(raw) \union {<<t, Position(t) + 1>>} /\ written' = written
    BY <1>4, RangeOfAppend DEF ReadRecord, StoreRaw
  <2>2. CASE <<s, i>> \in Range(raw)
    BY <2>1, <2>2 DEF RecordsFormPrefix
  <2>3. CASE s = t /\ i = Position(s) + 1
    <3>1. Position(s) \in Nat /\ (Position(s) = 0 \/ <<s, Position(s)>> \in Range(raw))
      BY PositionIsLast, ScriptLength
    <3>2. Position(s) < written[s]
      BY <1>4, <2>3 DEF ReadRecord
    <3>3. i <= written[s]
      BY <2>3, <3>1, <3>2
    <3>4. i = 1 \/ (i - 1 = Position(s) /\ <<s, Position(s)>> \in Range(raw))
      BY <2>3, <3>1
    <3> QED
      BY <2>1, <3>3, <3>4
  <2> QED
    BY <2>1, <2>2, <2>3
<1>5. CASE \/ Batch \/ Interpretation \/ Reaction \/ Restart
           \/ \E t \in Sessions : FinishRead(t) \/ ReadFails(t) \/ FileNotice(t)
           \/ \E h \in Hooks : HookNotice(h)
           \/ UNCHANGED vars
  <2>1. raw' = raw /\ written' = written
    BY <1>5 DEF Batch, Take, BeginSources, SourcesFail, BeginStored, EndSources, EndRaw,
                EndCanonical, StageFails, Interpretation, Translate, InputReact,
                InputReactionFails, Reaction, React, Materialize, Restart, FinishRead,
                ReadFails, FileNotice, HookNotice, vars
  <2> QED
    BY <1>1, <2>1
<1> QED
  BY <1>2, <1>3, <1>4, <1>5 DEF Next, Environment, Worker, Sources

(* The stored records of a source are the first of those written to it:    *)
(* however reads fail or the process stops, no record is skipped.          *)
THEOREM RecordsAreNotSkipped == Spec => []RecordsFormPrefix
<1>1. Init => RecordsFormPrefix
  BY DEF Init, RecordsFormPrefix, Range
<1> QED
  BY <1>1, PrefixStep, TypeInvariant, PTL DEF Spec

----
(* Folding facts. *)

FoldInv == ReactionsPrecedeFold /\ FoldIsPrefix

LEMMA FoldStep == TypeInv /\ FoldInv /\ [Next]_vars => FoldInv'
<1> SUFFICES ASSUME TypeInv, FoldInv, [Next]_vars
             PROVE  FoldInv'
  OBVIOUS
<1> USE DEF TypeInv, TypeOK, WorkerPlace, FoldInv, ReactionsPrecedeFold, FoldIsPrefix,
            factTables, viewTables, history
<1>1. ASSUME NEW r \in Raw, Translate(r)
      PROVE  FoldInv'
  <2>1. PICK new \in Translations : journal' = journal \o new
    BY <1>1 DEF Translate
  <2>2. new \in Seq(Facts)
    BY TranslationIsSeq
  <2>3. SubSeq(journal', 1, progress) = SubSeq(journal, 1, progress)
    <3>1. CASE progress = 0
      BY <3>1, SubSeqEmpty
    <3>2. CASE progress # 0
      <4>1. 1 \in 1..Len(journal) /\ progress \in 1..Len(journal)
        BY <3>2
      <4> QED
        BY <2>1, <2>2, <4>1, SubSeqOfConcat1
    <3> QED
      BY <3>1, <3>2
  <2> QED
    BY <1>1, <2>3 DEF Translate
<1>2. CASE React
  BY <1>2 DEF React
<1>3. CASE Materialize
  <2>1. progress < Len(journal) /\ NextFact \in effects /\ progress + 1 \in 1..Len(journal)
    BY <1>3 DEF Materialize
  <2>2. Range(readModel') = Range(readModel) \union {NextFact}
    BY <1>3, RangeOfAppend DEF Materialize
  <2>3. SubSeq(journal, 1, progress + 1) = Append(SubSeq(journal, 1, progress), NextFact)
    <3>1. SubSeq(journal, 1, progress + 1)
            = SubSeq(journal, 1, progress + 1 - 1) \o <<journal[progress + 1]>>
      BY <2>1, SubSeqRecursiveSecond
    <3>2. progress + 1 - 1 = progress
      OBVIOUS
    <3> QED
      BY <3>1, <3>2 DEF NextFact
  <2> QED
    BY <1>3, <2>1, <2>2, <2>3 DEF Materialize
<1>4. CASE \/ Environment \/ Batch \/ Sources \/ InputReact \/ InputReactionFails \/ Restart
           \/ \E s \in Sessions : FileNotice(s)
           \/ \E h \in Hooks : HookNotice(h)
           \/ UNCHANGED vars
  <2>1. UNCHANGED <<journal, progress, readModel, effects>>
    BY <1>4 DEF Environment, AppendRecord, DeliverHook, Batch, Take, BeginSources, SourcesFail,
                BeginStored, EndSources, EndRaw, EndCanonical, StageFails, Sources, ReadRecord,
                FinishRead, ReadFails, InputReact, InputReactionFails, Restart, FileNotice,
                HookNotice, vars
  <2> QED
    BY <2>1
<1> QED
  BY <1>1, <1>2, <1>3, <1>4 DEF Next, Worker, Interpretation, Reaction

LEMMA FoldInvariant == Spec => []FoldInv
<1>1. Init => FoldInv
  BY SubSeqEmpty DEF Init, FoldInv, ReactionsPrecedeFold, FoldIsPrefix, Range
<1> QED
  BY <1>1, FoldStep, TypeInvariant, PTL DEF Spec

(* The read model is the journal up to the progress mark, whichever of its *)
(* transactions fail and wherever the process stops.                       *)
THEOREM ReadModelFollowsJournal == Spec => []FoldIsPrefix
<1>1. FoldInv => FoldIsPrefix
  BY DEF FoldInv
<1> QED
  BY <1>1, FoldInvariant, PTL

(* No fact is in the read model whose reactions have not run.              *)
THEOREM ReactionsComeFirst == Spec => []ReactionsPrecedeFold
<1>1. FoldInv => ReactionsPrecedeFold
  BY DEF FoldInv
<1> QED
  BY <1>1, FoldInvariant, PTL

----
(* Verdicts. *)

LEMMA VerdictStep == TypeInv /\ VerdictsKeepTheirFacts /\ [Next]_vars => VerdictsKeepTheirFacts'
<1> SUFFICES ASSUME TypeInv, VerdictsKeepTheirFacts, [Next]_vars
             PROVE  VerdictsKeepTheirFacts'
  OBVIOUS
<1> USE DEF TypeInv, TypeOK, rawTables, factTables
<1>1. ASSUME NEW r \in Raw, Translate(r)
      PROVE  VerdictsKeepTheirFacts'
  <2>1. PICK new \in Translations :
           IsFresh(new, FactsOf(r), journal) /\ journal' = journal \o new
    BY <1>1 DEF Translate
  <2>2. raw' = raw /\ pendingRaw' = pendingRaw \ {r}
    BY <1>1 DEF Translate
  <2>3. Range(journal') = Range(journal) \union Range(FactsOf(r))
    BY <2>1, FactsOfIsTranslation, FreshExtends
  <2>4. \A i, j \in DOMAIN journal' : journal'[i] = journal'[j] => i = j
    BY <2>1, FactsOfIsTranslation, FreshKeepsDistinct DEF VerdictsKeepTheirFacts
  <2>5. \A q \in Range(raw') \ pendingRaw' : Range(FactsOf(q)) \subseteq Range(journal')
    BY <2>2, <2>3 DEF VerdictsKeepTheirFacts
  <2> QED
    BY <2>4, <2>5 DEF VerdictsKeepTheirFacts
<1>2. ASSUME NEW r, StoreRaw(r), journal' = journal
      PROVE  VerdictsKeepTheirFacts'
  <2>1. Range(raw') = Range(raw) \union {r} /\ pendingRaw' = pendingRaw \union {r}
    BY <1>2, RangeOfAppend DEF StoreRaw
  <2> QED
    BY <1>2, <2>1 DEF VerdictsKeepTheirFacts
<1>3. ASSUME NEW h \in Hooks, DeliverHook(h)
      PROVE  VerdictsKeepTheirFacts'
  BY <1>2, <1>3 DEF DeliverHook
<1>4. ASSUME NEW s \in Sessions, ReadRecord(s)
      PROVE  VerdictsKeepTheirFacts'
  BY <1>2, <1>4 DEF ReadRecord
<1>5. CASE \/ Batch \/ InputReact \/ InputReactionFails \/ Reaction \/ Restart
           \/ \E s \in Sessions : AppendRecord(s) \/ FinishRead(s) \/ ReadFails(s) \/ FileNotice(s)
           \/ \E h \in Hooks : HookNotice(h)
           \/ UNCHANGED vars
  <2>1. UNCHANGED <<raw, pendingRaw, journal>>
    BY <1>5 DEF AppendRecord, Batch, Take, BeginSources, SourcesFail, BeginStored, EndSources,
                EndRaw, EndCanonical, StageFails, FinishRead, ReadFails, InputReact,
                InputReactionFails, Reaction, React, Materialize, Restart, FileNotice,
                HookNotice, vars
  <2> QED
    BY <2>1 DEF VerdictsKeepTheirFacts
<1> QED
  BY <1>1, <1>3, <1>4, <1>5 DEF Next, Environment, Worker, Sources, Interpretation

LEMMA VerdictInvariant == Spec => []VerdictsKeepTheirFacts
<1>1. Init => VerdictsKeepTheirFacts
  BY DEF Init, VerdictsKeepTheirFacts, Range
<1> QED
  BY <1>1, VerdictStep, TypeInvariant, PTL DEF Spec

(* No raw event leaves the backlog without its facts in the journal, and   *)
(* however often a fact is observed the journal holds it once.             *)
THEOREM VerdictsAreComplete == Spec => []VerdictsKeepTheirFacts
  BY VerdictInvariant

----
(* Input reactions. *)

(* A fact waits for the input reactions or has reached them, never both;   *)
(* one that has is in the journal, so no later translation accepts it.     *)
ReactionInv ==
    /\ InputReactionsRunOnce
    /\ \A f \in Facts : inputRuns[f] # 0 => f \in Range(journal)
    /\ \A i \in DOMAIN accepted : inputRuns[accepted[i]] = 0 /\ accepted[i] \in Range(journal)
    /\ \A i, j \in DOMAIN accepted : accepted[i] = accepted[j] => i = j

LEMMA HeadRuns ==
    ASSUME TypeInv, ReactionInv, accepted # <<>>, accepted' = Tail(accepted), journal' = journal,
           inputRuns' = [inputRuns EXCEPT ![Head(accepted)] = @ + 1]
    PROVE  ReactionInv'
<1> USE DEF TypeInv, TypeOK
<1>1. /\ Head(accepted) = accepted[1] /\ Head(accepted) \in Facts
      /\ DOMAIN accepted = 1..Len(accepted) /\ Len(accepted) \in Nat /\ Len(accepted) > 0
      /\ 1 \in DOMAIN accepted
  BY HeadTailProperties
<1>2. /\ DOMAIN accepted' = 1..(Len(accepted) - 1)
      /\ \A i \in 1..(Len(accepted) - 1) : accepted'[i] = accepted[i + 1]
  BY <1>1, HeadTailProperties
<1>3. inputRuns[Head(accepted)] = 0 /\ Head(accepted) \in Range(journal)
  <2>1. inputRuns[accepted[1]] = 0 /\ accepted[1] \in Range(journal)
    BY <1>1 DEF ReactionInv
  <2> QED
    BY <1>1, <2>1
<1>4. \A f \in Facts : inputRuns'[f] = IF f = Head(accepted) THEN 1 ELSE inputRuns[f]
  BY <1>1, <1>3
<1>5. \A i \in DOMAIN accepted' :
         accepted'[i] \in Facts /\ accepted'[i] # Head(accepted) /\ i + 1 \in DOMAIN accepted
  <2> TAKE i \in DOMAIN accepted'
  <2>1. i + 1 \in DOMAIN accepted /\ i + 1 # 1 /\ accepted'[i] = accepted[i + 1]
    BY <1>1, <1>2
  <2>2. accepted[i + 1] # accepted[1]
    <3>1. \A j, k \in DOMAIN accepted : accepted[j] = accepted[k] => j = k
      BY DEF ReactionInv
    <3> QED
      BY <1>1, <2>1, <3>1, Zenon
  <2> QED
    BY <1>1, <2>1, <2>2
<1>6. InputReactionsRunOnce'
  BY <1>4 DEF ReactionInv, InputReactionsRunOnce
<1>7. \A f \in Facts : inputRuns'[f] # 0 => f \in Range(journal')
  BY <1>3, <1>4 DEF ReactionInv
<1>8. \A i \in DOMAIN accepted' : inputRuns'[accepted'[i]] = 0 /\ accepted'[i] \in Range(journal')
  BY <1>2, <1>4, <1>5 DEF ReactionInv
<1>9. \A i, j \in DOMAIN accepted' : accepted'[i] = accepted'[j] => i = j
  <2> TAKE i, j \in DOMAIN accepted'
  <2>1. i \in Int /\ j \in Int /\ accepted'[i] = accepted[i + 1] /\ accepted'[j] = accepted[j + 1]
    BY <1>1, <1>2
  <2>2. accepted[i + 1] = accepted[j + 1] => i + 1 = j + 1
    BY <1>5 DEF ReactionInv
  <2> QED
    BY <2>1, <2>2
<1> QED
  BY <1>6, <1>7, <1>8, <1>9 DEF ReactionInv

LEMMA ReactionStep ==
    TypeInv /\ VerdictsKeepTheirFacts /\ ReactionInv /\ [Next]_vars => ReactionInv'
<1> SUFFICES ASSUME TypeInv, VerdictsKeepTheirFacts, ReactionInv, [Next]_vars
             PROVE  ReactionInv'
  OBVIOUS
<1> USE DEF TypeInv, TypeOK, factTables, worker, history
<1>1. ASSUME NEW r \in Raw, Translate(r)
      PROVE  ReactionInv'
  <2>1. PICK new \in Translations :
           IsFresh(new, FactsOf(r), journal) /\ journal' = journal \o new /\ accepted' = new
    BY <1>1 DEF Translate
  <2>2. inputRuns' = inputRuns
    BY <1>1 DEF Translate
  <2>3. new \in Seq(Facts) /\ Range(journal') = Range(journal) \union Range(new)
    BY <2>1, TranslationIsSeq, RangeOfConcat
  <2>4. /\ \A i, j \in DOMAIN new : new[i] = new[j] => i = j
        /\ Range(new) \intersect Range(journal) = {}
    BY <2>1, FactsOfIsTranslation, FreshKeepsDistinct DEF VerdictsKeepTheirFacts
  <2>5. \A i \in DOMAIN new : new[i] \in Range(new) /\ new[i] \in Facts
    BY <2>3 DEF Range
  <2>6. \A i \in DOMAIN new : inputRuns[new[i]] = 0
    BY <2>4, <2>5 DEF ReactionInv
  <2> QED
    BY <2>1, <2>2, <2>3, <2>4, <2>5, <2>6 DEF ReactionInv, InputReactionsRunOnce
<1>2. CASE InputReact \/ InputReactionFails
  <2>1. /\ accepted # <<>> /\ accepted' = Tail(accepted) /\ journal' = journal
        /\ inputRuns' = [inputRuns EXCEPT ![Head(accepted)] = @ + 1]
    BY <1>2 DEF InputReact, InputReactionFails
  <2> QED
    BY <2>1, HeadRuns
<1>3. CASE Restart
  <2>1. accepted' = <<>> /\ UNCHANGED <<journal, inputRuns>>
    BY <1>3 DEF Restart
  <2> QED
    BY <2>1 DEF ReactionInv, InputReactionsRunOnce
<1>4. CASE \/ Environment \/ Batch \/ Sources \/ Reaction
           \/ \E s \in Sessions : FileNotice(s)
           \/ \E h \in Hooks : HookNotice(h)
           \/ UNCHANGED vars
  <2>1. UNCHANGED <<journal, accepted, inputRuns>>
    BY <1>4 DEF Environment, AppendRecord, DeliverHook, Batch, Take, BeginSources, SourcesFail,
                BeginStored, EndSources, EndRaw, EndCanonical, StageFails, Sources, ReadRecord,
                FinishRead, ReadFails, Reaction, React, Materialize, FileNotice, HookNotice, vars
  <2> QED
    BY <2>1 DEF ReactionInv, InputReactionsRunOnce
<1> QED
  BY <1>1, <1>2, <1>3, <1>4 DEF Next, Worker, Interpretation

(* No fact reaches the input reactions twice, from however many raw events *)
(* it is translated and however often the process restarts.                *)
THEOREM InputReactionsAreNotRepeated == Spec => []InputReactionsRunOnce
<1>1. Init => ReactionInv
  BY DEF Init, ReactionInv, InputReactionsRunOnce, Range
<1>2. ReactionInv => InputReactionsRunOnce
  BY DEF ReactionInv
<1> QED
  BY <1>1, <1>2, ReactionStep, TypeInvariant, VerdictInvariant, PTL DEF Spec

----
(* Lifecycles. *)

LEMMA RowStep == TypeInv /\ RowsFollowJournal /\ [Next]_vars => RowsFollowJournal'
<1> SUFFICES ASSUME TypeInv, RowsFollowJournal, [Next]_vars,
                    NEW s \in Sessions, row'[s] # "absent"
             PROVE  row'[s] = LifecycleAfter(journal', s, "running")
  BY DEF RowsFollowJournal
<1> USE DEF TypeInv, TypeOK, RowsFollowJournal, factTables
<1>1. ASSUME NEW r \in Raw, Translate(r)
      PROVE  row'[s] = LifecycleAfter(journal', s, "running")
  <2>1. PICK new \in Translations :
           /\ journal' = journal \o new
           /\ row' = [t \in Sessions |->
                         IF row[t] = "absent" THEN "absent" ELSE LifecycleAfter(new, t, row[t])]
    BY <1>1 DEF Translate
  <2>2. new \in Seq(Facts)
    BY TranslationIsSeq
  <2>3. row[s] = LifecycleAfter(journal, s, "running")
    BY <2>1
  <2>4. row'[s] = LifecycleAfter(new, s, row[s])
    BY <2>1
  <2> QED
    BY <2>1, <2>2, <2>3, <2>4, LifecycleOfConcat
<1>2. CASE InputReact
  BY <1>2 DEF InputReact, Insert, Relocate
<1>3. CASE \/ Environment \/ Batch \/ Sources \/ InputReactionFails \/ Reaction \/ Restart
           \/ \E t \in Sessions : FileNotice(t)
           \/ \E h \in Hooks : HookNotice(h)
           \/ UNCHANGED vars
  <2>1. UNCHANGED <<journal, row>>
    BY <1>3 DEF Environment, AppendRecord, DeliverHook, Batch, Take, BeginSources, SourcesFail,
                BeginStored, EndSources, EndRaw, EndCanonical, StageFails, Sources, ReadRecord,
                FinishRead, ReadFails, InputReactionFails, Reaction, React, Materialize, Restart,
                FileNotice, HookNotice, vars
  <2> QED
    BY <2>1
<1> QED
  BY <1>1, <1>2, <1>3 DEF Next, Worker, Interpretation

(* A stored session has the lifecycle of the last start or end fact of the *)
(* journal, whichever of the two transactions comes first.                 *)
THEOREM LifecyclesFollowJournal == Spec => []RowsFollowJournal
<1>1. Init => RowsFollowJournal
  BY DEF Init, RowsFollowJournal
<1> QED
  BY <1>1, RowStep, TypeInvariant, PTL DEF Spec

----
(* Sessions without a row. *)

(* A start fact in the journal whose session has no row waits for its input *)
(* reactions; or it never reached them, and the process has stopped; or it  *)
(* reached them, and a call has failed (engine/interpret/translation.py:    *)
(* 45-46, session_reaction.py:46-68).  Nothing else loses a started session.*)
RowIsLostByFaults(f) ==
    \/ f \in Range(accepted)
    \/ inputRuns[f] = 0 /\ crashes > 0
    \/ inputRuns[f] > 0 /\ failures > 0

StartedSessionsAreLostByFaults ==
    \A f \in Started :
        f \in Range(journal) /\ row[SessionOf[f]] = "absent" => RowIsLostByFaults(f)

LEMMA LifecycleIsNotAbsent ==
    ASSUME NEW facts, NEW s, NEW otherwise, otherwise # "absent"
    PROVE  LifecycleAfter(facts, s, otherwise) # "absent"
BY DEF LifecycleAfter

(* A fact that loses its place among the waiting ones is their head. *)
LEMMA TailWaits ==
    ASSUME TypeInv, accepted # <<>>, accepted' = Tail(accepted),
           NEW f \in Range(accepted), f # Head(accepted)
    PROVE  f \in Range(accepted')
<1>1. accepted \in Seq(Facts)
  BY DEF TypeInv, TypeOK
<1>2. PICK i \in 1..Len(accepted) : accepted[i] = f
  BY <1>1 DEF Range
<1>3. i # 1 /\ i - 1 \in 1..Len(Tail(accepted)) /\ Tail(accepted)[i - 1] = accepted[i]
  BY <1>1, <1>2, HeadTailProperties
<1>4. DOMAIN accepted' = 1..Len(Tail(accepted))
  BY <1>1, HeadTailProperties
<1> QED
  BY <1>2, <1>3, <1>4 DEF Range

LEMMA LostStep ==
    TypeInv /\ ReactionInv /\ StartedSessionsAreLostByFaults /\ [Next]_vars
        => StartedSessionsAreLostByFaults'
<1> SUFFICES ASSUME TypeInv, ReactionInv, StartedSessionsAreLostByFaults, [Next]_vars,
                    NEW f \in Started, f \in Range(journal'), row'[SessionOf[f]] = "absent"
             PROVE  RowIsLostByFaults(f)'
  BY DEF StartedSessionsAreLostByFaults
<1> DEFINE s == SessionOf[f]
<1>1. f \in Facts /\ s \in Sessions
  BY LifecycleAssumption, SessionOfAssumption
<1>2. f \in Range(journal) /\ row[s] = "absent" => RowIsLostByFaults(f)
  BY DEF StartedSessionsAreLostByFaults
<1> USE DEF TypeInv, TypeOK, factTables, worker, history, bounds
<1>3. ASSUME NEW r \in Raw, Translate(r)
      PROVE  RowIsLostByFaults(f)'
  <2>1. PICK new \in Translations :
           /\ journal' = journal \o new
           /\ row' = [t \in Sessions |->
                         IF row[t] = "absent" THEN "absent" ELSE LifecycleAfter(new, t, row[t])]
           /\ accepted' = new
    BY <1>3 DEF Translate
  <2>2. accepted = <<>> /\ UNCHANGED <<inputRuns, crashes, failures>>
    BY <1>3 DEF Translate
  <2>3. Range(journal') = Range(journal) \union Range(new)
    BY <2>1, TranslationIsSeq, RangeOfConcat
  <2>4. row[s] = "absent"
    BY <1>1, <2>1, LifecycleIsNotAbsent
  <2>5. CASE f \in Range(new)
    BY <2>1, <2>5 DEF RowIsLostByFaults
  <2>6. CASE f \in Range(journal)
    <3>1. f \notin Range(accepted)
      BY <2>2 DEF Range
    <3> QED
      BY <1>2, <2>2, <2>4, <2>6, <3>1 DEF RowIsLostByFaults
  <2> QED
    BY <2>3, <2>5, <2>6
<1>4. CASE InputReact \/ InputReactionFails
  <2>1. /\ accepted # <<>> /\ accepted' = Tail(accepted) /\ journal' = journal
        /\ inputRuns' = [inputRuns EXCEPT ![Head(accepted)] = @ + 1]
        /\ (failures > 0 => failures' > 0) /\ crashes' = crashes
    BY <1>4 DEF InputReact, InputReactionFails, MayFail
  <2>2. Head(accepted) \in Facts
    BY <2>1, HeadTailProperties
  <2>3. row[s] = "absent"
    BY <1>1, <1>4 DEF InputReact, InputReactionFails, Insert, Relocate, LifecycleAfter
  <2>4. CASE f = Head(accepted)
    <3>1. ~InputReact
      BY <1>1, <2>3, <2>4, LifecycleIsNotAbsent DEF InputReact, Insert, Relocate
    <3>2. failures' > 0
      BY <1>4, <3>1 DEF InputReactionFails, MayFail
    <3>3. inputRuns'[f] > 0
      BY <1>1, <2>1, <2>4
    <3> QED
      BY <3>2, <3>3 DEF RowIsLostByFaults
  <2>5. CASE f # Head(accepted)
    <3>1. inputRuns'[f] = inputRuns[f]
      BY <1>1, <2>1, <2>2, <2>5
    <3>2. f \in Range(accepted) => f \in Range(accepted')
      BY <2>1, <2>5, TailWaits
    <3> QED
      BY <1>2, <2>1, <2>3, <3>1, <3>2 DEF RowIsLostByFaults
  <2> QED
    BY <2>4, <2>5
<1>5. CASE Restart
  <2>1. UNCHANGED <<journal, row, inputRuns, failures>> /\ crashes' > 0
    BY <1>5 DEF Restart
  <2>2. f \in Range(accepted) => inputRuns[f] = 0
    BY DEF ReactionInv, Range
  <2> QED
    BY <1>2, <2>1, <2>2 DEF RowIsLostByFaults
<1>6. CASE \/ Environment \/ Batch \/ Sources \/ Reaction
           \/ \E t \in Sessions : FileNotice(t)
           \/ \E h \in Hooks : HookNotice(h)
           \/ UNCHANGED vars
  <2>1. UNCHANGED <<journal, row, accepted, inputRuns, crashes>>
    BY <1>6 DEF Environment, AppendRecord, DeliverHook, Batch, Take, BeginSources, SourcesFail,
                BeginStored, EndSources, EndRaw, EndCanonical, StageFails, Sources, ReadRecord,
                FinishRead, ReadFails, Reaction, React, Materialize, FileNotice, HookNotice, vars
  <2>2. UNCHANGED failures \/ failures' = failures + 1
    BY <1>6 DEF Environment, AppendRecord, DeliverHook, Batch, Take, BeginSources, SourcesFail,
                BeginStored, EndSources, EndRaw, EndCanonical, StageFails, Sources, ReadRecord,
                FinishRead, ReadFails, Reaction, React, Materialize, FileNotice, HookNotice,
                MayFail, vars
  <2>3. failures > 0 => failures' > 0
    BY <2>2
  <2> QED
    BY <1>2, <2>1, <2>3 DEF RowIsLostByFaults
<1> QED
  BY <1>3, <1>4, <1>5, <1>6 DEF Next, Worker, Interpretation

(* Where no process stops and no call fails, a session that the journal     *)
(* starts has its row as soon as its input reactions ran.  However many     *)
(* stop and fail, a session without a row is one that they lost.            *)
THEOREM SessionsAreLostByFaults == Spec => []StartedSessionsAreLostByFaults
<1>1. Init => ReactionInv
  BY DEF Init, ReactionInv, InputReactionsRunOnce, Range
<1>2. Init => StartedSessionsAreLostByFaults
  BY DEF Init, StartedSessionsAreLostByFaults, Range
<1> QED
  BY <1>1, <1>2, ReactionStep, LostStep, TypeInvariant, VerdictInvariant, PTL DEF Spec

----
(* The abstract journal. *)

Decided == Len(raw) - Cardinality(pendingRaw)

(* The backlog is what the rows after the last verdict hold, so that the   *)
(* oldest pending raw event is the row that FactJournal decides next.      *)
BacklogIsSuffix ==
    /\ \A i, j \in DOMAIN raw : raw[i] = raw[j] => i = j
    /\ IsFiniteSet(pendingRaw)
    /\ Decided \in 0..Len(raw)
    /\ pendingRaw = {raw[k] : k \in (Decided + 1)..Len(raw)}

LEMMA StoreExtends ==
    ASSUME TypeInv, BacklogIsSuffix, NEW r, r \notin Range(raw), StoreRaw(r)
    PROVE  BacklogIsSuffix' /\ Decided' = Decided
<1> DEFINE n == Len(raw)
<1> USE DEF TypeInv, TypeOK
<1>1. /\ n \in Nat /\ DOMAIN raw = 1..n /\ Len(raw') = n + 1 /\ DOMAIN raw' = 1..(n + 1)
      /\ raw'[n + 1] = r /\ \A i \in 1..n : raw'[i] = raw[i]
  BY DEF StoreRaw
<1>2. \A i \in 1..n : raw[i] # r
  BY <1>1 DEF Range
<1>3. IsFiniteSet(pendingRaw) /\ r \notin pendingRaw
  <2>1. \A k \in (Decided + 1)..n : raw[k] # r
    BY <1>1, <1>2 DEF BacklogIsSuffix
  <2> QED
    BY <2>1 DEF BacklogIsSuffix
<1>4. /\ IsFiniteSet(pendingRaw') /\ Cardinality(pendingRaw') = Cardinality(pendingRaw) + 1
      /\ Cardinality(pendingRaw) \in Nat
  BY <1>3, FS_AddElement, FS_CardinalityType DEF StoreRaw
<1>5. Decided' = Decided
  BY <1>1, <1>4 DEF Decided
<1>6. \A i, j \in DOMAIN raw' : raw'[i] = raw'[j] => i = j
  <2> TAKE i, j \in DOMAIN raw'
  <2>1. CASE i \in 1..n /\ j \in 1..n
    BY <1>1, <2>1 DEF BacklogIsSuffix
  <2>2. CASE i = n + 1 /\ j \in 1..n
    BY <1>1, <1>2, <2>2, Zenon
  <2>3. CASE i \in 1..n /\ j = n + 1
    BY <1>1, <1>2, <2>3, Zenon
  <2>4. CASE i = n + 1 /\ j = n + 1
    BY <2>4
  <2>5. (i \in 1..n \/ i = n + 1) /\ (j \in 1..n \/ j = n + 1)
    BY <1>1
  <2> QED
    BY <2>1, <2>2, <2>3, <2>4, <2>5
<1>7. pendingRaw' = {raw'[k] : k \in (Decided + 1)..(n + 1)}
  <2>1. Decided \in 0..n /\ pendingRaw = {raw[k] : k \in (Decided + 1)..n}
    BY DEF BacklogIsSuffix
  <2>2. (Decided + 1)..(n + 1) = ((Decided + 1)..n) \union {n + 1}
    BY <1>1, <2>1
  <2>3. \A k \in (Decided + 1)..n : raw'[k] = raw[k]
    BY <1>1, <2>1
  <2>4. pendingRaw' = pendingRaw \union {raw'[n + 1]}
    BY <1>1 DEF StoreRaw
  <2>5. {raw'[k] : k \in (Decided + 1)..(n + 1)}
           = {raw'[k] : k \in (Decided + 1)..n} \union {raw'[n + 1]}
    BY <2>2, Zenon
  <2>6. {raw'[k] : k \in (Decided + 1)..n} = {raw[k] : k \in (Decided + 1)..n}
    BY <2>3, Zenon
  <2> QED
    BY <2>1, <2>4, <2>5, <2>6, Zenon
<1> QED
  BY <1>1, <1>4, <1>5, <1>6, <1>7 DEF BacklogIsSuffix

LEMMA OldestIsNext ==
    ASSUME TypeInv, BacklogIsSuffix, NEW r \in Raw, IsOldestPending(r)
    PROVE  Decided < Len(raw) /\ raw[Decided + 1] = r
<1> USE DEF TypeInv, TypeOK
<1>1. PICK k \in DOMAIN raw : /\ raw[k] = r /\ r \in pendingRaw
                              /\ \A j \in 1..(k - 1) : raw[j] \notin pendingRaw
  BY DEF IsOldestPending
<1>2. DOMAIN raw = 1..Len(raw) /\ Len(raw) \in Nat /\ Decided \in 0..Len(raw)
  BY DEF BacklogIsSuffix
<1>3. PICK l \in (Decided + 1)..Len(raw) : raw[l] = r
  BY <1>1 DEF BacklogIsSuffix
<1>4. l = k
  <2>1. l \in DOMAIN raw /\ raw[l] = raw[k]
    BY <1>1, <1>2, <1>3
  <2> QED
    BY <2>1 DEF BacklogIsSuffix
<1>5. Decided + 1 \in (Decided + 1)..Len(raw)
  BY <1>2, <1>3
<1>6. raw[Decided + 1] \in pendingRaw
  BY <1>5 DEF BacklogIsSuffix
<1>7. Decided + 1 = k
  BY <1>1, <1>2, <1>3, <1>4, <1>6
<1> QED
  BY <1>1, <1>2, <1>7

LEMMA TranslateDecides ==
    ASSUME TypeInv, BacklogIsSuffix, NEW r \in Raw, Translate(r)
    PROVE  BacklogIsSuffix' /\ Decided' = Decided + 1
<1> DEFINE n == Len(raw)
<1> USE DEF TypeInv, TypeOK
<1>1. raw' = raw /\ pendingRaw' = pendingRaw \ {r} /\ IsOldestPending(r) /\ r \in pendingRaw
  BY DEF Translate, IsOldestPending
<1>2. Decided < n /\ raw[Decided + 1] = r
  BY <1>1, OldestIsNext
<1>3. /\ IsFiniteSet(pendingRaw') /\ Cardinality(pendingRaw') = Cardinality(pendingRaw) - 1
      /\ Cardinality(pendingRaw) \in Nat
  <2>1. IsFiniteSet(pendingRaw)
    BY DEF BacklogIsSuffix
  <2>2. IsFiniteSet(pendingRaw \ {r}) /\ Cardinality(pendingRaw \ {r}) = Cardinality(pendingRaw) - 1
    BY <1>1, <2>1, FS_RemoveElement
  <2>3. Cardinality(pendingRaw) \in Nat
    BY <2>1, FS_CardinalityType
  <2> QED
    BY <1>1, <2>2, <2>3
<1>4. n \in Nat /\ DOMAIN raw = 1..n /\ Decided \in 0..n
  BY DEF BacklogIsSuffix
<1>5. Decided' = Decided + 1
  BY <1>1, <1>3, <1>4 DEF Decided
<1>6. pendingRaw' = {raw[k] : k \in (Decided + 2)..n}
  <2>1. \A k \in (Decided + 2)..n : raw[k] # r
    <3> TAKE k \in (Decided + 2)..n
    <3>1. k \in DOMAIN raw /\ Decided + 1 \in DOMAIN raw /\ k # Decided + 1
      BY <1>2, <1>4
    <3> QED
      BY <1>2, <3>1 DEF BacklogIsSuffix
  <2>2. (Decided + 1)..n = {Decided + 1} \union ((Decided + 2)..n)
    BY <1>2, <1>4
  <2>3. pendingRaw = {raw[k] : k \in (Decided + 1)..n}
    BY DEF BacklogIsSuffix
  <2> QED
    BY <1>1, <1>2, <2>1, <2>2, <2>3
<1>7. Decided' + 1 = Decided + 2 /\ Decided' \in 0..n
  BY <1>2, <1>4, <1>5
<1> QED
  BY <1>1, <1>3, <1>5, <1>6, <1>7 DEF BacklogIsSuffix

LEMMA ReadStoresNewRecord ==
    ASSUME TypeInv, NEW s \in Sessions, ReadRecord(s)
    PROVE  <<s, Position(s) + 1>> \notin Range(raw)
<1>1. Position(s) \in 0..Len(Script[s]) /\ Len(Script[s]) \in Nat
  BY PositionIsLast, ScriptLength
<1>2. Position(s) + 1 \in DOMAIN Script[s]
  <2>1. Position(s) < written[s] /\ written[s] \in Nat /\ written[s] <= Len(Script[s])
    BY DEF ReadRecord, TypeInv, TypeOK, WithinScript
  <2> QED
    BY <1>1, <2>1, ScriptLength
<1>3. <<s, Position(s) + 1>> \in Range(raw) => Position(s) + 1 <= Position(s)
  BY <1>2, PositionIsLast
<1> QED
  BY <1>1, <1>3

(* Every step of the engine is a step of the journal or leaves it alone.   *)
LEMMA JournalStep ==
    TypeInv /\ BacklogIsSuffix /\ [Next]_vars
    => BacklogIsSuffix' /\ [Promise!Next]_(Promise!vars)
<1> SUFFICES ASSUME TypeInv, BacklogIsSuffix, [Next]_vars
             PROVE  BacklogIsSuffix' /\ (Promise!Next \/ UNCHANGED Promise!vars)
  OBVIOUS
<1> USE DEF rawTables, factTables, viewTables
<1>1. ASSUME NEW r \in Raw, StoreRaw(r), r \notin Range(raw), UNCHANGED <<journal, progress>>
      PROVE  BacklogIsSuffix' /\ Promise!Next
  <2>1. BacklogIsSuffix' /\ Decided' = Decided
    BY <1>1, StoreExtends
  <2>2. Promise!Record(r)
    BY <1>1, <2>1 DEF Promise!Record, Promise!Range, Range, StoreRaw, Decided
  <2>3. r \in Promise!Raw
    BY DEF Raw, Promise!Raw, RecordsOf, Promise!RecordsOf
  <2> QED
    BY <2>1, <2>2, <2>3 DEF Promise!Next
<1>2. ASSUME NEW h \in Hooks, DeliverHook(h)
      PROVE  BacklogIsSuffix' /\ Promise!Next
  <2>1. h \in Raw
    BY DEF Raw
  <2> QED
    BY <1>1, <1>2, <2>1 DEF DeliverHook
<1>3. ASSUME NEW s \in Sessions, ReadRecord(s)
      PROVE  BacklogIsSuffix' /\ Promise!Next
  <2>1. <<s, Position(s) + 1>> \in Raw
    BY <1>3, NextRecordIsRaw DEF ReadRecord
  <2> QED
    BY <1>1, <1>3, <2>1, ReadStoresNewRecord DEF ReadRecord
<1>4. ASSUME NEW r \in Raw, Translate(r)
      PROVE  BacklogIsSuffix' /\ Promise!Next
  <2>1. BacklogIsSuffix' /\ Decided' = Decided + 1
    BY <1>4, TranslateDecides
  <2>2. Decided < Len(raw) /\ raw[Decided + 1] = r
    BY <1>4, OldestIsNext DEF Translate
  <2>3. PICK new \in Translations : IsFresh(new, FactsOf(r), journal) /\ journal' = journal \o new
    BY <1>4 DEF Translate
  <2>4. new \in Promise!Translations
    BY DEF Translations, Promise!Translations
  <2>5. Promise!IsFresh(new, Promise!FactsOf(raw[Decided + 1]), journal)
    <3>1. Promise!FactsOf(r) = FactsOf(r)
      BY DEF FactsOf, Promise!FactsOf
    <3>2. \A f : Promise!Range(f) = Range(f)
      BY DEF Range, Promise!Range
    <3>3. Promise!IsFresh(new, FactsOf(r), journal)
      BY <2>3, <3>2, Zenon DEF IsFresh, Promise!IsFresh
    <3> QED
      BY <2>2, <3>1, <3>3, Zenon
  <2>6. UNCHANGED <<raw, progress>>
    BY <1>4 DEF Translate
  <2>7. Promise!Decide
    BY <2>1, <2>2, <2>3, <2>4, <2>5, <2>6, Zenon DEF Promise!Decide, Decided
  <2> QED
    BY <2>1, <2>7 DEF Promise!Next
<1>5. CASE Materialize
  <2>1. UNCHANGED <<raw, pendingRaw, journal>> /\ progress < Len(journal) /\ progress' = progress + 1
    BY <1>5 DEF Materialize, TypeInv, WorkerPlace
  <2>2. BacklogIsSuffix'
    BY <2>1 DEF BacklogIsSuffix, Decided
  <2>3. Promise!Fold
    BY <2>1 DEF Promise!Fold
  <2> QED
    BY <2>2, <2>3 DEF Promise!Next
<1>6. CASE \/ Batch \/ InputReact \/ InputReactionFails \/ React \/ Restart
           \/ \E s \in Sessions : AppendRecord(s) \/ FinishRead(s) \/ ReadFails(s) \/ FileNotice(s)
           \/ \E h \in Hooks : HookNotice(h)
           \/ UNCHANGED vars
  <2>1. UNCHANGED <<raw, pendingRaw, journal, progress>>
    BY <1>6 DEF AppendRecord, Batch, Take, BeginSources, SourcesFail, BeginStored, EndSources,
                EndRaw, EndCanonical, StageFails, FinishRead, ReadFails, InputReact,
                InputReactionFails, React, Restart, FileNotice, HookNotice, vars
  <2>2. BacklogIsSuffix'
    BY <2>1 DEF BacklogIsSuffix, Decided
  <2> QED
    BY <2>1, <2>2 DEF Promise!vars
<1> QED
  BY <1>2, <1>3, <1>4, <1>5, <1>6
     DEF Next, Environment, Worker, Sources, Interpretation, Reaction

LEMMA JournalInit == Init => BacklogIsSuffix /\ Promise!Init
<1> SUFFICES ASSUME Init PROVE BacklogIsSuffix /\ Promise!Init
  OBVIOUS
<1>1. raw = <<>> /\ pendingRaw = {} /\ journal = <<>> /\ progress = 0
  BY DEF Init
<1>2. Cardinality(pendingRaw) = 0 /\ IsFiniteSet(pendingRaw)
  BY <1>1, FS_EmptySet
<1> QED
  BY <1>1, <1>2 DEF BacklogIsSuffix, Decided, Promise!Init

(* The safety part of ImplementsFactJournal: raw events are decided once   *)
(* and in row order, each adds exactly its new facts to the journal, and   *)
(* the fold follows one fact at a time.  That the backlog drains is left   *)
(* to the model checker.                                                   *)
THEOREM StepsFollowFactJournal == Spec => Promise!Init /\ [][Promise!Next]_(Promise!vars)
  BY JournalInit, JournalStep, TypeInvariant, PTL DEF Spec

----
(* No work waits without somebody who will start it.  NoSilentBacklog alone *)
(* is not inductive: a stage that fails leaves its successors to the rest   *)
(* of the batch, and a session whose file is not watched yet relies on a    *)
(* notice.                                                                  *)

(* A batch that still has to run a stage runs the stages after it too.     *)
BatchIsClosed == /\ SOURCES \in todo => RAW \in todo
                 /\ RAW \in todo => CANONICAL \in todo

(* A running session is watched, or a pull that will watch it is coming.   *)
WatchedOrQueued == \A s \in Watchable : s \in watched \/ Queued(SOURCES)

BacklogInv == NoSilentBacklog /\ BatchIsClosed /\ WatchedOrQueued

Waiting == ready \union armed \union todo

LEMMA StagesOfKind ==
    /\ SOURCES \in Kinds /\ RAW \in Kinds /\ CANONICAL \in Kinds
    /\ \A waiting \in Kinds :
          /\ SOURCES \in ready_stages({waiting}) <=> waiting = SOURCES
          /\ RAW \in ready_stages({waiting}) <=> waiting \in {SOURCES, RAW}
          /\ CANONICAL \in ready_stages({waiting})
  BY KindsAssumption DEF ready_stages, Kinds

LEMMA QueuedNow ==
    ASSUME TypeOK
    PROVE  /\ Queued(SOURCES) <=> SOURCES \in Waiting
           /\ Queued(RAW) <=> SOURCES \in Waiting \/ RAW \in Waiting
           /\ Queued(CANONICAL) <=> Waiting # {}
<1>1. Waiting \subseteq Kinds
  BY DEF TypeOK, Waiting
<1> QED
  BY <1>1, StagesOfKind DEF Queued, Waiting

LEMMA QueuedNext ==
    ASSUME TypeOK'
    PROVE  /\ Queued(SOURCES)' <=> SOURCES \in Waiting'
           /\ Queued(RAW)' <=> SOURCES \in Waiting' \/ RAW \in Waiting'
           /\ Queued(CANONICAL)' <=> Waiting' # {}
<1>1. Waiting' \subseteq Kinds
  BY DEF TypeOK, Waiting
<1> QED
  BY <1>1, StagesOfKind DEF Queued, Waiting

(* The position of a source depends on its own records only.               *)
LEMMA OtherPosition ==
    ASSUME NEW s \in Sessions,
           \A i \in DOMAIN Script[s] : <<s, i>> \in Range(raw') <=> <<s, i>> \in Range(raw)
    PROVE  Position(s)' = Position(s)
<1>1. {i \in DOMAIN Script[s] : <<s, i>> \in Range(raw')}
        = {i \in DOMAIN Script[s] : <<s, i>> \in Range(raw)}
  OBVIOUS
<1> QED
  BY <1>1 DEF Position

LEMMA BatchStep == TypeInv /\ BatchIsClosed /\ [Next]_vars => BatchIsClosed'
<1> SUFFICES ASSUME TypeInv, BatchIsClosed, [Next]_vars
             PROVE  BatchIsClosed'
  OBVIOUS
<1> USE DEF BatchIsClosed
<1>1. ASSUME NEW fired \in SUBSET armed, Take(fired)
      PROVE  BatchIsClosed'
  BY <1>1, KindsAssumption DEF Take, ready_stages
<1>2. CASE BeginSources \/ SourcesFail
  BY <1>2, KindsAssumption DEF BeginSources, SourcesFail
<1>3. ASSUME NEW kind \in Kinds, BeginStored(kind)
      PROVE  BatchIsClosed'
  BY <1>3, KindsAssumption DEF BeginStored, IsNext, Kinds
<1>4. CASE Restart
  BY <1>4 DEF Restart
<1>5. CASE \/ EndSources \/ EndRaw \/ EndCanonical \/ StageFails
           \/ Environment \/ Sources \/ Interpretation \/ Reaction
           \/ \E s \in Sessions : FileNotice(s)
           \/ \E h \in Hooks : HookNotice(h)
           \/ UNCHANGED vars
  <2>1. todo' = todo
    BY <1>5 DEF EndSources, EndRaw, EndCanonical, StageFails, Environment, AppendRecord,
                DeliverHook, Sources, ReadRecord, FinishRead, ReadFails, Interpretation,
                Translate, InputReact, InputReactionFails, Reaction, React, Materialize,
                FileNotice, HookNotice, vars, worker
  <2> QED
    BY <2>1
<1> QED
  BY <1>1, <1>2, <1>3, <1>4, <1>5 DEF Next, Worker, Batch

LEMMA RawStep ==
    TypeInv /\ BatchIsClosed /\ RawWillBeTranslated /\ [Next]_vars => RawWillBeTranslated'
<1> SUFFICES ASSUME TypeInv, BatchIsClosed, RawWillBeTranslated, [Next]_vars, pendingRaw' # {}
             PROVE  SOURCES \in Waiting' \/ RAW \in Waiting' \/ stage' = RAW \/ committed' # {}
  <2>1. ASSUME TypeInv, [Next]_vars PROVE TypeOK'
    BY <2>1, TypeStep
  <2> QED
    BY <2>1, QueuedNext DEF RawWillBeTranslated
<1> DEFINE Goal == SOURCES \in Waiting' \/ RAW \in Waiting' \/ stage' = RAW \/ committed' # {}
<1> USE DEF Waiting, queue, threads, worker, rawTables
<1>1. pendingRaw # {} => SOURCES \in Waiting \/ RAW \in Waiting \/ stage = RAW \/ committed # {}
  BY QueuedNow DEF TypeInv, RawWillBeTranslated
<1>2. ASSUME pendingRaw' = pendingRaw, Waiting \subseteq Waiting', stage' = stage,
             committed' = committed
      PROVE  Goal
  <2> HIDE DEF Waiting
  <2> QED
    BY <1>1, <1>2
<1>3. CASE \/ \E s \in Sessions : AppendRecord(s) \/ FinishRead(s) \/ ReadFails(s) \/ FileNotice(s)
           \/ InputReact \/ InputReactionFails \/ Reaction \/ UNCHANGED vars
  BY <1>2, <1>3 DEF AppendRecord, FinishRead, ReadFails, FileNotice, InputReact, Insert,
                    Relocate, InputReactionFails, Reaction, React, Materialize, vars
<1>4. CASE \/ \E h \in Hooks : DeliverHook(h) \/ HookNotice(h)
           \/ \E s \in Sessions : ReadRecord(s)
           \/ \E r \in Raw : Translate(r)
           \/ Restart
  BY <1>4, StagesOfKind DEF DeliverHook, HookNotice, ReadRecord, Translate, Restart
<1>5. ASSUME NEW fired \in SUBSET armed, Take(fired)
      PROVE  Goal
  BY <1>1, <1>5 DEF Take, Idle, ready_stages
<1>6. CASE BeginSources \/ SourcesFail
  BY <1>6, KindsAssumption DEF BeginSources, SourcesFail, IsNext, BatchIsClosed
<1>7. ASSUME NEW kind \in Kinds, BeginStored(kind)
      PROVE  Goal
  BY <1>1, <1>7, KindsAssumption DEF BeginStored, IsNext, Kinds
<1>8. CASE EndSources \/ EndRaw \/ EndCanonical
  BY <1>1, <1>8, KindsAssumption DEF EndSources, EndRaw, EndCanonical, EndStage
<1>9. CASE StageFails
  BY <1>1, <1>9, KindsAssumption DEF StageFails, EndStage
<1> QED
  BY <1>3, <1>4, <1>5, <1>6, <1>7, <1>8, <1>9
     DEF Next, Environment, Worker, Batch, Sources, Interpretation

LEMMA FactsStep ==
    TypeInv /\ BatchIsClosed /\ FactsWillBeFolded /\ [Next]_vars => FactsWillBeFolded'
<1> SUFFICES ASSUME TypeInv, BatchIsClosed, FactsWillBeFolded, [Next]_vars,
                    progress' < Len(journal')
             PROVE  Waiting' # {} \/ stage' = CANONICAL
  <2>1. ASSUME TypeInv, [Next]_vars PROVE TypeOK'
    BY <2>1, TypeStep
  <2> QED
    BY <2>1, QueuedNext DEF FactsWillBeFolded
<1> DEFINE Goal == Waiting' # {} \/ stage' = CANONICAL
<1> USE DEF Waiting, queue, threads, worker, factTables, viewTables
<1>1. progress < Len(journal) => Waiting # {} \/ stage = CANONICAL
  BY QueuedNow DEF TypeInv, FactsWillBeFolded
<1>2. ASSUME journal' = journal, progress' = progress, Waiting \subseteq Waiting', stage' = stage
      PROVE  Goal
  <2> HIDE DEF Waiting
  <2> QED
    BY <1>1, <1>2
<1>3. CASE \/ \E s \in Sessions : \/ AppendRecord(s) \/ ReadRecord(s) \/ FinishRead(s)
                                  \/ ReadFails(s) \/ FileNotice(s)
           \/ \E h \in Hooks : DeliverHook(h) \/ HookNotice(h)
           \/ InputReact \/ InputReactionFails \/ UNCHANGED vars
  BY <1>2, <1>3 DEF AppendRecord, ReadRecord, FinishRead, ReadFails, FileNotice, DeliverHook,
                    HookNotice, InputReact, Insert, Relocate, InputReactionFails, vars
<1>4. CASE Reaction \/ Restart
  BY <1>4, StagesOfKind DEF Reaction, React, Materialize, Restart
<1>5. ASSUME NEW fired \in SUBSET armed, Take(fired)
      PROVE  Goal
  BY <1>5 DEF Take, ready_stages
<1>6. CASE BeginSources \/ SourcesFail
  BY <1>6, KindsAssumption DEF BeginSources, SourcesFail, IsNext, BatchIsClosed
<1>7. ASSUME NEW kind \in Kinds, BeginStored(kind)
      PROVE  Goal
  BY <1>7, KindsAssumption DEF BeginStored, IsNext, BatchIsClosed, Kinds
<1>8. CASE EndSources \/ EndRaw \/ EndCanonical
  BY <1>1, <1>8, KindsAssumption DEF EndSources, EndRaw, EndCanonical, EndStage
<1>9. CASE StageFails
  BY <1>9 DEF StageFails
<1>10. ASSUME NEW r \in Raw, Translate(r)
       PROVE  Goal
  <2>1. PICK new \in Translations :
           IsFresh(new, FactsOf(r), journal) /\ journal' = journal \o new
    BY <1>10 DEF Translate
  <2>2. CASE FactsOf(r) # <<>>
    BY <1>10, <2>2 DEF Translate
  <2>3. CASE FactsOf(r) = <<>>
    <3>1. new = <<>>
      BY <2>1, <2>3, FactsOfIsTranslation, FreshExtends DEF TypeInv, TypeOK
    <3>2. journal' = journal
      BY <2>1, <3>1, ConcatEmptySeq DEF TypeInv, TypeOK
    <3> QED
      BY <1>1, <1>10, <3>2 DEF Translate
  <2> QED
    BY <2>2, <2>3
<1> QED
  BY <1>3, <1>4, <1>5, <1>6, <1>7, <1>8, <1>9, <1>10
     DEF Next, Environment, Worker, Batch, Sources, Interpretation

(* A session starts to run only with a notice for the source stage.        *)
LEMMA WatchableStep ==
    TypeInv /\ [Next]_vars => \A s \in Watchable' : s \in Watchable \/ SOURCES \in ready'
<1> SUFFICES ASSUME TypeInv, [Next]_vars, NEW s \in Watchable', s \notin Watchable
             PROVE  SOURCES \in ready'
  OBVIOUS
<1> USE DEF TypeInv, TypeOK, Watchable, factTables
<1>1. ASSUME NEW r \in Raw, Translate(r)
      PROVE  SOURCES \in ready'
  <2>1. PICK new \in Translations :
           /\ IsFresh(new, FactsOf(r), journal)
           /\ row' = [t \in Sessions |->
                         IF row[t] = "absent" THEN "absent" ELSE LifecycleAfter(new, t, row[t])]
    BY <1>1 DEF Translate
  <2>2. row'[s] = IF row[s] = "absent" THEN "absent" ELSE LifecycleAfter(new, s, row[s])
    BY <2>1
  <2>3. LifecycleRows(new, s) # {}
    BY <2>2 DEF LifecycleAfter
  <2>4. PICK i \in DOMAIN new : new[i] \in Started \union Finished
    BY <2>3 DEF LifecycleRows
  <2>5. new[i] \in Range(FactsOf(r))
    <3>1. new[i] \in Range(new)
      BY DEF Range
    <3> QED
      BY <2>1, <3>1 DEF IsFresh
  <2>6. MovesLifecycle(FactsOf(r))
    BY <2>4, <2>5 DEF MovesLifecycle
  <2> QED
    BY <1>1, <2>6 DEF Translate
<1>2. CASE InputReact
  BY <1>2 DEF InputReact, Insert, Relocate
<1>3. CASE Restart
  BY <1>3 DEF Restart
<1>4. CASE \/ Environment \/ Batch \/ Sources \/ InputReactionFails \/ Reaction
           \/ \E t \in Sessions : FileNotice(t)
           \/ \E h \in Hooks : HookNotice(h)
           \/ UNCHANGED vars
  <2>1. row' = row
    BY <1>4 DEF Environment, AppendRecord, DeliverHook, Batch, Take, BeginSources, SourcesFail,
                BeginStored, EndSources, EndRaw, EndCanonical, StageFails, Sources, ReadRecord,
                FinishRead, ReadFails, InputReactionFails, Reaction, React, Materialize,
                FileNotice, HookNotice, vars
  <2> QED
    BY <2>1
<1> QED
  BY <1>1, <1>2, <1>3, <1>4 DEF Next, Worker, Interpretation

LEMMA ReadStep ==
    /\ TypeInv /\ RecordsWillBeRead /\ WatchedOrQueued /\ [Next]_vars
    => RecordsWillBeRead' /\ WatchedOrQueued'
<1> SUFFICES ASSUME TypeInv, RecordsWillBeRead, WatchedOrQueued, [Next]_vars,
                    NEW s \in Watchable', SOURCES \notin Waiting'
             PROVE  /\ s \in watched'
                    /\ Position(s)' < written'[s] =>
                          s \in changed' \/ (stage' = SOURCES /\ s \in reading')
  <2>1. ASSUME TypeInv, [Next]_vars PROVE TypeOK'
    BY <2>1, TypeStep
  <2> QED
    BY <2>1, QueuedNext DEF RecordsWillBeRead, WatchedOrQueued
<1> DEFINE Unread == Position(s) < written[s]
           Coming == s \in changed \/ (stage = SOURCES /\ s \in reading)
           Goal == s \in watched' /\ (Unread' => Coming')
<1> USE DEF Waiting, outside, rawTables, queue, threads, worker
<1>s. s \in Sessions
  BY DEF Watchable
<1>0. s \in Watchable
  BY WatchableStep
<1>1. SOURCES \in Waiting \/ (s \in watched /\ (Unread => Coming))
  BY <1>0, QueuedNow DEF TypeInv, RecordsWillBeRead, WatchedOrQueued
<1>2. ASSUME raw' = raw PROVE Position(s)' = Position(s)
  BY <1>2, <1>s, OtherPosition
<1>3. ASSUME NEW r, StoreRaw(r), \A i \in DOMAIN Script[s] : <<s, i>> # r
      PROVE  Position(s)' = Position(s)
  <2>1. Range(raw') = Range(raw) \union {r}
    BY <1>3, RangeOfAppend DEF StoreRaw, TypeInv, TypeOK
  <2> QED
    BY <1>3, <1>s, <2>1, OtherPosition
<1>4. ASSUME NEW t \in Sessions, AppendRecord(t)
      PROVE  Goal
  <2>1. CASE t = s
    BY <1>1, <1>4, <2>1 DEF AppendRecord
  <2>2. CASE t # s
    <3>1. written'[s] = written[s] /\ Position(s)' = Position(s)
      BY <1>2, <1>4, <1>s, <2>2 DEF AppendRecord, TypeInv, TypeOK
    <3> QED
      BY <1>1, <1>4, <3>1 DEF AppendRecord
  <2> QED
    BY <2>1, <2>2
<1>5. ASSUME NEW h \in Hooks, DeliverHook(h)
      PROVE  Goal
  <2>1. \A i \in DOMAIN Script[s] : <<s, i>> # h
    BY <1>s, ScriptLength, RecordIsNoHook
  <2>2. Position(s)' = Position(s)
    BY <1>3, <1>5, <2>1 DEF DeliverHook
  <2> QED
    BY <1>1, <1>5, <2>2 DEF DeliverHook
<1>6. ASSUME NEW t \in Sessions, ReadRecord(t)
      PROVE  Goal
  <2>1. CASE t = s
    BY <1>1, <1>6, <2>1 DEF ReadRecord
  <2>2. CASE t # s
    <3>1. Position(s)' = Position(s)
      BY <1>3, <1>6, <2>2 DEF ReadRecord
    <3> QED
      BY <1>1, <1>6, <3>1 DEF ReadRecord
  <2> QED
    BY <2>1, <2>2
<1>7. ASSUME NEW t \in Sessions, FinishRead(t)
      PROVE  Goal
  <2>1. Position(s)' = Position(s)
    BY <1>2, <1>7 DEF FinishRead
  <2>2. CASE t = s
    <3>1. written'[s] = written[s] /\ written[s] \in Nat /\ Position(s) = written[s]
      BY <1>7, <1>s, <2>2 DEF FinishRead, TypeInv, TypeOK
    <3>2. ~Unread'
      BY <2>1, <3>1
    <3> QED
      BY <1>1, <1>7, <3>2 DEF FinishRead
  <2>3. CASE t # s
    BY <1>1, <1>7, <2>1, <2>3 DEF FinishRead
  <2> QED
    BY <2>2, <2>3
<1>8. CASE BeginSources
  BY <1>0, <1>8 DEF BeginSources, WatchNotice
<1>9. CASE \/ \E t \in Sessions : ReadFails(t) \/ FileNotice(t)
           \/ \E fired \in SUBSET armed : Take(fired)
           \/ SourcesFail \/ Restart
  <2>1. CASE \E t \in Sessions : ReadFails(t) \/ FileNotice(t)
    BY <2>1 DEF ReadFails, FileNotice
  <2>2. CASE SourcesFail \/ Restart
    BY <2>2, StagesOfKind DEF SourcesFail, Restart
  <2>3. ASSUME NEW fired \in SUBSET armed, Take(fired) PROVE Goal
    <3>1. Position(s)' = Position(s)
      BY <1>2, <2>3 DEF Take
    <3> QED
      BY <1>1, <2>3, <3>1 DEF Take, ready_stages, Idle
  <2> QED
    BY <1>9, <2>1, <2>2, <2>3
<1>10. CASE \/ \E kind \in Kinds : BeginStored(kind)
            \/ EndSources \/ EndRaw \/ EndCanonical \/ StageFails
  <2>1. Position(s)' = Position(s)
    BY <1>2, <1>10 DEF BeginStored, EndSources, EndRaw, EndCanonical, StageFails
  <2>2. CASE \E kind \in Kinds : BeginStored(kind)
    BY <1>1, <2>1, <2>2, KindsAssumption DEF BeginStored, IsNext, Kinds
  <2>3. CASE EndSources \/ EndRaw \/ EndCanonical
    BY <1>1, <2>1, <2>3, KindsAssumption DEF EndSources, EndRaw, EndCanonical
  <2>4. CASE StageFails
    BY <1>1, <2>1, <2>4, KindsAssumption DEF StageFails
  <2> QED
    BY <1>10, <2>2, <2>3, <2>4
<1>11. CASE \/ Interpretation \/ Reaction
            \/ \E h \in Hooks : HookNotice(h)
            \/ UNCHANGED vars
  <2>1. /\ UNCHANGED <<raw, written, armed, todo, changed, watched, stage, reading>>
        /\ ready \subseteq ready'
    BY <1>11 DEF Interpretation, Translate, InputReact, Insert, Relocate, InputReactionFails,
                 Reaction, React, Materialize, HookNotice, vars
  <2> QED
    BY <1>1, <1>2, <2>1
<1> QED
  BY <1>4, <1>5, <1>6, <1>7, <1>8, <1>9, <1>10, <1>11
     DEF Next, Environment, Worker, Batch, Sources

LEMMA BacklogInit == Init => BacklogInv
<1> SUFFICES ASSUME Init PROVE BacklogInv
  OBVIOUS
<1>1. Watchable = {}
  BY DEF Init, Watchable
<1> QED
  BY <1>1 DEF Init, BacklogInv, NoSilentBacklog, RawWillBeTranslated, FactsWillBeFolded,
              RecordsWillBeRead, BatchIsClosed, WatchedOrQueued

(* No raw event, fact or record of a running session waits without a       *)
(* notice, a retry, a thread or a stage of the batch that will find it.    *)
THEOREM NothingWaitsUnseen == Spec => []NoSilentBacklog
<1>1. TypeInv /\ BacklogInv /\ [Next]_vars => BacklogInv'
  BY BatchStep, RawStep, FactsStep, ReadStep DEF BacklogInv, NoSilentBacklog
<1>2. BacklogInv => NoSilentBacklog
  BY DEF BacklogInv
<1> QED
  BY <1>1, <1>2, BacklogInit, TypeInvariant, PTL DEF Spec
====
