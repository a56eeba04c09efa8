---- MODULE MCEnginePipeline ----
(***************************************************************************)
(* One session that hooks start, finish and resume, in any order of        *)
(* arrival.  Its first transcript record repeats the start fact, so one of *)
(* the two observations is a duplicate.                                    *)
(***************************************************************************)
EXTENDS EnginePipeline

CONSTANTS s1, hStart, hEnd, hResume, begin, work1, work2, end, resume

MCSessions == {s1}
MCFacts == {begin, work1, work2, end, resume}
MCStarted == {begin, resume}
MCFinished == {end}
MCSessionOf == [f \in MCFacts |-> s1]
FactsOfHook == [h \in {hStart, hEnd, hResume} |->
                   CASE h = hStart -> <<begin>>
                     [] h = hEnd -> <<end>>
                     [] h = hResume -> <<resume>>]
NoFaults == {}
UnreadableEnd == {hEnd}
PoisonWork == {work1}

(* A transcript of two records, and a session that starts and ends. *)
TwoRecords == [s \in MCSessions |-> <<<<begin, work1>>, <<work2>>>>]
StartAndEnd == {hStart, hEnd}
StartAndEndFacts == [h \in StartAndEnd |-> FactsOfHook[h]]

(* A transcript of one record. *)
OneRecord == [s \in MCSessions |-> <<<<begin, work1>>>>]

(* A second record translates to nothing, and the session is resumed. *)
WithSilentRecord == [s \in MCSessions |-> <<<<begin, work1>>, <<>>>>]
WithResume == {hStart, hEnd, hResume}
WithResumeFacts == FactsOfHook

(* A transcript of one record, and a session that starts. *)
StartOnly == {hStart}
StartOnlyFacts == [h \in StartOnly |-> FactsOfHook[h]]
====
