---- MODULE Facts ----
(***************************************************************************)
(* Canonical facts as the interpreter sees them: what a recorded raw event *)
(* translates to, which facts move a session's lifecycle, and which of a   *)
(* translation's facts the journal does not hold yet.                      *)
(***************************************************************************)
EXTENDS Integers, Sequences, Functions, FiniteSets, FiniteSetsExt

CONSTANTS Sessions,
          Hooks,        \* raw events that harness hooks deliver over HTTP
          Script,       \* what each session's native source will contain:
                        \*   Script[s][i] is the facts of its i-th record
          HookFacts,    \* the facts of each hook delivery
          Facts,        \* identities of canonical facts
          SessionOf,    \* the session a fact belongs to
          Started,      \* facts with a SessionStarted payload
          Finished,     \* facts with a SessionFinished payload
          MaxFacts      \* the most facts one raw event translates to

(* The facts of one translation, in the translator's order. *)
Translations == UNION {[1..n -> Facts] : n \in 0..MaxFacts}

(* Identities of raw events: a hook delivery, or a record of a source. *)
RecordsOf(s) == {<<s, i>> : i \in DOMAIN Script[s]}

Raw == Hooks \union UNION {RecordsOf(s) : s \in Sessions}

FactsOf(r) == IF r \in Hooks THEN HookFacts[r] ELSE Script[r[1]][r[2]]

ASSUME MaxFactsAssumption == MaxFacts \in Nat
ASSUME HooksAssumption == Hooks \intersect (Sessions \X Nat) = {}
ASSUME ScriptAssumption == \A s \in Sessions : Script[s] \in Seq(Translations)
ASSUME HookFactsAssumption == HookFacts \in [Hooks -> Translations]
ASSUME SessionOfAssumption == SessionOf \in [Facts -> Sessions]
ASSUME LifecycleAssumption == /\ Started \subseteq Facts
                              /\ Finished \subseteq Facts
                              /\ Started \intersect Finished = {}

(* Defect: one known fact makes a translation a duplicate as a whole. *)
IsFreshOrNothing(new, facts, journal) ==
    /\ Range(new) = IF Range(facts) \intersect Range(journal) = {} THEN Range(facts) ELSE {}
    /\ \A i, j \in DOMAIN new : i < j =>
          /\ new[i] # new[j]
          /\ \E k, l \in DOMAIN facts : k < l /\ facts[k] = new[i] /\ facts[l] = new[j]

(* The facts that an append keeps: those whose identity the journal lacks, *)
(* each once, in the translator's order.                                   *)
IsFresh(new, facts, journal) ==
    /\ Range(new) = Range(facts) \ Range(journal)
    /\ \A i, j \in DOMAIN new : i < j =>
          /\ new[i] # new[j]
          /\ \E k, l \in DOMAIN facts : k < l /\ facts[k] = new[i] /\ facts[l] = new[j]

(* Where the lifecycle facts of a session are in a sequence of facts. *)
LifecycleRows(facts, s) ==
    {i \in DOMAIN facts : facts[i] \in Started \union Finished /\ SessionOf[facts[i]] = s}

(* Defect: the event type is stored where the lifecycle belongs. *)
EventTypeAfter(facts, s, otherwise) ==
    IF LifecycleRows(facts, s) = {} THEN otherwise
    ELSE IF facts[Max(LifecycleRows(facts, s))] \in Finished THEN "session.finished"
    ELSE "session.started"

(* The lifecycle of a session after these facts; otherwise if none moves it. *)
LifecycleAfter(facts, s, otherwise) ==
    IF LifecycleRows(facts, s) = {} THEN otherwise
    ELSE IF facts[Max(LifecycleRows(facts, s))] \in Finished THEN "finished"
    ELSE "running"
====
