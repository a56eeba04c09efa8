---- MODULE FactJournal ----
(***************************************************************************)
(* What the engine promises to everything that reads its database, without *)
(* notices, watches, worker stages, failures or restarts: every recorded   *)
(* raw event is translated once and in the order of its row, its new facts *)
(* join one journal, and the read model takes every fact of the journal    *)
(* once and in order.  Nothing that was recorded is left behind.           *)
(***************************************************************************)
EXTENDS Facts

VARIABLES recorded,     \* raw events by row
          decided,      \* how many of them have a verdict
          facts,        \* the accepted facts by cursor
          folded        \* how many facts the read model holds

vars == <<recorded, decided, facts, folded>>

Init == /\ recorded = <<>>
        /\ decided = 0
        /\ facts = <<>>
        /\ folded = 0

Record(r) == /\ r \notin Range(recorded)
             /\ recorded' = Append(recorded, r)
             /\ UNCHANGED <<decided, facts, folded>>

Decide == /\ decided < Len(recorded)
          /\ \E new \in Translations :
                /\ IsFresh(new, FactsOf(recorded[decided + 1]), facts)
                /\ facts' = facts \o new
          /\ decided' = decided + 1
          /\ UNCHANGED <<recorded, folded>>

Fold == /\ folded < Len(facts)
        /\ folded' = folded + 1
        /\ UNCHANGED <<recorded, decided, facts>>

Next == (\E r \in Raw : Record(r)) \/ Decide \/ Fold

Spec == Init /\ [][Next]_vars /\ WF_vars(Decide) /\ WF_vars(Fold)
====
