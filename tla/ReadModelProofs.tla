---- MODULE ReadModelProofs ----
(***************************************************************************)
(* Proofs about the read model, for any journals, pages, transforms,       *)
(* failures, stops and rebuilds.  The rows are compared with a function    *)
(* that is defined by recursion over the journal; what it computes is      *)
(* proved by induction, in the form that a set of numbers which holds 0    *)
(* and is closed under successors holds them all.                          *)
(***************************************************************************)
EXTENDS ReadModel, WellFoundedInduction, TLAPS

LEMMA NumbersByInduction ==
    ASSUME NEW S \in SUBSET Nat, 0 \in S, \A n \in S : n + 1 \in S
    PROVE  S = Nat
<1> SUFFICES ASSUME Nat \ S # {} PROVE FALSE
  OBVIOUS
<1>1. PICK m \in Nat \ S : \A y \in Nat \ S : ~ (<<y, m>> \in OpToRel(<, Nat))
  BY NatLessThanWellFounded, WFMin
<1>2. m - 1 \in Nat /\ m - 1 < m
  OBVIOUS
<1>3. m - 1 \in S
  BY <1>1, <1>2 DEF OpToRel
<1> QED
  BY <1>3, <1>2

----
(* The fold of the first n facts of a journal, with what transforms did.    *)

NoRows == [s \in Sessions |-> Empty]

(* What fact k makes of the rows r. *)
Advance(r, j, e, k) ==
    IF ~(j[k].kind # "extension") THEN r
    ELSE [r EXCEPT ![j[k].session] = Committed(@, Write(j[k], @), e[k])]

IsFold(f, j, e, n) == f = [k \in 0..n |-> IF k = 0 THEN NoRows ELSE Advance(f[k - 1], j, e, k)]

FoldTo(j, e, n) == (CHOOSE f : IsFold(f, j, e, n))[n]

LEMMA FoldedIsFoldTo ==
    ASSUME NEW e
    PROVE  Folded(e) = FoldTo(journal, e, progress)
  BY DEF Folded, FoldTo, IsFold, Advance, IsCore, NoRows

LEMMA FoldedIsFoldToNext == Folded(edits)' = FoldTo(journal', edits', progress')
  BY DEF Folded, FoldTo, IsFold, Advance, IsCore, NoRows

LEMMA FoldExists ==
    ASSUME NEW j, NEW e, NEW n \in Nat
    PROVE  \E f : IsFold(f, j, e, n)
<1> DEFINE Defined == {k \in Nat : \E f : IsFold(f, j, e, k)}
<1>1. 0 \in Defined
  <2>1. IsFold([k \in 0..0 |-> NoRows], j, e, 0)
    BY DEF IsFold
  <2> QED
    BY <2>1
<1>2. ASSUME NEW m \in Defined PROVE m + 1 \in Defined
  <2>1. PICK f : IsFold(f, j, e, m)
    OBVIOUS
  <2> DEFINE g == [k \in 0..m + 1 |-> IF k = m + 1 THEN Advance(f[m], j, e, m + 1) ELSE f[k]]
  <2>2. ASSUME NEW k \in 0..m + 1
        PROVE  g[k] = IF k = 0 THEN NoRows ELSE Advance(g[k - 1], j, e, k)
    <3>1. CASE k = m + 1
      <4>1. m + 1 # 0 /\ k - 1 = m /\ m \in 0..m + 1 /\ m # m + 1
        BY <3>1
      <4>2. g[k - 1] = f[m]
        BY <4>1
      <4> QED
        BY <3>1, <4>1, <4>2
    <3>2. CASE k # m + 1 /\ k # 0
      <4>1. k \in 0..m /\ k - 1 \in 0..m + 1 /\ k - 1 # m + 1
        BY <3>2
      <4>2. f[k] = Advance(f[k - 1], j, e, k)
        BY <2>1, <3>2, <4>1 DEF IsFold
      <4>3. g[k] = f[k] /\ g[k - 1] = f[k - 1]
        BY <3>2, <4>1
      <4> QED
        BY <3>2, <4>2, <4>3
    <3>3. CASE k = 0
      <4>1. k \in 0..m /\ k # m + 1
        BY <3>3
      <4>2. f[k] = NoRows
        BY <2>1, <3>3, <4>1 DEF IsFold
      <4> QED
        BY <3>3, <4>1, <4>2
    <3> QED
      BY <3>1, <3>2, <3>3
  <2>3. IsFold(g, j, e, m + 1)
    <3> HIDE DEF g
    <3>1. g = [k \in 0..m + 1 |-> g[k]]
      BY DEF g
    <3> QED
      BY <2>2, <3>1 DEF IsFold
  <2> QED
    BY <2>3
<1> HIDE DEF Defined
<1>3. Defined = Nat
  <2>1. Defined \in SUBSET Nat
    BY DEF Defined
  <2> QED
    BY <1>1, <1>2, <2>1, NumbersByInduction
<1> QED
  BY <1>3 DEF Defined

LEMMA ChosenFold ==
    ASSUME NEW j, NEW e, NEW n \in Nat
    PROVE  \E f : IsFold(f, j, e, n) /\ FoldTo(j, e, n) = f[n]
<1> DEFINE P(f) == IsFold(f, j, e, n)
<1>1. \E f : P(f)
  BY FoldExists
<1>2. P(CHOOSE f : P(f))
  BY <1>1
<1> QED
  BY <1>2 DEF FoldTo

(* Two folds agree as long as transforms did the same to their facts. *)
LEMMA FoldsAgree ==
    ASSUME NEW j, NEW e, NEW d, NEW n \in Nat, NEW m \in Nat, NEW f, NEW g,
           IsFold(f, j, e, n), IsFold(g, j, d, m), n <= m,
           \A k \in 1..n : e[k] = d[k]
    PROVE  f[n] = g[n]
<1> DEFINE Agree == {k \in Nat : k <= n => f[k] = g[k]}
<1>1. 0 \in Agree
  BY DEF IsFold
<1>2. ASSUME NEW k \in Agree PROVE k + 1 \in Agree
  <2> SUFFICES ASSUME k + 1 <= n PROVE f[k + 1] = g[k + 1]
    OBVIOUS
  <2>1. k + 1 \in 0..n /\ k + 1 \in 0..m /\ k + 1 \in 1..n /\ k + 1 # 0 /\ (k + 1) - 1 = k
    OBVIOUS
  <2>2. f[k] = g[k] /\ e[k + 1] = d[k + 1]
    BY <2>1
  <2>3. f[k + 1] = Advance(f[k], j, e, k + 1) /\ g[k + 1] = Advance(g[k], j, d, k + 1)
    <3>1. f[k + 1] = Advance(f[(k + 1) - 1], j, e, k + 1)
      BY <2>1 DEF IsFold
    <3>2. g[k + 1] = Advance(g[(k + 1) - 1], j, d, k + 1)
      BY <2>1 DEF IsFold
    <3> QED
      BY <2>1, <3>1, <3>2
  <2> QED
    BY <2>2, <2>3 DEF Advance
<1> HIDE DEF Agree
<1>3. Agree = Nat
  <2>1. Agree \in SUBSET Nat
    BY DEF Agree
  <2> QED
    BY <1>1, <1>2, <2>1, NumbersByInduction
<1> QED
  BY <1>3 DEF Agree

LEMMA FoldOfNothing == ASSUME NEW j, NEW e PROVE FoldTo(j, e, 0) = NoRows
<1>1. PICK f : IsFold(f, j, e, 0) /\ FoldTo(j, e, 0) = f[0]
  BY ChosenFold
<1> QED
  BY <1>1 DEF IsFold

LEMMA FoldOfNext ==
    ASSUME NEW j, NEW e, NEW d, NEW n \in Nat, \A k \in 1..n : e[k] = d[k]
    PROVE  FoldTo(j, d, n + 1) = Advance(FoldTo(j, e, n), j, d, n + 1)
<1>1. PICK f : IsFold(f, j, e, n) /\ FoldTo(j, e, n) = f[n]
  BY ChosenFold
<1>2. PICK g : IsFold(g, j, d, n + 1) /\ FoldTo(j, d, n + 1) = g[n + 1]
  BY ChosenFold
<1>3. f[n] = g[n]
  BY <1>1, <1>2, FoldsAgree
<1>4. n + 1 \in 0..n + 1 /\ n + 1 # 0 /\ (n + 1) - 1 = n
  OBVIOUS
<1>5. g[n + 1] = Advance(g[(n + 1) - 1], j, d, n + 1)
  BY <1>2, <1>4 DEF IsFold
<1> QED
  BY <1>1, <1>2, <1>3, <1>4, <1>5

----
(* What the writers and the transforms do to the rows of one session.       *)

State(row) == IF row = None THEN None ELSE row.state

(* The same rows exist, and the same sessions and actors have ended. *)
SameLifecycle(x, y) == \A t \in Targets : State(Row(x, t)) = State(Row(y, t))

LEMMA RowsOfAggregates ==
    ASSUME NEW x \in Aggregates
    PROVE  /\ x = [session |-> x.session, actors |-> x.actors]
           /\ x.session \in SessionRows \union {None}
           /\ x.actors \in [Actors -> ActorRows \union {None}]
           /\ Row(x, "session") = x.session
           /\ \A a \in Actors : Row(x, a) = x.actors[a] /\ x.actors[a] \in ActorRows \union {None}
  BY LeadAssumption DEF Aggregates, Row

LEMMA RowsDiffer == None \notin SessionRows /\ None \notin ActorRows /\ None \notin Aggregates
                    /\ None \notin {"running", "finished", "idle", "working", "edited", "clear"}
  BY NoneAssumption

LEMMA EmptyType == Empty \in Aggregates /\ Empty.session = None /\ \A a \in Actors : Empty.actors[a] = None
  BY DEF Empty, Aggregates

LEMMA WriteSessionType ==
    ASSUME NEW fact \in Facts, NEW row \in SessionRows \union {None}
    PROVE  /\ WriteSession(fact, row) \in SessionRows \union {None}
           /\ WriteSession(fact, row) = None => row = None /\ fact.kind # "session_started"
  BY RowsDiffer DEF WriteSession, SessionRows

LEMMA WriteActorType ==
    ASSUME NEW fact \in Facts, NEW a \in Actors, NEW row \in ActorRows \union {None}
    PROVE  /\ WriteActor(fact, a, row) \in ActorRows \union {None}
           /\ WriteActor(fact, a, row) = None => row = None
           /\ row = None /\ WriteActor(fact, a, row) # None => fact.kind = "actor_started"
<1>1. fact.kind \in Kinds
  BY DEF Facts
<1>2. /\ Change(fact, row) \in ActorRows \union {None}
      /\ Change(fact, row) = None => row = None
      /\ row = None /\ Change(fact, row) # None => fact.kind = "actor_started"
  <2>1. CASE fact.kind = "actor_started"
    BY <2>1, RowsDiffer DEF Change, ActorRows
  <2>2. CASE fact.kind = "actor_finished"
    BY <2>2, RowsDiffer DEF Change, ActorRows
  <2>3. CASE fact.kind = "reasoning"
    BY <2>3, RowsDiffer DEF Change, ActorRows
  <2>4. CASE fact.kind = "session_started"
    BY <2>4, RowsDiffer DEF Change, ActorRows
  <2>5. CASE fact.kind \notin {"actor_started", "actor_finished", "reasoning", "session_started"}
    BY <2>5, RowsDiffer DEF Change, ActorRows
  <2> QED
    BY <2>1, <2>2, <2>3, <2>4, <2>5
<1>3. [state |-> "finished", status |-> None] \in ActorRows
  BY DEF ActorRows
<1> QED
  BY <1>2, <1>3, RowsDiffer DEF WriteActor

LEMMA WriteType ==
    ASSUME NEW fact \in Facts, NEW x \in Aggregates
    PROVE  /\ Write(fact, x) \in Aggregates
           /\ Write(fact, x).session = WriteSession(fact, x.session)
           /\ \A a \in Actors : Write(fact, x).actors[a] = WriteActor(fact, a, x.actors[a])
           /\ \A t \in Targets : Row(Write(fact, x), t) = None => Row(x, t) = None
<1> DEFINE y == Write(fact, x)
<1>1. y.session = WriteSession(fact, x.session) /\ y.session \in SessionRows \union {None}
  BY RowsOfAggregates, WriteSessionType DEF Write
<1>2. /\ y.actors = [a \in Actors |-> WriteActor(fact, a, x.actors[a])]
      /\ y.actors \in [Actors -> ActorRows \union {None}]
  BY RowsOfAggregates, WriteActorType DEF Write
<1>3. y \in Aggregates
  <2>1. y = [session |-> y.session, actors |-> y.actors]
    BY DEF Write
  <2> HIDE DEF y
  <2> QED
    BY <1>1, <1>2, <2>1 DEF Aggregates
<1> HIDE DEF y
<1>4. ASSUME NEW t \in Targets, Row(y, t) = None PROVE Row(x, t) = None
  <2>1. CASE t = "session"
    BY <1>1, <1>3, <1>4, <2>1, RowsOfAggregates, WriteSessionType
  <2>2. CASE t \in Actors
    <3>1. WriteActor(fact, t, x.actors[t]) = None
      BY <1>2, <1>3, <1>4, <2>2, RowsOfAggregates
    <3> QED
      BY <2>2, <3>1, RowsOfAggregates, WriteActorType
  <2> QED
    BY <2>1, <2>2 DEF Targets
<1> QED
  BY <1>1, <1>2, <1>3, <1>4 DEF y

(* Who runs and who has ended depends on nothing that a transform may change. *)
LEMMA WriteLifecycle ==
    ASSUME NEW fact \in Facts, NEW x \in Aggregates, NEW y \in Aggregates, SameLifecycle(x, y)
    PROVE  SameLifecycle(Write(fact, x), Write(fact, y))
<1>1. Write(fact, x) \in Aggregates /\ Write(fact, y) \in Aggregates
  BY WriteType
<1>2. State(Write(fact, x).session) = State(Write(fact, y).session)
  <2>1. State(x.session) = State(y.session)
    BY RowsOfAggregates DEF SameLifecycle, Targets
  <2>2. x.session \in SessionRows \union {None} /\ y.session \in SessionRows \union {None}
    BY RowsOfAggregates
  <2> QED
    <3> DEFINE p == x.session
    <3> DEFINE q == y.session
    <3>1. /\ Write(fact, x).session = WriteSession(fact, p)
          /\ Write(fact, y).session = WriteSession(fact, q)
      BY WriteType
    <3> HIDE DEF p, q
    <3>2. State(WriteSession(fact, p)) = State(WriteSession(fact, q))
      <4>1. State(p) = State(q) /\ p \in SessionRows \union {None} /\ q \in SessionRows \union {None}
        BY <2>1, <2>2 DEF p, q
      <4> QED
        BY <4>1, RowsDiffer DEF State, WriteSession, SessionRows
    <3> QED
      BY <3>1, <3>2
<1>3. ASSUME NEW a \in Actors
      PROVE  State(Write(fact, x).actors[a]) = State(Write(fact, y).actors[a])
  <2> DEFINE p == x.actors[a]
  <2> DEFINE q == y.actors[a]
  <2>1. State(p) = State(q) /\ p \in ActorRows \union {None} /\ q \in ActorRows \union {None}
    BY RowsOfAggregates DEF SameLifecycle, Targets
  <2>2. /\ Write(fact, x).actors[a] = WriteActor(fact, a, p)
        /\ Write(fact, y).actors[a] = WriteActor(fact, a, q)
    BY WriteType
  <2> HIDE DEF p, q
  <2>3. fact.kind \in Kinds
    BY DEF Facts
  <2>4. State(Change(fact, p)) = State(Change(fact, q))
    <3>1. CASE fact.kind = "actor_started"
      BY <2>1, <3>1, RowsDiffer DEF Change, State, ActorRows
    <3>2. CASE fact.kind = "actor_finished"
      BY <2>1, <3>2, RowsDiffer DEF Change, State, ActorRows
    <3>3. CASE fact.kind = "reasoning"
      BY <2>1, <3>3, RowsDiffer DEF Change, State, ActorRows
    <3>4. CASE fact.kind = "session_started"
      BY <2>1, <3>4, RowsDiffer DEF Change, State, ActorRows
    <3>5. CASE fact.kind \notin {"actor_started", "actor_finished", "reasoning", "session_started"}
      BY <2>1, <3>5 DEF Change
    <3> QED
      BY <3>1, <3>2, <3>3, <3>4, <3>5
  <2>5. p = None <=> q = None
    BY <2>1, RowsDiffer DEF State, ActorRows
  <2>6. State(WriteActor(fact, a, p)) = State(WriteActor(fact, a, q))
    BY <2>1, <2>4, <2>5 DEF WriteActor
  <2> QED
    BY <2>2, <2>6
<1> QED
  BY <1>1, <1>2, <1>3, RowsOfAggregates DEF SameLifecycle, Targets

LEMMA OperationsType ==
    ASSUME NEW x \in Aggregates, NEW y \in Aggregates, NEW e \in Operations(x, y)
    PROVE  /\ e \in Edits /\ Untouched \in Operations(x, y)
           /\ \A t \in e.drop : t \in Targets /\ Row(x, t) # None /\ Row(x, t).state = Row(y, t).state
           /\ \A t \in e.edit : t \in Targets /\ Row(x, t) # Row(y, t)
           /\ x = y => e = Untouched
  BY DEF Operations, Droppable, Changed, Untouched, Edits

(* What is committed: the same rows as written, running and ended alike. *)
LEMMA CommittedType ==
    ASSUME NEW fact \in Facts, NEW x \in Aggregates, NEW e \in Operations(x, Write(fact, x))
    PROVE  /\ Committed(x, Write(fact, x), e) \in Aggregates
           /\ SameLifecycle(Committed(x, Write(fact, x), e), Write(fact, x))
           /\ \A t \in Targets : Row(Committed(x, Write(fact, x), e), t) = None
                                    => Row(Write(fact, x), t) = None
<1> DEFINE y == Write(fact, x)
<1> DEFINE c == Committed(x, y, e)
<1>1. y \in Aggregates /\ \A t \in Targets : Row(y, t) = None => Row(x, t) = None
  BY WriteType
<1> HIDE DEF y
<1>2. /\ \A t \in e.drop : t \in Targets /\ Row(x, t) # None /\ Row(x, t).state = Row(y, t).state
      /\ \A t \in e.edit : t \in Targets /\ Row(x, t) # Row(y, t)
  BY <1>1, OperationsType DEF y
<1>3. /\ c.session \in SessionRows \union {None}
      /\ State(c.session) = State(y.session)
      /\ c.session = None => y.session = None
  <2>1. c.session = IF "session" \in e.drop THEN x.session
                    ELSE IF "session" \in e.edit THEN EditedSession(y.session) ELSE y.session
    BY DEF Committed
  <2>2. Row(x, "session") = x.session /\ Row(y, "session") = y.session
    BY <1>1, RowsOfAggregates
  <2>3. x.session \in SessionRows \union {None} /\ y.session \in SessionRows \union {None}
    BY <1>1, RowsOfAggregates
  <2> HIDE DEF c
  <2>4. CASE "session" \in e.drop
    <3>1. x.session # None /\ x.session.state = y.session.state /\ y.session # None
      BY <1>1, <1>2, <2>2, <2>4 DEF Targets
    <3> QED
      BY <2>1, <2>3, <2>4, <3>1 DEF State
  <2>5. CASE "session" \notin e.drop /\ "session" \in e.edit
    <3>1. y.session # None
      BY <1>1, <1>2, <2>2, <2>5 DEF Targets
    <3>2. EditedSession(y.session) \in SessionRows /\ EditedSession(y.session).state = y.session.state
      BY <2>3, <3>1 DEF EditedSession, SessionRows
    <3> QED
      BY <2>1, <2>5, <3>1, <3>2, RowsDiffer DEF State
  <2>6. CASE "session" \notin e.drop /\ "session" \notin e.edit
    BY <2>1, <2>3, <2>6
  <2> QED
    BY <2>4, <2>5, <2>6
<1>4. ASSUME NEW a \in Actors
      PROVE  /\ c.actors[a] \in ActorRows \union {None}
             /\ State(c.actors[a]) = State(y.actors[a])
             /\ c.actors[a] = None => y.actors[a] = None
  <2>1. c.actors[a] = IF a \in e.drop THEN x.actors[a]
                      ELSE IF a \in e.edit THEN EditedActor(y.actors[a]) ELSE y.actors[a]
    BY DEF Committed
  <2>2. Row(x, a) = x.actors[a] /\ Row(y, a) = y.actors[a]
    BY <1>1, RowsOfAggregates
  <2>3. x.actors[a] \in ActorRows \union {None} /\ y.actors[a] \in ActorRows \union {None}
    BY <1>1, RowsOfAggregates
  <2> HIDE DEF c
  <2>4. CASE a \in e.drop
    <3>1. x.actors[a] # None /\ x.actors[a].state = y.actors[a].state /\ y.actors[a] # None
      BY <1>1, <1>2, <2>2, <2>4 DEF Targets
    <3> QED
      BY <2>1, <2>3, <2>4, <3>1 DEF State
  <2>5. CASE a \notin e.drop /\ a \in e.edit
    <3>1. y.actors[a] # None
      BY <1>1, <1>2, <2>2, <2>5 DEF Targets
    <3>2. EditedActor(y.actors[a]) \in ActorRows /\ EditedActor(y.actors[a]).state = y.actors[a].state
      BY <2>3, <3>1 DEF EditedActor, ActorRows
    <3> QED
      BY <2>1, <2>5, <3>1, <3>2, RowsDiffer DEF State
  <2>6. CASE a \notin e.drop /\ a \notin e.edit
    BY <2>1, <2>3, <2>6
  <2> QED
    BY <2>4, <2>5, <2>6
<1>5. c \in Aggregates
  <2>1. c = [session |-> c.session, actors |-> c.actors] /\ c.actors = [a \in Actors |-> c.actors[a]]
    BY DEF Committed
  <2> HIDE DEF c
  <2>2. c.actors \in [Actors -> ActorRows \union {None}]
    BY <1>4, <2>1
  <2> QED
    BY <1>3, <2>1, <2>2 DEF Aggregates
<1> HIDE DEF c
<1>6. ASSUME NEW t \in Targets
      PROVE  /\ State(Row(c, t)) = State(Row(y, t))
             /\ Row(c, t) = None => Row(y, t) = None
  BY <1>1, <1>3, <1>4, <1>5, RowsOfAggregates DEF Targets
<1> QED
  BY <1>5, <1>6 DEF SameLifecycle, c, y

LEMMA NothingToCommit ==
    ASSUME NEW x \in Aggregates, NEW y \in Aggregates
    PROVE  Committed(x, y, Untouched) = y
<1>1. Committed(x, y, Untouched) = [session |-> y.session, actors |-> [a \in Actors |-> y.actors[a]]]
  BY DEF Committed, Untouched
<1>2. y.actors = [a \in Actors |-> y.actors[a]]
  BY RowsOfAggregates
<1> QED
  BY <1>1, <1>2, RowsOfAggregates

(* Rows that the loop has read as they are become what it commits. *)
LEMMA SavedType ==
    ASSUME NEW old \in Aggregates, NEW x \in Aggregates, NEW c \in Aggregates
    PROVE  /\ Saved(old, x, c) \in Aggregates
           /\ old.session = x.session => Saved(old, x, c).session = c.session
           /\ \A a \in Actors : Saved(old, x, c).actors[a] = IF c.actors[a] = x.actors[a]
                                                             THEN old.actors[a] ELSE c.actors[a]
           /\ old = x => Saved(old, x, c) = c
<1> DEFINE v == Saved(old, x, c)
<1>1. /\ v.session = IF c.session = x.session THEN old.session ELSE c.session
      /\ v.actors = [a \in Actors |-> IF c.actors[a] = x.actors[a] THEN old.actors[a] ELSE c.actors[a]]
      /\ v = [session |-> v.session, actors |-> v.actors]
  BY DEF Saved
<1> HIDE DEF v
<1>2. v.session \in SessionRows \union {None} /\ v.actors \in [Actors -> ActorRows \union {None}]
  BY <1>1, RowsOfAggregates
<1>3. v \in Aggregates
  BY <1>1, <1>2 DEF Aggregates
<1>4. ASSUME old = x PROVE v = c
  <2>1. v.session = c.session
    BY <1>1, <1>4
  <2>2. v.actors = [a \in Actors |-> c.actors[a]]
    BY <1>1, <1>4
  <2>3. c.actors = [a \in Actors |-> c.actors[a]]
    BY RowsOfAggregates
  <2> QED
    BY <1>1, <2>1, <2>2, <2>3, RowsOfAggregates
<1> QED
  BY <1>1, <1>3, <1>4 DEF v

----
(* Types, and a page is the run of stored facts right behind the progress.  *)

PageInv ==
    /\ \A k \in DOMAIN page : page[k] = progress + k /\ page[k] <= stored
    /\ page # <<>> => mode \in {"draining", "rebuilding"}

(* What the loop computes the next rows of a session from. *)
StateOf(s) == IF states[s] = None THEN Stored(s) ELSE states[s]

LEMMA StateType ==
    ASSUME TypeOK, NEW s \in Sessions
    PROVE  /\ StateOf(s) \in Aggregates
           /\ Stored(s).session = rows[s].session
           /\ rows[s] \in Aggregates
  BY EmptyType DEF TypeOK, StateOf, Stored

LEMMA JournalType ==
    ASSUME TypeOK
    PROVE  /\ journal \in Seq(Facts) /\ Len(journal) \in Nat /\ Cursors = 1..Len(journal)
           /\ \A n \in Cursors : /\ journal[n] \in Facts /\ journal[n].session \in Sessions
                                 /\ journal[n].actor \in Actors
<1>1. journal \in Seq(Facts)
  BY ScriptsAssumption DEF TypeOK
<1>2. Len(journal) \in Nat /\ \A n \in 1..Len(journal) : journal[n] \in Facts
  BY <1>1
<1>3. \A fact \in Facts : fact.session \in Sessions /\ fact.actor \in Actors
  BY DEF Facts
<1> QED
  BY <1>1, <1>2, <1>3 DEF Cursors

LEMMA FirstOfPage ==
    ASSUME TypeOK, PageInv, page # <<>>
    PROVE  /\ Head(page) = progress + 1 /\ progress + 1 \in Cursors /\ progress + 1 <= stored
           /\ Tail(page) \in Seq(Cursors) /\ Len(Tail(page)) = Len(page) - 1
           /\ \A k \in DOMAIN Tail(page) : Tail(page)[k] = progress + 1 + k /\ Tail(page)[k] <= stored
<1>1. page \in Seq(Cursors) /\ progress \in Nat /\ Len(page) \in Nat /\ Len(page) # 0
  BY DEF TypeOK
<1>2. 1 \in DOMAIN page /\ Head(page) = page[1] /\ page[1] \in Cursors
  BY <1>1
<1>3. Tail(page) \in Seq(Cursors) /\ Len(Tail(page)) = Len(page) - 1
      /\ \A k \in 1..Len(Tail(page)) : Tail(page)[k] = page[k + 1]
  BY <1>1
<1>4. ASSUME NEW k \in DOMAIN Tail(page)
      PROVE  Tail(page)[k] = progress + 1 + k /\ Tail(page)[k] <= stored
  <2>1. k \in 1..Len(page) - 1 /\ k + 1 \in DOMAIN page /\ k \in Nat
    BY <1>1, <1>3
  <2>2. page[k + 1] = progress + (k + 1) /\ page[k + 1] <= stored
    BY <2>1 DEF PageInv
  <2> QED
    BY <1>1, <1>3, <2>1, <2>2
<1> QED
  BY <1>2, <1>3, <1>4 DEF PageInv

(* A commit of the next fact, with what a transform did to it. *)
CommitsWith(e) ==
    LET n == progress + 1
        s == journal[n].session
        x == StateOf(s)
        c == Committed(x, Write(journal[n], x), e)
    IN /\ e \in Operations(x, Write(journal[n], x))
       /\ rows' = [rows EXCEPT ![s] = Saved(rows[s], x, c)]
       /\ states' = [states EXCEPT ![s] = c]
       /\ batch' = IF mode = "draining" /\ c.actors[Lead] # x.actors[Lead]
                   THEN [batch EXCEPT ![s] = c.actors[Lead]] ELSE batch
       /\ edits' = [edits EXCEPT ![n] = e]

LEMMA MaterializeCommits ==
    ASSUME TypeOK, PageInv, Materialize
    PROVE  /\ \E e \in Edits : CommitsWith(e)
           /\ page # <<>> /\ progress + 1 \in Cursors /\ IsCore(progress + 1)
           /\ progress' = progress + 1 /\ page' = Tail(page)
           /\ UNCHANGED <<journal, stored, mode, painted, tab, unpainted, refused, failures>>
<1>1. page # <<>> /\ Head(page) = progress + 1 /\ progress + 1 \in Cursors
  BY FirstOfPage DEF Materialize
<1> DEFINE n == progress + 1
<1> DEFINE s == journal[n].session
<1> DEFINE x == StateOf(s)
<1> DEFINE y == Write(journal[n], x)
<1>2. x \in Aggregates /\ y \in Aggregates
  BY <1>1, JournalType, StateType, WriteType
<1>3. Untouched \in Operations(x, y)
  BY DEF Operations
<1>4. PICK e \in IF mode = "draining" THEN Operations(x, y) ELSE {Untouched} :
          LET c == Committed(x, y, e)
          IN /\ rows' = [rows EXCEPT ![s] = Saved(@, x, c)]
             /\ states' = [states EXCEPT ![s] = KeptState(x, y, e)]
             /\ batch' = IF mode = "draining" /\ c.actors[Lead] # x.actors[Lead]
                         THEN [batch EXCEPT ![s] = c.actors[Lead]] ELSE batch
             /\ edits' = [edits EXCEPT ![n] = e]
  BY <1>1 DEF Materialize, StateOf
<1>5. e \in Operations(x, y) /\ e \in Edits
  BY <1>2, <1>3, OperationsType
<1>6. CommitsWith(e)
  BY <1>4, <1>5 DEF CommitsWith, KeptState
<1> QED
  BY <1>1, <1>5, <1>6 DEF Materialize

LEMMA TypeInit == Init => TypeOK /\ PageInv
<1> SUFFICES ASSUME Init PROVE TypeOK /\ PageInv
  OBVIOUS
<1>1. Len(journal) \in Nat
  BY ScriptsAssumption DEF Init
<1>2. Untouched \in Edits
  BY DEF Untouched, Edits
<1> QED
  BY <1>1, <1>2, EmptyType, PageAssumption DEF Init, TypeOK, PageInv, Cursors

LEMMA TypeStep == TypeOK /\ PageInv /\ [Next]_vars => TypeOK' /\ PageInv'
<1> SUFFICES ASSUME TypeOK, PageInv, [Next]_vars PROVE TypeOK' /\ PageInv'
  OBVIOUS
<1>0. /\ Len(journal) \in Nat /\ stored \in Nat /\ progress \in Nat /\ progress <= stored
      /\ stored <= Len(journal) /\ failures \in Nat /\ MaxFailures \in Nat
  BY JournalType, PageAssumption DEF TypeOK
<1>1. CASE StoreFact
  BY <1>0, <1>1 DEF StoreFact, TypeOK, PageInv, Cursors
<1>2. CASE Drain
  BY <1>0, <1>2 DEF Drain, TypeOK, PageInv, Cursors
<1>3. CASE LoadPage
  <2> DEFINE size == IF stored - progress < PageSize THEN stored - progress ELSE PageSize
  <2>1. size \in Nat /\ size <= stored - progress
    BY <1>0, PageAssumption
  <2>2. page' = [k \in 1..size |-> progress + k]
    BY <1>3 DEF LoadPage
  <2> HIDE DEF size
  <2>3. \A k \in 1..size : progress + k \in Cursors /\ progress + k <= stored
    BY <1>0, <2>1 DEF Cursors
  <2>4. page' \in Seq(Cursors) /\ DOMAIN page' = 1..size
    BY <2>1, <2>2, <2>3
  <2>5. PageInv'
    BY <1>3, <2>2, <2>3, <2>4 DEF LoadPage, PageInv
  <2> QED
    BY <1>3, <2>4, <2>5 DEF LoadPage, TypeOK, Cursors
<1>4. CASE SkipExtension
  <2>1. page # <<>> /\ progress' = progress + 1 /\ page' = Tail(page)
    BY <1>4, FirstOfPage DEF SkipExtension
  <2>2. UNCHANGED <<journal, stored, rows, mode, states, batch, painted, tab, edits, unpainted, refused, failures>>
    BY <1>4 DEF SkipExtension
  <2>3. progress' \in 0..stored' /\ page' \in Seq(Cursors')
    BY <1>0, <2>1, <2>2, FirstOfPage DEF Cursors
  <2>4. PageInv'
    BY <2>1, <2>2, FirstOfPage DEF PageInv
  <2> QED
    BY <2>2, <2>3, <2>4 DEF TypeOK, Cursors
<1>5. CASE Materialize
  <2>1. /\ page # <<>> /\ progress + 1 \in Cursors /\ progress' = progress + 1 /\ page' = Tail(page)
        /\ UNCHANGED <<journal, stored, mode, painted, tab, unpainted, refused, failures>>
    BY <1>5, MaterializeCommits
  <2>2. PICK e \in Edits : CommitsWith(e)
    BY <1>5, MaterializeCommits
  <2> DEFINE n == progress + 1
  <2> DEFINE s == journal[n].session
  <2> DEFINE x == StateOf(s)
  <2> DEFINE c == Committed(x, Write(journal[n], x), e)
  <2>3. journal[n] \in Facts /\ s \in Sessions /\ x \in Aggregates /\ rows[s] \in Aggregates
    BY <2>1, JournalType, StateType
  <2>4. /\ e \in Operations(x, Write(journal[n], x))
        /\ rows' = [rows EXCEPT ![s] = Saved(rows[s], x, c)]
        /\ states' = [states EXCEPT ![s] = c]
        /\ batch' = IF mode = "draining" /\ c.actors[Lead] # x.actors[Lead]
                    THEN [batch EXCEPT ![s] = c.actors[Lead]] ELSE batch
        /\ edits' = [edits EXCEPT ![n] = e]
    BY <2>2 DEF CommitsWith
  <2>5. c \in Aggregates
    BY <2>3, <2>4, CommittedType
  <2>6. Saved(rows[s], x, c) \in Aggregates /\ c.actors[Lead] \in ActorRows \union {None}
    BY <2>3, <2>5, SavedType, RowsOfAggregates, LeadAssumption
  <2> HIDE DEF s, x, c
  <2>7. /\ rows' \in [Sessions -> Aggregates] /\ states' \in [Sessions -> Aggregates \union {None}]
        /\ batch' \in [Sessions -> ActorRows \union {None}]
    BY <2>3, <2>4, <2>5, <2>6 DEF TypeOK
  <2>8. edits' \in [Cursors' -> Edits]
    BY <2>1, <2>4 DEF TypeOK, Cursors
  <2>9. progress' \in 0..stored' /\ page' \in Seq(Cursors')
    BY <1>0, <2>1, FirstOfPage DEF Cursors
  <2>10. PageInv'
    BY <2>1, FirstOfPage DEF PageInv
  <2> QED
    BY <2>1, <2>7, <2>8, <2>9, <2>10 DEF TypeOK
<1>6. ASSUME Announce PROVE /\ painted' \in [Sessions -> {"idle", "working", "edited", "clear", None}]
                           /\ tab' \in [Sessions -> {"idle", "working", "edited", "clear"}]
                           /\ unpainted' \subseteq Sessions /\ refused' \subseteq Sessions
  <2>1. \A s \in Sessions : batch[s] # None => Colour(batch[s]) \in {"idle", "working", "edited", "clear"}
    BY DEF TypeOK, ActorRows, Colour
  <2> QED
    BY <1>6, <2>1 DEF Announce, TypeOK
<1>7. CASE EndDrain
  BY <1>0, <1>6, <1>7 DEF EndDrain, TypeOK, PageInv, Cursors
<1>8. CASE DrainFails
  BY <1>0, <1>6, <1>8 DEF DrainFails, AnnounceAfterFailure, Discard, TypeOK, PageInv, Cursors
<1>9. CASE Crash
  BY <1>0, <1>9 DEF Crash, Discard, TypeOK, PageInv, Cursors
<1>10. CASE Start
  BY <1>0, <1>10 DEF Start, TypeOK, PageInv, Cursors
<1>11. CASE Clear
  <2>1. page = <<>>
    BY <1>11 DEF Clear, PageInv
  <2> QED
    BY <1>0, <1>11, <2>1, EmptyType DEF Clear, TypeOK, PageInv, Cursors
<1>12. CASE EndRebuild
  BY <1>0, <1>12 DEF EndRebuild, TypeOK, PageInv, Cursors
<1>13. CASE UNCHANGED vars
  BY <1>13 DEF vars, TypeOK, PageInv, Cursors
<1> QED
  BY <1>1, <1>2, <1>3, <1>4, <1>5, <1>7, <1>8, <1>9, <1>10, <1>11, <1>12, <1>13 DEF Next

(* Every state is typed (loop_runtime.py, loop_materialization.py), and a   *)
(* page never reaches beyond what is stored.                                *)
THEOREM TypeCorrect == Spec => []TypeOK
<1>1. TypeOK /\ PageInv /\ [Next]_vars => (TypeOK /\ PageInv)'
  BY TypeStep
<1> QED
  BY TypeInit, <1>1, PTL DEF Spec

----
(* The rows are the fold of the journal. *)

Begun(s) ==
    \E n \in 1..progress : journal[n].session = s /\ journal[n].kind = "session_started"

Untransformed == [n \in Cursors |-> Untouched]

(* A session that has begun has a row, and its kept row is the stored one.  *)
SessionInv ==
    \A s \in Sessions :
        /\ Begun(s) => rows[s].session # None
        /\ page # <<>> /\ states[s] # None => states[s].session = rows[s].session

(* Unless an actor came before its session, its rows can be read back.      *)
ReadableInv ==
    \A s \in Sessions : ~Orphaned(s) /\ rows[s].session = None => rows[s] = Empty

(* The fold without transforms is typed and has the same rows.              *)
PlainInv ==
    LET plain == FoldTo(journal, Untransformed, progress)
    IN /\ plain \in [Sessions -> Aggregates]
       /\ \A s \in Sessions : ~Orphaned(s) => SameLifecycle(rows[s], plain[s])

RowsInv == SessionInv /\ ReadableInv /\ RowsAreFolded /\ KeptStateIsCommitted /\ PlainInv

LEMMA FoldDomain ==
    ASSUME NEW j, NEW e, NEW n \in Nat
    PROVE  DOMAIN FoldTo(j, e, n) = Sessions
<1> DEFINE Good == {k \in Nat : DOMAIN FoldTo(j, e, k) = Sessions}
<1>1. 0 \in Good
  BY FoldOfNothing DEF NoRows
<1>2. ASSUME NEW k \in Good PROVE k + 1 \in Good
  <2>1. FoldTo(j, e, k + 1) = Advance(FoldTo(j, e, k), j, e, k + 1)
    BY FoldOfNext
  <2>2. \A r : DOMAIN Advance(r, j, e, k + 1) = DOMAIN r
    BY DEF Advance
  <2> QED
    BY <2>1, <2>2
<1> HIDE DEF Good
<1>3. Good = Nat
  <2>1. Good \in SUBSET Nat
    BY DEF Good
  <2> QED
    BY <1>1, <1>2, <2>1, NumbersByInduction
<1> QED
  BY <1>3 DEF Good

LEMMA OrphansStay ==
    ASSUME TypeOK, TypeOK', NEW s \in Sessions, journal' = journal, progress <= progress'
    PROVE  Orphaned(s) => Orphaned(s)'
<1>1. progress \in Nat /\ progress' \in Nat
  BY DEF TypeOK
<1> QED
  BY <1>1 DEF Orphaned

LEMMA RowsInit == Init => RowsInv
<1> SUFFICES ASSUME Init PROVE RowsInv
  OBVIOUS
<1>1. /\ progress = 0 /\ page = <<>> /\ rows = NoRows
      /\ \A s \in Sessions : rows[s] = Empty
  BY DEF Init, NoRows
<1>2. FoldTo(journal, edits, 0) = NoRows /\ FoldTo(journal, Untransformed, 0) = NoRows
  BY FoldOfNothing
<1>3. \A s \in Sessions : ~Begun(s)
  BY <1>1 DEF Begun
<1>4. NoRows \in [Sessions -> Aggregates] /\ \A s \in Sessions : SameLifecycle(NoRows[s], NoRows[s])
  BY EmptyType DEF NoRows, SameLifecycle
<1> QED
  BY <1>1, <1>2, <1>3, <1>4, FoldedIsFoldTo
     DEF RowsInv, SessionInv, ReadableInv, RowsAreFolded, KeptStateIsCommitted, PlainInv

(* Steps that leave the tables alone. *)
LEMMA RowsStay ==
    ASSUME RowsInv, UNCHANGED <<journal, rows, progress, edits>>,
           \/ UNCHANGED <<page, states>>
           \/ page' = <<>>
           \/ states' = [s \in Sessions |-> None]
    PROVE  RowsInv'
<1>1. Folded(edits)' = Folded(edits)
  BY FoldedIsFoldTo, FoldedIsFoldToNext
<1>2. /\ \A s \in Sessions : Begun(s)' <=> Begun(s)
      /\ \A s \in Sessions : Orphaned(s)' <=> Orphaned(s)
  BY DEF Begun, Orphaned
<1>3. PlainInv'
  <2>1. Untransformed' = Untransformed
    BY DEF Untransformed, Cursors
  <2> QED
    BY <1>2, <2>1 DEF RowsInv, PlainInv
<1>4. SessionInv' /\ KeptStateIsCommitted'
  BY <1>2 DEF RowsInv, SessionInv, KeptStateIsCommitted
<1>5. ReadableInv' /\ RowsAreFolded'
  BY <1>1, <1>2 DEF RowsInv, ReadableInv, RowsAreFolded
<1> QED
  BY <1>3, <1>4, <1>5 DEF RowsInv

(* The fold over one more fact, with the edits so far and without any.      *)
LEMMA FoldMoves ==
    ASSUME TypeOK, progress' = progress + 1, journal' = journal,
           \A k \in 1..progress : edits'[k] = edits[k]
    PROVE  /\ Folded(edits)' = Advance(Folded(edits), journal, edits', progress + 1)
           /\ FoldTo(journal, Untransformed, progress')
                 = Advance(FoldTo(journal, Untransformed, progress), journal, Untransformed, progress + 1)
           /\ Untransformed' = Untransformed
<1>1. progress \in Nat
  BY DEF TypeOK
<1>2. FoldTo(journal, edits', progress + 1) = Advance(FoldTo(journal, edits, progress), journal, edits', progress + 1)
  BY <1>1, FoldOfNext
<1>3. FoldTo(journal, Untransformed, progress + 1)
         = Advance(FoldTo(journal, Untransformed, progress), journal, Untransformed, progress + 1)
  BY <1>1, FoldOfNext
<1>4. Untransformed' = Untransformed
  BY DEF Untransformed, Cursors
<1> QED
  BY <1>2, <1>3, <1>4, FoldedIsFoldTo, FoldedIsFoldToNext

LEMMA RowsSkip ==
    ASSUME TypeOK, PageInv, RowsInv, TypeOK', SkipExtension
    PROVE  RowsInv'
<1>1. /\ page # <<>> /\ progress' = progress + 1 /\ page' = Tail(page) /\ ~IsCore(progress + 1)
      /\ UNCHANGED <<journal, rows, states, edits>>
  BY FirstOfPage DEF SkipExtension
<1>2. Folded(edits)' = Folded(edits)
  BY <1>1, FoldMoves DEF Advance, IsCore
<1>3. /\ FoldTo(journal, Untransformed, progress') = FoldTo(journal, Untransformed, progress)
      /\ Untransformed' = Untransformed
  BY <1>1, FoldMoves DEF Advance, IsCore
<1>4. progress \in Nat
  BY DEF TypeOK
<1>5. \A s \in Sessions : /\ Begun(s)' => Begun(s)
                          /\ Orphaned(s) => Orphaned(s)'
  <2>1. \A s \in Sessions : Begun(s)' => Begun(s)
    BY <1>1, <1>4 DEF Begun, IsCore
  <2> QED
    BY <1>1, <1>4, <2>1, OrphansStay
<1>6. SessionInv' /\ KeptStateIsCommitted'
  BY <1>1, <1>5 DEF RowsInv, SessionInv, KeptStateIsCommitted
<1>7. ReadableInv' /\ RowsAreFolded'
  BY <1>1, <1>2, <1>5 DEF RowsInv, ReadableInv, RowsAreFolded
<1>8. PlainInv'
  BY <1>1, <1>3, <1>5 DEF RowsInv, PlainInv
<1> QED
  BY <1>6, <1>7, <1>8 DEF RowsInv

LEMMA RowsClear ==
    ASSUME TypeOK, PageInv, Clear
    PROVE  RowsInv'
<1>1. page' = <<>> /\ progress' = 0 /\ rows' = NoRows /\ journal' = journal /\ edits' = edits
  BY DEF Clear, PageInv, NoRows
<1>2. Folded(edits)' = NoRows /\ FoldTo(journal', Untransformed', progress') = NoRows
  BY <1>1, FoldedIsFoldToNext, FoldOfNothing
<1>3. \A s \in Sessions : ~Begun(s)' /\ rows'[s] = Empty /\ NoRows[s] = Empty
  BY <1>1 DEF Begun, NoRows
<1>4. NoRows \in [Sessions -> Aggregates] /\ \A s \in Sessions : SameLifecycle(NoRows[s], NoRows[s])
  BY EmptyType DEF NoRows, SameLifecycle
<1>5. PlainInv'
  BY <1>1, <1>2, <1>4 DEF PlainInv
<1> QED
  BY <1>1, <1>2, <1>3, <1>5 DEF RowsInv, SessionInv, ReadableInv, RowsAreFolded, KeptStateIsCommitted

(* What the loop works from is what the tables hold. *)
LEMMA StateIsStored ==
    ASSUME TypeOK, RowsInv, page # <<>>, NEW s \in Sessions
    PROVE  /\ StateOf(s).session = rows[s].session
           /\ ~Orphaned(s) => StateOf(s) = rows[s]
<1>1. CASE states[s] = None
  BY <1>1, StateType DEF StateOf, RowsInv, ReadableInv, Stored
<1>2. CASE states[s] # None
  BY <1>2 DEF StateOf, RowsInv, SessionInv, KeptStateIsCommitted
<1> QED
  BY <1>1, <1>2

(* One fact that creates rows where a session had none is its start, or     *)
(* makes it an orphan.                                                      *)
LEMMA FirstRows ==
    ASSUME NEW fact \in Facts, fact.kind # "actor_started",
           NEW e \in Operations(Empty, Write(fact, Empty)),
           Committed(Empty, Write(fact, Empty), e).session = None
    PROVE  Committed(Empty, Write(fact, Empty), e) = Empty
<1> DEFINE y == Write(fact, Empty)
<1>1. Empty \in Aggregates /\ y \in Aggregates
  BY EmptyType, WriteType
<1>2. y.session = None
  BY <1>1, CommittedType, RowsOfAggregates DEF Targets
<1>3. \A a \in Actors : y.actors[a] = None
  BY <1>1, EmptyType, WriteType, WriteActorType
<1> HIDE DEF y
<1>4. y = Empty
  <2>1. y.actors = [a \in Actors |-> None]
    BY <1>1, <1>3, RowsOfAggregates
  <2> QED
    BY <1>1, <1>2, <2>1, RowsOfAggregates DEF Empty
<1>5. e = Untouched
  BY <1>1, <1>4, OperationsType DEF y
<1> QED
  BY <1>1, <1>4, <1>5, NothingToCommit DEF y

LEMMA RowsCommit ==
    ASSUME TypeOK, PageInv, RowsInv, TypeOK', Materialize
    PROVE  RowsInv'
<1>1. /\ page # <<>> /\ progress + 1 \in Cursors /\ IsCore(progress + 1)
      /\ progress' = progress + 1 /\ page' = Tail(page) /\ journal' = journal
  BY MaterializeCommits
<1>2. PICK e \in Edits : CommitsWith(e)
  BY MaterializeCommits
<1> DEFINE n == progress + 1
<1> DEFINE fact == journal[n]
<1> DEFINE s == journal[n].session
<1> DEFINE x == StateOf(s)
<1> DEFINE c == Committed(x, Write(fact, x), e)
<1>3. /\ fact \in Facts /\ fact.session = s /\ s \in Sessions /\ n \in Nat /\ progress \in Nat
      /\ x \in Aggregates /\ rows[s] \in Aggregates /\ e \in Operations(x, Write(fact, x))
  BY <1>1, <1>2, JournalType, StateType DEF CommitsWith, TypeOK
<1>4. /\ rows' = [rows EXCEPT ![s] = Saved(rows[s], x, c)]
      /\ states' = [states EXCEPT ![s] = c]
      /\ edits' = [edits EXCEPT ![n] = e]
  BY <1>2 DEF CommitsWith
<1>5. /\ c \in Aggregates /\ SameLifecycle(c, Write(fact, x))
      /\ c.session = None => x.session = None /\ fact.kind # "session_started"
  <2>1. /\ c \in Aggregates /\ SameLifecycle(c, Write(fact, x))
        /\ Row(c, "session") = None => Row(Write(fact, x), "session") = None
    BY <1>3, CommittedType DEF Targets
  <2>2. /\ Write(fact, x) \in Aggregates
        /\ Write(fact, x).session = WriteSession(fact, x.session)
    BY <1>3, WriteType
  <2> QED
    BY <1>3, <2>1, <2>2, RowsOfAggregates, WriteSessionType
<1>6. x.session = rows[s].session /\ (~Orphaned(s) => x = rows[s])
  BY <1>1, <1>3, StateIsStored
<1>7. /\ \A z \in Sessions : rows'[z] = IF z = s THEN Saved(rows[s], x, c) ELSE rows[z]
      /\ \A z \in Sessions : states'[z] = IF z = s THEN c ELSE states[z]
      /\ edits'[n] = e /\ \A k \in 1..progress : edits'[k] = edits[k]
  <2>1. n \in Cursors /\ n \notin 1..progress /\ 1..progress \subseteq Cursors
    BY <1>1, <1>3, JournalType
  <2> HIDE DEF n, s, x, c
  <2> QED
    BY <1>3, <1>4, <2>1 DEF TypeOK
<1>8. rows'[s].session = c.session /\ (~Orphaned(s) => rows'[s] = c)
  BY <1>3, <1>5, <1>6, <1>7, SavedType
<1>9. \A z \in Sessions : Orphaned(z) => Orphaned(z)'
  BY <1>1, <1>3, OrphansStay
<1>10. \A z \in Sessions : Begun(z)' => Begun(z) \/ (z = s /\ fact.kind = "session_started")
  BY <1>1, <1>3 DEF Begun
<1>11. /\ Folded(edits)' = Advance(Folded(edits), journal, edits', n)
       /\ FoldTo(journal, Untransformed, progress')
             = Advance(FoldTo(journal, Untransformed, progress), journal, Untransformed, n)
       /\ Untransformed' = Untransformed
  BY <1>1, <1>7, FoldMoves
<1>12. SessionInv'
  <2>1. ASSUME NEW z \in Sessions, Begun(z)' PROVE rows'[z].session # None
    <3>1. CASE z = s
      <4>1. CASE Begun(s)
        <5>1. rows[s].session # None
          BY <1>3, <4>1 DEF RowsInv, SessionInv
        <5> QED
          BY <1>5, <1>6, <1>8, <3>1, <5>1
      <4>2. CASE fact.kind = "session_started"
        BY <1>5, <1>8, <3>1, <4>2
      <4> QED
        BY <1>10, <2>1, <3>1, <4>1, <4>2
    <3>2. CASE z # s
      BY <1>7, <1>10, <2>1, <3>2 DEF RowsInv, SessionInv
    <3> QED
      BY <3>1, <3>2
  <2>2. ASSUME NEW z \in Sessions, states'[z] # None PROVE states'[z].session = rows'[z].session
    <3> HIDE DEF n, fact, s, x, c
    <3> QED
      BY <1>1, <1>3, <1>7, <1>8, <2>2 DEF RowsInv, SessionInv
  <2> QED
    BY <2>1, <2>2 DEF SessionInv
<1>13. ReadableInv'
  <2>1. SUFFICES ASSUME NEW z \in Sessions, ~Orphaned(z)', rows'[z].session = None PROVE rows'[z] = Empty
    BY DEF ReadableInv
  <2>2. ~Orphaned(z)
    BY <1>9, <2>1
  <2>3. CASE z # s
    BY <1>7, <2>1, <2>2, <2>3 DEF RowsInv, ReadableInv
  <2>4. CASE z = s
    <3>1. rows'[s] = c /\ x = rows[s] /\ c.session = None /\ x.session = None
      BY <1>5, <1>6, <1>8, <2>1, <2>2, <2>4
    <3>2. x = Empty
      BY <1>3, <2>2, <2>4, <3>1 DEF RowsInv, ReadableInv
    <3>3. fact.kind # "actor_started"
      <4>1. ~Begun(s)
        BY <1>3, <3>1 DEF RowsInv, SessionInv
      <4>2. \A m \in 1..(n - 1) : journal[m].session = s => journal[m].kind # "session_started"
        BY <1>3, <4>1 DEF Begun
      <4> QED
        BY <1>1, <1>3, <2>1, <2>4, <4>2 DEF Orphaned
    <3>4. c = Empty
      BY <1>3, <3>1, <3>2, <3>3, FirstRows
    <3> QED
      BY <2>4, <3>1, <3>4
  <2> QED
    BY <2>3, <2>4
<1>14. RowsAreFolded'
  <2>1. SUFFICES ASSUME NEW z \in Sessions, ~Orphaned(z)' PROVE rows'[z] = (Folded(edits)')[z]
    BY DEF RowsAreFolded
  <2>2. ~Orphaned(z) /\ rows[z] = Folded(edits)[z]
    BY <1>9, <2>1 DEF RowsInv, RowsAreFolded
  <2>3. DOMAIN Folded(edits) = Sessions
    BY <1>3, FoldDomain, FoldedIsFoldTo
  <2>4. Folded(edits)' = [Folded(edits) EXCEPT ![s] = Committed(@, Write(fact, @), e)]
    BY <1>1, <1>7, <1>11 DEF Advance, IsCore
  <2>5. CASE z = s
    <3>1. (Folded(edits)')[z] = Committed(Folded(edits)[s], Write(fact, Folded(edits)[s]), e)
      BY <1>3, <2>3, <2>4, <2>5
    <3> QED
      BY <1>6, <1>8, <2>2, <2>5, <3>1
  <2>6. CASE z # s
    <3>1. (Folded(edits)')[z] = Folded(edits)[z]
      BY <2>3, <2>4, <2>6
    <3> QED
      BY <1>7, <2>2, <2>6, <3>1
  <2> QED
    BY <2>5, <2>6
<1>15. KeptStateIsCommitted'
  <2>1. SUFFICES ASSUME NEW z \in Sessions, ~Orphaned(z)', states'[z] # None PROVE states'[z] = rows'[z]
    BY DEF KeptStateIsCommitted
  <2>2. ~Orphaned(z)
    BY <1>9, <2>1
  <2> HIDE DEF n, fact, s, x, c
  <2> QED
    BY <1>1, <1>7, <1>8, <2>1, <2>2 DEF RowsInv, KeptStateIsCommitted
<1>16. PlainInv'
  <2> DEFINE plain == FoldTo(journal, Untransformed, progress)
  <2> DEFINE next == FoldTo(journal, Untransformed, progress')
  <2>1. plain \in [Sessions -> Aggregates] /\ \A z \in Sessions : ~Orphaned(z) => SameLifecycle(rows[z], plain[z])
    BY DEF RowsInv, PlainInv
  <2>2. next = [plain EXCEPT ![s] = Committed(@, Write(fact, @), Untransformed[n])] /\ Untransformed[n] = Untouched
    BY <1>1, <1>11 DEF Advance, IsCore, Untransformed
  <2> HIDE DEF plain, next
  <2>3. plain[s] \in Aggregates /\ Write(fact, plain[s]) \in Aggregates
    BY <1>3, <2>1, WriteType
  <2>4. next = [plain EXCEPT ![s] = Write(fact, plain[s])]
    BY <2>2, <2>3, NothingToCommit
  <2>5. next \in [Sessions -> Aggregates]
    BY <1>3, <2>1, <2>3, <2>4
  <2>6. ASSUME NEW z \in Sessions, ~Orphaned(z)' PROVE SameLifecycle(rows'[z], next[z])
    <3>1. ~Orphaned(z) /\ SameLifecycle(rows[z], plain[z])
      BY <1>9, <2>1, <2>6
    <3>2. CASE z # s
      BY <1>7, <2>1, <2>4, <3>1, <3>2
    <3>3. CASE z = s
      <4>1. SameLifecycle(Write(fact, x), Write(fact, plain[s]))
        BY <1>3, <1>6, <2>3, <3>1, <3>3, WriteLifecycle
      <4>2. SameLifecycle(c, Write(fact, plain[s]))
        BY <1>5, <4>1 DEF SameLifecycle
      <4>3. next[z] = Write(fact, plain[s])
        BY <1>3, <2>1, <2>4, <3>3
      <4> QED
        BY <1>8, <3>1, <3>3, <4>2, <4>3
    <3> QED
      BY <3>2, <3>3
  <2>7. FoldTo(journal', Untransformed', progress') = next
    BY <1>1, <1>11 DEF next
  <2> QED
    BY <2>5, <2>6, <2>7 DEF PlainInv
<1> QED
  BY <1>12, <1>13, <1>14, <1>15, <1>16 DEF RowsInv

LEMMA RowsStep == TypeOK /\ PageInv /\ RowsInv /\ TypeOK' /\ [Next]_vars => RowsInv'
<1> SUFFICES ASSUME TypeOK, PageInv, RowsInv, TypeOK', [Next]_vars PROVE RowsInv'
  OBVIOUS
<1>1. CASE StoreFact
  BY <1>1, RowsStay DEF StoreFact
<1>2. CASE Drain
  BY <1>2, RowsStay DEF Drain
<1>3. CASE LoadPage
  BY <1>3, RowsStay DEF LoadPage
<1>4. CASE SkipExtension
  BY <1>4, RowsSkip
<1>5. CASE Materialize
  BY <1>5, RowsCommit
<1>6. CASE EndDrain
  BY <1>6, RowsStay DEF EndDrain
<1>7. CASE DrainFails
  BY <1>7, RowsStay DEF DrainFails, Discard
<1>8. CASE Crash
  BY <1>8, RowsStay DEF Crash, Discard
<1>9. CASE Start
  BY <1>9, RowsStay DEF Start
<1>10. CASE Clear
  BY <1>10, RowsClear
<1>11. CASE EndRebuild
  BY <1>11, RowsStay DEF EndRebuild
<1>12. CASE UNCHANGED vars
  BY <1>12, RowsStay DEF vars
<1> QED
  BY <1>1, <1>2, <1>3, <1>4, <1>5, <1>6, <1>7, <1>8, <1>9, <1>10, <1>11, <1>12 DEF Next

LEMMA RowsCorrect == Spec => [](TypeOK /\ PageInv /\ RowsInv)
<1>1. Init => TypeOK /\ PageInv /\ RowsInv
  BY TypeInit, RowsInit
<1>2. TypeOK /\ PageInv /\ RowsInv /\ [Next]_vars => (TypeOK /\ PageInv /\ RowsInv)'
  BY TypeStep, RowsStep
<1> QED
  BY <1>1, <1>2, PTL DEF Spec

(* Wherever pages, drains, failures, restarts and rebuilds fall, the rows   *)
(* are the fold of the facts behind the progress mark, each with what the   *)
(* transforms did to it (session_data_progress.py:53).                      *)
THEOREM RowsFollowTheJournal == Spec => []RowsAreFolded
<1>1. RowsInv => RowsAreFolded
  BY DEF RowsInv
<1> QED
  BY RowsCorrect, <1>1, PTL

(* Between the facts of a page the loop works from the rows that were       *)
(* committed, not from those it proposed (loop_materialization.py:45).      *)
THEOREM LoopKeepsWhatWasCommitted == Spec => []KeptStateIsCommitted
<1>1. RowsInv => KeptStateIsCommitted
  BY DEF RowsInv
<1> QED
  BY RowsCorrect, <1>1, PTL

(* Whatever transforms drop and edit, who runs and who has ended is what    *)
(* the facts alone say (validate_core_drop).                                *)
THEOREM TransformsSpareTheLifecycle == Spec => []LifecycleFollowsFacts
<1>1. PlainInv => LifecycleFollowsFacts
  <2> SUFFICES ASSUME PlainInv, NEW s \in Sessions, ~Orphaned(s)
               PROVE  SameLifecycle(rows[s], Folded([n \in Cursors |-> Untouched])[s])
    BY DEF LifecycleFollowsFacts, SameLifecycle, State
  <2>1. Folded([n \in Cursors |-> Untouched]) = FoldTo(journal, Untransformed, progress)
    BY FoldedIsFoldTo DEF Untransformed
  <2> QED
    BY <2>1 DEF PlainInv
<1>2. RowsInv => LifecycleFollowsFacts
  BY <1>1 DEF RowsInv
<1> QED
  BY RowsCorrect, <1>2, PTL

----
(* The tabs. *)

(* The painter remembers what the tab shows unless a paint failed; what is  *)
(* to be announced is the lead's row; all other rows are on their tabs, or  *)
(* the painter was not told.                                                *)
ShownInv ==
    \A s \in Sessions :
        /\ s \notin refused /\ painted[s] # None => tab[s] = painted[s]
        /\ batch[s] # None => mode = "draining" /\ rows[s].actors[Lead] = batch[s]
        /\ s \notin unpainted \union refused /\ batch[s] = None /\ rows[s].actors[Lead] # None
              => tab[s] = Colour(rows[s].actors[Lead])
        /\ mode = "rebuilding" => s \in unpainted

LEMMA ShownInit == Init => ShownInv
  BY EmptyType, LeadAssumption DEF Init, ShownInv

LEMMA ColourType ==
    ASSUME NEW row \in ActorRows
    PROVE  Colour(row) \in {"idle", "working", "edited", "clear"} /\ Colour(row) # None
  BY RowsDiffer DEF Colour, ActorRows

(* An announcement leaves no row that the tab does not show. *)
LEMMA ShownAnnounce ==
    ASSUME TypeOK, ShownInv, Announce, rows' = rows, mode = "draining", mode' # "rebuilding",
           batch' = [s \in Sessions |-> None]
    PROVE  ShownInv'
<1> DEFINE told == {s \in Sessions : batch[s] # None}
<1>1. PICK missed \in SUBSET told :
          \E failed \in SUBSET {s \in told \ missed : painted[s] # Colour(batch[s])} :
             LET reached == told \ missed
                 repainted == {s \in reached : painted[s] # Colour(batch[s])}
             IN /\ painted' = [s \in Sessions |-> IF s \in reached THEN Colour(batch[s]) ELSE painted[s]]
                /\ tab' = [s \in Sessions |-> IF s \in repainted \ failed THEN Colour(batch[s]) ELSE tab[s]]
                /\ unpainted' = (unpainted \ reached) \union missed
                /\ refused' = (refused \ repainted) \union failed
  BY Zenon DEF Announce
<1> DEFINE reached == told \ missed
           repainted == {s \in reached : painted[s] # Colour(batch[s])}
<1>2. PICK failed \in SUBSET repainted :
             /\ painted' = [s \in Sessions |-> IF s \in reached THEN Colour(batch[s]) ELSE painted[s]]
             /\ tab' = [s \in Sessions |-> IF s \in repainted \ failed THEN Colour(batch[s]) ELSE tab[s]]
             /\ unpainted' = (unpainted \ reached) \union missed
             /\ refused' = (refused \ repainted) \union failed
  BY <1>1, Zenon
<1> SUFFICES ASSUME NEW s \in Sessions
             PROVE  /\ s \notin refused' /\ painted'[s] # None => tab'[s] = painted'[s]
                    /\ s \notin unpainted' \union refused' /\ rows[s].actors[Lead] # None
                          => tab'[s] = Colour(rows[s].actors[Lead])
  BY DEF ShownInv
<1>3. CASE s \in reached
  <2>1. batch[s] \in ActorRows /\ Colour(batch[s]) # None
    BY <1>3, ColourType DEF TypeOK
  <2>2. /\ painted'[s] = Colour(batch[s])
        /\ s \in repainted \ failed => tab'[s] = Colour(batch[s])
        /\ s \notin repainted => tab'[s] = tab[s] /\ painted[s] = Colour(batch[s])
        /\ s \notin refused' => s \notin failed /\ (s \in repainted \/ s \notin refused)
    BY <1>2, <1>3
  <2>3. rows[s].actors[Lead] = batch[s] /\ (s \notin refused /\ painted[s] # None => tab[s] = painted[s])
    BY <1>3 DEF ShownInv
  <2> HIDE DEF told, reached, repainted
  <2> QED
    BY <2>1, <2>2, <2>3
<1>4. CASE s \notin reached
  <2>1. painted'[s] = painted[s] /\ tab'[s] = tab[s] /\ (s \in refused' <=> s \in refused)
    BY <1>2, <1>4
  <2>2. s \in unpainted' \/ (batch[s] = None /\ (s \in unpainted' <=> s \in unpainted))
    BY <1>2, <1>4
  <2> HIDE DEF told, reached, repainted
  <2> QED
    BY <2>1, <2>2 DEF ShownInv
<1> QED
  BY <1>3, <1>4

LEMMA ShownCommit ==
    ASSUME TypeOK, PageInv, ShownInv, Materialize
    PROVE  ShownInv'
<1>1. /\ page # <<>> /\ progress + 1 \in Cursors
      /\ UNCHANGED <<journal, stored, mode, painted, tab, unpainted, refused, failures>>
  BY MaterializeCommits
<1>2. PICK e \in Edits : CommitsWith(e)
  BY MaterializeCommits
<1> DEFINE fact == journal[progress + 1]
<1> DEFINE s == journal[progress + 1].session
<1> DEFINE x == StateOf(s)
<1> DEFINE c == Committed(x, Write(fact, x), e)
<1>3. /\ fact \in Facts /\ s \in Sessions
      /\ x \in Aggregates /\ rows[s] \in Aggregates /\ e \in Operations(x, Write(fact, x))
  BY <1>1, <1>2, JournalType, StateType DEF CommitsWith
<1>4. /\ rows' = [rows EXCEPT ![s] = Saved(rows[s], x, c)]
      /\ batch' = IF mode = "draining" /\ c.actors[Lead] # x.actors[Lead]
                  THEN [batch EXCEPT ![s] = c.actors[Lead]] ELSE batch
  BY <1>2 DEF CommitsWith
<1>5. Lead \in Actors /\ Lead \in Targets
  BY LeadAssumption DEF Targets
<1>6. c \in Aggregates /\ (c.actors[Lead] = None => x.actors[Lead] = None)
  <2>1. /\ c \in Aggregates
        /\ Row(c, Lead) = None => Row(Write(fact, x), Lead) = None
    BY <1>3, <1>5, CommittedType
  <2>2. Row(Write(fact, x), Lead) = None => Row(x, Lead) = None
    BY <1>3, <1>5, WriteType
  <2> HIDE DEF c
  <2> QED
    BY <1>3, <1>5, <2>1, <2>2, RowsOfAggregates
<1>7. /\ rows' \in [Sessions -> Aggregates]
      /\ rows'[s].actors[Lead] = IF c.actors[Lead] = x.actors[Lead] THEN rows[s].actors[Lead]
                                                                    ELSE c.actors[Lead]
      /\ \A z \in Sessions \ {s} : rows'[z] = rows[z]
  <2>1. /\ Saved(rows[s], x, c) \in Aggregates
        /\ Saved(rows[s], x, c).actors[Lead] = IF c.actors[Lead] = x.actors[Lead] THEN rows[s].actors[Lead]
                                                                                  ELSE c.actors[Lead]
    BY <1>3, <1>5, <1>6, SavedType
  <2> HIDE DEF s, x, c
  <2> QED
    BY <1>3, <1>4, <2>1 DEF TypeOK
<1> HIDE DEF fact, s, x, c
<1>8. ASSUME NEW z \in Sessions, batch'[z] = batch[z], rows'[z].actors[Lead] = rows[z].actors[Lead]
      PROVE  /\ z \notin refused' /\ painted'[z] # None => tab'[z] = painted'[z]
             /\ batch'[z] # None => mode' = "draining" /\ rows'[z].actors[Lead] = batch'[z]
             /\ z \notin unpainted' \union refused' /\ batch'[z] = None /\ rows'[z].actors[Lead] # None
                   => tab'[z] = Colour(rows'[z].actors[Lead])
             /\ mode' = "rebuilding" => z \in unpainted'
  BY <1>1, <1>8 DEF ShownInv
<1>9. CASE c.actors[Lead] = x.actors[Lead]
  <2>1. batch' = batch /\ \A z \in Sessions : rows'[z].actors[Lead] = rows[z].actors[Lead]
    BY <1>4, <1>7, <1>9
  <2> QED
    BY <1>8, <2>1 DEF ShownInv
<1>10. CASE c.actors[Lead] # x.actors[Lead] /\ mode = "draining"
  <2>1. c.actors[Lead] # None /\ rows'[s].actors[Lead] = c.actors[Lead]
    BY <1>6, <1>7, <1>10
  <2>2. /\ batch'[s] = c.actors[Lead]
        /\ \A z \in Sessions \ {s} : batch'[z] = batch[z] /\ rows'[z] = rows[z]
    BY <1>3, <1>4, <1>7, <1>10 DEF TypeOK
  <2>3. ASSUME NEW z \in Sessions \ {s}
        PROVE  /\ z \notin refused' /\ painted'[z] # None => tab'[z] = painted'[z]
               /\ batch'[z] # None => mode' = "draining" /\ rows'[z].actors[Lead] = batch'[z]
               /\ z \notin unpainted' \union refused' /\ batch'[z] = None /\ rows'[z].actors[Lead] # None
                     => tab'[z] = Colour(rows'[z].actors[Lead])
               /\ mode' = "rebuilding" => z \in unpainted'
    BY <1>8, <2>2
  <2>4. /\ s \notin refused' /\ painted'[s] # None => tab'[s] = painted'[s]
        /\ mode' = "draining"
    BY <1>1, <1>3, <1>10 DEF ShownInv
  <2> QED
    BY <1>10, <2>1, <2>2, <2>3, <2>4 DEF ShownInv
<1>11. CASE c.actors[Lead] # x.actors[Lead] /\ mode # "draining"
  <2>1. mode = "rebuilding"
    BY <1>1, <1>11 DEF PageInv
  <2>2. \A z \in Sessions : z \in unpainted /\ batch[z] = None
    BY <2>1 DEF ShownInv
  <2>3. batch' = batch
    BY <1>4, <1>11
  <2> QED
    BY <1>1, <2>2, <2>3 DEF ShownInv
<1> QED
  BY <1>9, <1>10, <1>11

LEMMA ShownStep == TypeOK /\ PageInv /\ ShownInv /\ [Next]_vars => ShownInv'
<1> SUFFICES ASSUME TypeOK, PageInv, ShownInv, [Next]_vars PROVE ShownInv'
  OBVIOUS
<1>1. CASE StoreFact
  BY <1>1 DEF StoreFact, ShownInv
<1>2. CASE Drain
  BY <1>2 DEF Drain, ShownInv
<1>3. CASE LoadPage
  BY <1>3 DEF LoadPage, ShownInv
<1>4. CASE SkipExtension
  BY <1>4 DEF SkipExtension, ShownInv
<1>5. CASE Materialize
  BY <1>5, ShownCommit
<1>6. CASE EndDrain
  <2>1. mode' # "rebuilding" /\ mode = "draining"
    BY <1>6 DEF EndDrain
  <2> QED
    BY <1>6, <2>1, ShownAnnounce DEF EndDrain
<1>7. CASE DrainFails
  <2>1. mode' # "rebuilding" /\ mode = "draining"
    BY <1>7 DEF DrainFails
  <2> QED
    BY <1>7, <2>1, ShownAnnounce DEF DrainFails, AnnounceAfterFailure
<1>8. CASE Crash
  BY <1>8 DEF Crash, ShownInv
<1>9. CASE Start
  BY <1>9 DEF Start, ShownInv
<1>10. CASE Clear
  BY <1>10, EmptyType, LeadAssumption DEF Clear, ShownInv
<1>11. CASE EndRebuild
  BY <1>11 DEF EndRebuild, ShownInv
<1>12. CASE UNCHANGED vars
  BY <1>12 DEF vars, ShownInv
<1> QED
  BY <1>1, <1>2, <1>3, <1>4, <1>5, <1>6, <1>7, <1>8, <1>9, <1>10, <1>11, <1>12 DEF Next

(* Whenever no drain runs, a tab shows the state of its session's lead,     *)
(* also after a drain that failed half way, unless the painter was not told *)
(* or did not find the session, or the terminal refused its last paint      *)
(* (TabColorPainter.applied).                                               *)
THEOREM TabsFollowTheLead == Spec => []TabsShowTheLead
<1>1. TypeOK /\ PageInv /\ ShownInv /\ [Next]_vars => (TypeOK /\ PageInv /\ ShownInv)'
  BY TypeStep, ShownStep
<1>2. ShownInv => TabsShowTheLead
  <2> SUFFICES ASSUME ShownInv, mode = "idle", NEW s \in Sessions \ (unpainted \union refused),
                      rows[s].actors[Lead] # None
               PROVE  tab[s] = Colour(rows[s].actors[Lead])
    BY DEF TabsShowTheLead
  <2>1. batch[s] = None
    BY DEF ShownInv
  <2> QED
    BY <2>1 DEF ShownInv
<1> QED
  BY TypeInit, ShownInit, <1>1, <1>2, PTL DEF Spec
====
