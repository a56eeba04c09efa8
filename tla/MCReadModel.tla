---- MODULE MCReadModel ----
(* Two sessions, a lead and a second actor; extension facts between them. *)
EXTENDS ReadModel

CONSTANTS s1, s2, lead, helper

MCSessions == {s1, s2}
MCActors == {lead, helper}

Fact(kind, session, actor) == [kind |-> kind, session |-> session, actor |-> actor]

(* A session with two actors that ends; another one in between. *)
Ending == <<Fact("session_started", s1, lead), Fact("actor_started", s1, lead),
            Fact("extension", s1, lead), Fact("reasoning", s1, lead),
            Fact("actor_started", s1, helper), Fact("session_finished", s1, lead)>>
Mixed == <<Fact("session_started", s1, lead), Fact("session_started", s2, lead),
           Fact("actor_started", s1, lead), Fact("extension", s2, lead),
           Fact("account_changed", s1, lead), Fact("reasoning", s1, lead)>>
(* A session that resumes after its end. *)
Resuming == <<Fact("session_started", s1, lead), Fact("actor_started", s1, lead),
              Fact("session_finished", s1, lead), Fact("session_started", s1, lead),
              Fact("actor_started", s1, lead), Fact("actor_finished", s1, lead)>>
(* An actor announced before its session. *)
Early == <<Fact("actor_started", s1, lead), Fact("session_started", s1, lead),
           Fact("reasoning", s1, lead)>>

MCScripts == {Ending, Mixed, Resuming, Early}
====
