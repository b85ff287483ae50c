----------------------------- MODULE ViewerPool -----------------------------
(* What the web terminal promises of the viewers of one session: a responder   *)
(* streams to at most MaxViewers of them at a time, it takes only a viewer     *)
(* that asked for the session, and one whose tab is gone is let go in the end. *)
EXTENDS Naturals, FiniteSets

CONSTANTS Viewer, Responder, MaxViewers

VARIABLES
    asked,    \* the viewers that have opened the session so far
    gone,     \* those of them whose tab is closed
    holders   \* holders[r]: the viewers r streams to

Init == asked = {} /\ gone = {} /\ holders = [r \in Responder |-> {}]

Ask(v) ==
    /\ v \notin asked
    /\ asked' = asked \cup {v}
    /\ UNCHANGED <<gone, holders>>

Leave(V) == V \subseteq asked /\ gone' = gone \cup V /\ UNCHANGED <<asked, holders>>

Take(r, v) ==
    /\ v \in asked \ holders[r]
    /\ Cardinality(holders[r]) < MaxViewers
    /\ holders' = [holders EXCEPT ![r] = @ \cup {v}]
    /\ UNCHANGED <<asked, gone>>

LetGo(r, V) ==
    /\ V \subseteq holders[r]
    /\ holders' = [holders EXCEPT ![r] = @ \ V]
    /\ UNCHANGED <<asked, gone>>

Next ==
    \/ \E v \in Viewer : Ask(v)
    \/ \E V \in SUBSET Viewer : Leave(V)
    \/ \E r \in Responder : \E V \in SUBSET Viewer : LetGo(r, V)
    \/ \E r \in Responder, v \in Viewer : Take(r, v)

Freed(r, v) == v \in gone \cap holders[r] ~> v \notin holders[r]

Spec ==
    /\ Init /\ [][Next]_<<asked, gone, holders>>
    /\ \A r \in Responder, v \in Viewer : Freed(r, v)
=============================================================================
