----------------------------- MODULE ProcessLife ------------------------------
(***************************************************************************)
(* What process management promises, without schedulers, queues or system  *)
(* tasks: a slot goes from free to live to zombie to reaped and back, a    *)
(* child always has a live parent, and only that parent reaps it.          *)
(* ProcessManager implements this specification.                           *)
(***************************************************************************)
CONSTANTS
    Slot,           \* slots of ordinary processes
    System,         \* processes that never end
    Orphanage,      \* the one of them that adopts orphans
    NoParent

ASSUME LifeAssumption ==
    /\ Orphanage \in System
    /\ Slot \cap System = {}
    /\ NoParent \notin Slot \cup System

VARIABLES
    life,           \* stage of each slot
    parent          \* parent of each live or zombie slot

lifeVars == <<life, parent>>

Living == System \cup {c \in Slot : life[c] = "live"}

LifeInit ==
    /\ life = [c \in Slot |-> "free"]
    /\ parent = [c \in Slot |-> NoParent]

\* A live process gives birth in a free slot.
Birth(p, c) ==
    /\ p \in Living
    /\ life[c] = "free"
    /\ life' = [life EXCEPT ![c] = "live"]
    /\ parent' = [parent EXCEPT ![c] = p]

\* Where the children of p go when p dies.  The mutant leaves the zombies.
OrphansOfLiving(p) == {c \in Slot : parent[c] = p /\ life[c] = "live"}
Orphans(p) == {c \in Slot : parent[c] = p}

\* A live process dies; its children, dead ones too, become orphans at once.
Death(p) ==
    /\ life[p] = "live"
    /\ life' = [life EXCEPT ![p] = "zombie"]
    /\ parent' = [c \in Slot |-> IF c \in Orphans(p) THEN Orphanage ELSE parent[c]]

\* A zombie is reaped by its parent.
Reap(p, c) ==
    /\ p \in Living
    /\ life[c] = "zombie"
    /\ parent[c] = p
    /\ life' = [life EXCEPT ![c] = "reaped"]
    /\ parent' = [parent EXCEPT ![c] = NoParent]

\* Reaped slots become free again.
Release ==
    /\ \E c \in Slot : life[c] = "reaped"
    /\ life' = [c \in Slot |-> IF life[c] = "reaped" THEN "free" ELSE life[c]]
    /\ UNCHANGED parent

LifeNext ==
    \/ \E p \in Slot \cup System : \E c \in Slot : Birth(p, c) \/ Reap(p, c)
    \/ \E p \in Slot : Death(p)
    \/ Release

LifeSpec == LifeInit /\ [][LifeNext]_lifeVars

LifeTypeOK ==
    /\ life \in [Slot -> {"free", "live", "zombie", "reaped"}]
    /\ parent \in [Slot -> Slot \cup System \cup {NoParent}]

\* Nobody is the child of a process that is dead or gone: the parent of a live
\* or zombie slot lives, however slots are reused.
ParentsLive ==
    \A c \in Slot :
        IF life[c] \in {"live", "zombie"} THEN parent[c] \in Living
        ELSE parent[c] = NoParent
===============================================================================
