----------------------------- MODULE ProcessSlots -----------------------------
(***************************************************************************)
(* The two numbers every process gets, its pid and the index of its task   *)
(* segment in the GDT, and the descriptor at that index, which a context   *)
(* switch jumps through (ProcessManager::spawn and fillGDT, the deleter,   *)
(* process/bitmap.h, boot/loader.s).                                       *)
(***************************************************************************)
EXTENDS Integers, FiniteSets

CONSTANTS
    NumProcesses,   \* gNumProcesses: 2000
    NumSystem,      \* __numsysgdtentries: 6
    Nobody

ASSUME SlotsAssumption ==
    /\ NumProcesses \in Nat /\ NumSystem \in Nat \ {0}
    /\ NumProcesses > NumSystem

VARIABLES
    pids,           \* gPidBitmap: the pids in use
    firstPid,       \* its mFirstIndexToTry
    indices,        \* gGDTBitmap: the GDT indices in use
    firstIndex,     \* its mFirstIndexToTry
    gdtidx,         \* process_t::gdtidx, by pid
    gdt,            \* whose descriptor each GDT entry holds
    spawned,        \* processes created since boot
    panic           \* "out of process entries"

slotVars == <<pids, firstPid, indices, firstIndex, gdtidx, gdt, spawned, panic>>

Bit == 0..(NumProcesses - 1)

\* The GDT: the system's entries and 2000 more.
Entry == 0..(NumSystem + NumProcesses - 1)

\* ProcessBitmap::next: the first free bit from where the last search ended.
\* The mutant tries one bit less.
NextBitShort(used, first) ==
    LET free == {i \in 0..(NumProcesses - 2) : (first + i) % NumProcesses \notin used}
    IN {(first + i) % NumProcesses : i \in {i \in free : \A j \in free : i <= j}}
NextBit(used, first) ==
    LET free == {i \in Bit : (first + i) % NumProcesses \notin used}
    IN {(first + i) % NumProcesses : i \in {i \in free : \A j \in free : i <= j}}

\* The idle process has been set up, with the first pid and the first index
\* behind the system's.  The mutant forgets to reserve those.
ReservedNone == {}
Reserved == 0..(NumSystem - 1)

Idle == 0

SlotsInit ==
    /\ pids = {Idle}
    /\ firstPid = 1
    /\ \E i \in NextBit(Reserved, 0) :
          /\ indices = Reserved \cup {i}
          /\ firstIndex = i + 1
          /\ gdtidx = [p \in Bit |-> IF p = Idle THEN i ELSE Nobody]
          /\ gdt = [e \in Entry |-> IF e = i THEN Idle ELSE Nobody]
    /\ spawned = 1
    /\ panic = FALSE

\* Bound: more spawns than this are not counted.
MaxSpawned == NumProcesses

Spawn ==
    /\ ~panic
    /\ \E p \in NextBit(pids, firstPid), i \in NextBit(indices, firstIndex) :
          /\ pids' = pids \cup {p}
          /\ firstPid' = p + 1
          /\ indices' = indices \cup {i}
          /\ firstIndex' = i + 1
          /\ gdtidx' = [gdtidx EXCEPT ![p] = i]
          /\ gdt' = [gdt EXCEPT ![i] = p]
    /\ spawned' = IF spawned < MaxSpawned THEN spawned + 1 ELSE spawned
    /\ UNCHANGED panic

SpawnFails ==
    /\ ~panic
    /\ NextBit(pids, firstPid) = {} \/ NextBit(indices, firstIndex) = {}
    /\ panic' = TRUE
    /\ UNCHANGED <<pids, firstPid, indices, firstIndex, gdtidx, gdt, spawned>>

\* The entry the deleter clears for a process.
Cleared(p) == p + NumSystem

\* The deleter buries a collected process.  The mutant does not free the index.
FreedNone(p) == indices
Freed(p) == indices \ {gdtidx[p]}

Delete(p) ==
    /\ ~panic
    /\ p \in pids \ {Idle}
    /\ gdt' = [gdt EXCEPT ![Cleared(p)] = Nobody]
    /\ pids' = pids \ {p}
    /\ indices' = Freed(p)
    /\ gdtidx' = [gdtidx EXCEPT ![p] = Nobody]
    /\ UNCHANGED <<firstPid, firstIndex, spawned, panic>>

SlotsNext == Spawn \/ SpawnFails \/ \E p \in Bit : Delete(p)

SlotsSpec == SlotsInit /\ [][SlotsNext]_slotVars

(***************************************************************************)
(* Properties.                                                             *)
(***************************************************************************)
\* Living processes have GDT indices of their own, never one of the system's
\* descriptors, and the bitmaps know exactly which: no spawn overwrites a
\* descriptor that is in use.
IndicesOwned ==
    /\ indices = Reserved \cup {gdtidx[p] : p \in pids}
    /\ \A p \in pids : gdtidx[p] >= NumSystem
    /\ \A p, q \in pids : gdtidx[p] = gdtidx[q] => p = q

\* The searches find what is free: the PANIC for want of entries comes only when
\* every index behind the system's is in use.  And until the search for a GDT index
\* wraps around, pids and indices advance together: the entry the deleter clears is
\* the process's own, and the entry a living process is switched to through holds
\* its descriptor.
SlotsFound ==
    /\ panic => Cardinality(pids) = NumProcesses - NumSystem
    /\ spawned <= NumProcesses - NumSystem =>
          \A p \in pids : gdtidx[p] = Cleared(p) /\ gdt[gdtidx[p]] = p
===============================================================================
