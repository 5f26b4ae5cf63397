-------------------------- MODULE BookkeepingProofs ---------------------------
(***************************************************************************)
(* The process manager's bookkeeping: slices are bounded, for any number   *)
(* of processes, any maximum quantum and any width of the tick counter     *)
(* (the code's are 255 at most, and 2^8); no two processes share a GDT     *)
(* index and the searches find every free one, for any number of slots and *)
(* of system descriptors; the parent of a process lives, for any set of    *)
(* slots; tick handlers run on schedule, for any set of periods; and the   *)
(* lottery's odds follow the tickets, for any set of processes and any     *)
(* maximum of tickets.                                                     *)
(***************************************************************************)
EXTENDS Quantum, ProcessSlots, ProcessLife, TickHandlers, Lottery,
        FiniteSetTheorems, WellFoundedInduction, TLAPS

(***************************************************************************)
(* Slices.                                                                 *)
(***************************************************************************)
QuantumInv == TypeOK /\ SliceCounted

\* Processes start in user code, with nothing charged (process_t's constructor).
LEMMA InitQuantumInv == Init => QuantumInv
  BY QuantumAssumption DEF Init, QuantumInv, TypeOK, SliceCounted

\* The counter that tickForSchedule advances stays within its width.
LEMMA UsedInRange ==
  ASSUME TypeOK, NEW p \in Process
  PROVE  /\ Used(p) \in 0..(Width - 1)
         /\ Used(p) = usedticks[p] + 1 \/ Used(p) = 0
  <1>1. usedticks[p] \in 0..(Width - 1) /\ Width \in Nat /\ Width > 0
    BY QuantumAssumption DEF TypeOK
  <1>2. CASE usedticks[p] = Width - 1
    BY <1>1, <1>2 DEF Used
  <1>3. CASE usedticks[p] < Width - 1
    BY <1>1, <1>3 DEF Used
  <1>4. QED BY <1>1, <1>2, <1>3

\* A tick charges the running process, and marks or dismisses it at the end of
\* its quantum (ProcessManager::tickForSchedule).
LEMMA TickKeeps ==
  ASSUME QuantumInv, NEW p \in Process, TickForSchedule(p)
  PROVE  QuantumInv'
  <1>1. TypeOK /\ SliceCounted /\ current = p /\ p # None
    BY QuantumAssumption, Zenon DEF QuantumInv, TickForSchedule
  <1>2. Used(p) \in 0..(Width - 1) /\ (Used(p) = usedticks[p] + 1 \/ Used(p) = 0)
    BY <1>1, UsedInRange, Zenon
  <1>3. usedticks' = [usedticks EXCEPT ![p] = Used(p)] /\ UNCHANGED <<mode, quantum>>
    BY Zenon DEF TickForSchedule
  <1>4. Longer \in Nat /\ (Longer = slice + 1 \/ (Longer = slice /\ slice > 0))
    <2>1. slice \in Nat /\ MaxSlice \in Nat /\ MaxSlice > 0
      BY <1>1, QuantumAssumption DEF TypeOK, MaxSlice
    <2>2. CASE slice < MaxSlice
      BY <2>1, <2>2 DEF Longer
    <2>3. CASE ~(slice < MaxSlice)
      BY <2>1, <2>3 DEF Longer
    <2>4. QED BY <2>2, <2>3, Zenon
  <1>5. CASE Expired(p) /\ mode[p] = "user" /\ Yield /\ UNCHANGED due
    BY <1>1, <1>2, <1>3, <1>5, QuantumAssumption, Zenon DEF TypeOK, SliceCounted, Yield, QuantumInv
  <1>6. CASE Expired(p) /\ mode[p] # "user" /\ due' = Marked(p) /\ slice' = Longer /\ UNCHANGED current
    <2>1. TypeOK'
      BY <1>1, <1>2, <1>3, <1>4, <1>6, Zenon DEF TypeOK, Marked
    <2>2. SliceCounted'
      BY <1>1, <1>3, <1>6, Zenon DEF TypeOK, SliceCounted, Marked
    <2>3. QED BY <2>1, <2>2, Zenon DEF QuantumInv
  <1>7. CASE ~Expired(p) /\ slice' = Longer /\ UNCHANGED <<current, due>>
    <2>1. TypeOK'
      BY <1>1, <1>2, <1>3, <1>4, <1>7, Zenon DEF TypeOK
    <2>2. Used(p) < MaxQuantum
      BY <1>1, <1>2, <1>7, QuantumAssumption DEF TypeOK, Expired
    <2>3. due[p] = FALSE => slice' <= Used(p) + 1
      <3>1. due[p] = FALSE /\ slice > 0 => usedticks[p] < MaxQuantum /\ slice <= usedticks[p] + 1
        BY <1>1, Zenon DEF SliceCounted
      <3>2. usedticks[p] \in Nat /\ slice \in Nat /\ usedticks[p] < Width
        BY <1>1, QuantumAssumption DEF TypeOK
      <3>3. Used(p) = 0 => usedticks[p] + 1 = Width
        BY <3>2, <1>2, QuantumAssumption DEF Used
      <3>4. CASE Used(p) = usedticks[p] + 1
        BY <3>1, <3>2, <3>4, <1>4, <1>7
      <3>5. CASE Used(p) = 0
        BY <3>1, <3>2, <3>3, <3>5, <1>4, <1>7, QuantumAssumption
      <3>6. QED BY <3>4, <3>5, <1>2, Zenon
    <2>4. SliceCounted'
      BY <1>1, <1>3, <1>7, <2>2, <2>3, Zenon DEF TypeOK, SliceCounted
    <2>5. QED BY <2>1, <2>4, Zenon DEF QuantumInv
  <1>8. QED BY <1>1, <1>5, <1>6, <1>7, Zenon DEF TickForSchedule

\* Choosing a process clears its mark (the scheduler task).
LEMMA DispatchKeeps ==
  ASSUME QuantumInv, NEW p \in Process, Dispatch(p)
  PROVE  QuantumInv'
  BY DEF QuantumInv, TypeOK, SliceCounted, Dispatch

\* A marked process leaves the CPU when its system call returns, and a blocked
\* one at once (syscall_irq_handler, WaitQueue::yield, prioritize).
LEMMA KernelKeeps ==
  ASSUME QuantumInv, NEW p \in Process,
         Enter(p) \/ Block(p) \/ SyscallReturn(p)
             \/ \E r \in Process, n \in 1..MaxQuantum : Prioritize(p, r, n)
  PROVE  QuantumInv'
  <1>1. CASE Enter(p)
    BY <1>1, Zenon DEF QuantumInv, TypeOK, SliceCounted, Enter
  <1>2. CASE Block(p)
    BY <1>2, QuantumAssumption, Zenon DEF QuantumInv, TypeOK, SliceCounted, Block, Yield
  <1>3. CASE SyscallReturn(p)
    BY <1>3, QuantumAssumption DEF QuantumInv, TypeOK, SliceCounted, SyscallReturn, Yield
  <1>4. CASE \E r \in Process, n \in 1..MaxQuantum : Prioritize(p, r, n)
    BY <1>4 DEF QuantumInv, TypeOK, SliceCounted, Prioritize
  <1>5. QED BY <1>1, <1>2, <1>3, <1>4, Zenon

LEMMA NextKeeps == QuantumInv /\ [Next]_vars => QuantumInv'
  <1>1. ASSUME QuantumInv, Next PROVE QuantumInv'
    BY <1>1, TickKeeps, DispatchKeeps, KernelKeeps, Zenon DEF Next
  <1>2. ASSUME QuantumInv, UNCHANGED vars PROVE QuantumInv'
    BY <1>2, Zenon DEF QuantumInv, TypeOK, SliceCounted, vars
  <1>3. QED BY <1>1, <1>2, Zenon

\* The invariant of time slices: see SliceCounted.
THEOREM QuantumInvHolds == Spec => []QuantumInv
  BY InitQuantumInv, NextKeeps, PTL DEF Spec

\* A process in user code has been charged at most MaxQuantum ticks since it was
\* chosen, although tickForSchedule never resets usedticks.
THEOREM SlicesAreBounded == Spec => []SliceBounded
  <1>1. QuantumInv => SliceBounded
    <2>1. SUFFICES ASSUME QuantumInv, NEW p \in Process, current = p, mode[p] = "user"
                   PROVE  slice <= MaxQuantum
      BY Zenon DEF SliceBounded
    <2>2. slice > 0 => usedticks[p] < MaxQuantum /\ slice <= usedticks[p] + 1
      BY <2>1, Zenon DEF QuantumInv, SliceCounted
    <2>3. slice \in Nat /\ usedticks[p] \in Nat /\ MaxQuantum \in Nat
      BY <2>1, QuantumAssumption DEF QuantumInv, TypeOK
    <2>4. QED BY <2>2, <2>3
  <1>2. QED BY <1>1, QuantumInvHolds, PTL

(***************************************************************************)
(* Pids and GDT indices.                                                   *)
(***************************************************************************)
\* The types, and that pids without a process have no index.
SlotsTypeOK ==
    /\ pids \subseteq Bit
    /\ firstPid \in Nat
    /\ indices \subseteq Bit
    /\ firstIndex \in Nat
    /\ gdtidx \in [Bit -> Bit \cup {Nobody}]
    /\ \A p \in pids : gdtidx[p] \in Bit

SlotsInv == SlotsTypeOK /\ IndicesOwned

\* ProcessBitmap::next returns a bit of the map that was free.
LEMMA NextBitIsFree ==
  ASSUME NEW used, NEW first \in Nat, NEW b \in NextBit(used, first)
  PROVE  b \in Bit /\ b \notin used
  <1>1. PICK i \in Bit : b = (first + i) % NumProcesses /\ b \notin used
    BY Zenon DEF NextBit
  <1>2. (first + i) % NumProcesses \in 0..(NumProcesses - 1)
    BY SlotsAssumption DEF Bit
  <1>3. QED BY <1>1, <1>2, Zenon DEF Bit

LEMMA InitSlotsInv == SlotsInit => SlotsInv
  <1> SUFFICES ASSUME SlotsInit PROVE SlotsInv
    BY Zenon
  <1>1. PICK i \in NextBit(Reserved, 0) :
          /\ indices = Reserved \cup {i}
          /\ firstIndex = i + 1
          /\ gdtidx = [p \in Bit |-> IF p = Idle THEN i ELSE Nobody]
    BY Zenon DEF SlotsInit
  <1>2. i \in Bit /\ i \notin Reserved
    BY NextBitIsFree, Zenon
  <1>3. Idle \in Bit /\ pids = {Idle} /\ firstPid = 1 /\ Reserved \subseteq Bit
    BY SlotsAssumption DEF SlotsInit, Idle, Bit, Reserved
  <1>4. SlotsTypeOK
    BY <1>1, <1>2, <1>3, SlotsAssumption DEF SlotsTypeOK, Bit
  <1>5. IndicesOwned
    BY <1>1, <1>2, <1>3, SlotsAssumption DEF IndicesOwned, Bit, Reserved
  <1>6. QED BY <1>4, <1>5, Zenon DEF SlotsInv

\* A new process gets an index nobody has (ProcessManager::spawn, fillGDT).
LEMMA SpawnKeeps == SlotsInv /\ Spawn => SlotsInv'
  <1> SUFFICES ASSUME SlotsInv, Spawn PROVE SlotsInv'
    BY Zenon
  <1>1. SlotsTypeOK /\ IndicesOwned
    BY Zenon DEF SlotsInv
  <1>2. PICK p \in NextBit(pids, firstPid), i \in NextBit(indices, firstIndex) :
          /\ pids' = pids \cup {p}
          /\ firstPid' = p + 1
          /\ indices' = indices \cup {i}
          /\ firstIndex' = i + 1
          /\ gdtidx' = [gdtidx EXCEPT ![p] = i]
    BY Zenon DEF Spawn
  <1>3. p \in Bit /\ p \notin pids /\ i \in Bit /\ i \notin indices
    BY <1>1, NextBitIsFree, Zenon DEF SlotsTypeOK
  <1>4. SlotsTypeOK'
    BY <1>1, <1>2, <1>3, SlotsAssumption DEF SlotsTypeOK, Bit
  <1>5. gdtidx'[p] = i /\ \A q \in pids : gdtidx'[q] = gdtidx[q]
    BY <1>1, <1>2, <1>3, Zenon DEF SlotsTypeOK
  <1>6. i >= NumSystem
    BY <1>1, <1>3, SlotsAssumption DEF IndicesOwned, Reserved, Bit
  <1>7. IndicesOwned'
    <2>1. indices' = Reserved \cup {gdtidx'[q] : q \in pids'}
      BY <1>1, <1>2, <1>5 DEF IndicesOwned
    <2>2. \A q \in pids' : gdtidx'[q] >= NumSystem
      BY <1>1, <1>2, <1>5, <1>6, Zenon DEF IndicesOwned
    <2>3. \A q, r \in pids' : gdtidx'[q] = gdtidx'[r] => q = r
      BY <1>1, <1>2, <1>3, <1>5 DEF IndicesOwned
    <2>4. QED BY <2>1, <2>2, <2>3, Zenon DEF IndicesOwned, Reserved
  <1>8. QED BY <1>4, <1>7, Zenon DEF SlotsInv

\* The deleter frees the index with the pid.
LEMMA DeleteKeeps == ASSUME SlotsInv, NEW p \in Bit, Delete(p) PROVE SlotsInv'
  <1>1. SlotsTypeOK /\ IndicesOwned
    BY Zenon DEF SlotsInv
  <1>2. p \in pids /\ pids' = pids \ {p} /\ indices' = indices \ {gdtidx[p]}
    BY Zenon DEF Delete, Freed
  <1>3. gdtidx' = [gdtidx EXCEPT ![p] = Nobody] /\ UNCHANGED <<firstPid, firstIndex>>
    BY Zenon DEF Delete
  <1>4. \A q \in pids' : gdtidx'[q] = gdtidx[q] /\ gdtidx[q] # gdtidx[p]
    BY <1>1, <1>2, <1>3, Zenon DEF SlotsTypeOK, IndicesOwned
  <1>5. SlotsTypeOK'
    BY <1>1, <1>2, <1>3, <1>4, Zenon DEF SlotsTypeOK
  <1>6. gdtidx[p] \notin Reserved
    BY <1>1, <1>2, SlotsAssumption DEF IndicesOwned, Reserved, SlotsTypeOK, Bit
  <1>7. indices' = Reserved \cup {gdtidx'[q] : q \in pids'}
    BY <1>1, <1>2, <1>4, <1>6 DEF IndicesOwned
  <1>8. /\ \A q \in pids' : gdtidx'[q] >= NumSystem
        /\ \A q, r \in pids' : gdtidx'[q] = gdtidx'[r] => q = r
    BY <1>1, <1>2, <1>4 DEF IndicesOwned
  <1>9. QED BY <1>5, <1>7, <1>8, Zenon DEF SlotsInv, IndicesOwned, Reserved

\* Living processes have GDT indices of their own, never one of the system's:
\* the bitmap, spawn and the deleter agree.
THEOREM IndicesAlwaysOwned == SlotsSpec => []IndicesOwned
  <1>1. SlotsInv /\ [SlotsNext]_slotVars => SlotsInv'
    <2>1. ASSUME SlotsInv, SpawnFails \/ UNCHANGED slotVars PROVE SlotsInv'
      BY <2>1, Zenon DEF SlotsInv, SlotsTypeOK, IndicesOwned, SpawnFails, slotVars, Reserved, Bit
    <2>2. QED BY <2>1, SpawnKeeps, DeleteKeeps, Zenon DEF SlotsNext
  <1>2. SlotsInv => IndicesOwned
    BY Zenon DEF SlotsInv
  <1>3. QED BY InitSlotsInv, <1>1, <1>2, PTL DEF SlotsSpec

(***************************************************************************)
(* Lives.                                                                  *)
(***************************************************************************)
LifeInv == LifeTypeOK /\ ParentsLive

LEMMA LifeInvInit == LifeInit => LifeInv
BY Zenon DEF LifeInit, LifeInv, LifeTypeOK, ParentsLive

LEMMA LifeInvNext == LifeInv /\ [LifeNext]_lifeVars => LifeInv'
<1> SUFFICES ASSUME LifeInv, [LifeNext]_lifeVars PROVE LifeInv'
    BY Zenon
<1> USE LifeAssumption DEF LifeInv, LifeTypeOK, ParentsLive, Living
<1>1. ASSUME NEW p \in Slot \cup System, NEW c \in Slot, Birth(p, c) PROVE LifeInv'
  BY <1>1, Zenon DEF Birth
<1>2. ASSUME NEW p \in Slot \cup System, NEW c \in Slot, Reap(p, c) PROVE LifeInv'
  BY <1>2, Zenon DEF Reap
<1>3. ASSUME NEW p \in Slot, Death(p) PROVE LifeInv'
  BY <1>3, Zenon DEF Death, Orphans
<1>4. CASE Release
  BY <1>4, Zenon DEF Release
<1>5. CASE UNCHANGED lifeVars
  BY <1>5, Zenon DEF lifeVars
<1> QED
  BY <1>1, <1>2, <1>3, <1>4, <1>5, Zenon DEF LifeNext

\* The stages and parents of slots keep their types.
THEOREM LifeTypeCorrect == LifeSpec => []LifeTypeOK
BY LifeInvInit, LifeInvNext, PTL DEF LifeSpec, LifeInv

\* However slots are reused, the parent of a live or zombie slot lives.
THEOREM ParentsAlwaysLive == LifeSpec => []ParentsLive
BY LifeInvInit, LifeInvNext, PTL DEF LifeSpec, LifeInv

(***************************************************************************)
(* The searches find every free slot.                                      *)
(***************************************************************************)
\* A nonempty set of natural numbers has a least element.
LEMMA LeastNatural ==
  ASSUME NEW S \in SUBSET Nat, S # {}
  PROVE  \E m \in S : \A n \in S : m <= n
  <1> DEFINE R == OpToRel(<, Nat)
  <1>1. IsWellFoundedOn(R, Nat)
    BY NatLessThanWellFounded, Zenon
  <1>2. \A x, y \in Nat : <<y, x>> \in R <=> y < x
    BY Zenon DEF OpToRel
  <1> HIDE DEF R
  <1>3. PICK x \in S : \A y \in S : ~(<<y, x>> \in R)
    BY <1>1, WFMin, Zenon
  <1>4. \A y \in S : y \in Nat /\ x \in Nat
    BY Zenon
  <1>5. \A y \in S : ~(y < x)
    BY <1>2, <1>3, <1>4, Zenon
  <1>6. QED BY <1>4, <1>5

\* Remainders of numbers that are at most one round too large.
LEMMA Remainders ==
  ASSUME NEW n \in Nat \ {0}, NEW x \in 0..(n - 1)
  PROVE  x % n = x /\ (x + n) % n = x
  OBVIOUS

\* ProcessBitmap::next looks at every bit, wherever it starts.
LEMMA NextBitLooksEverywhere ==
  ASSUME NEW used, NEW first \in 0..NumProcesses, NextBit(used, first) = {}
  PROVE  Bit \subseteq used
  <1> DEFINE free == {i \in Bit : (first + i) % NumProcesses \notin used}
  <1>1. NumProcesses \in Nat \ {0} /\ Bit \subseteq Nat
    BY SlotsAssumption DEF Bit
  <1>2. free = {}
    <2>1. ASSUME free # {} PROVE FALSE
      <3>1. PICK m \in free : \A n \in free : m <= n
        BY <1>1, <2>1, LeastNatural, Zenon
      <3>2. (first + m) % NumProcesses \in NextBit(used, first)
        BY <3>1, Zenon DEF NextBit
      <3>3. QED BY <3>2, Zenon
    <2>2. QED BY <2>1, Zenon
  <1>3. ASSUME NEW b \in Bit PROVE b \in used
    <2>1. b \in 0..(NumProcesses - 1)
      BY Zenon DEF Bit
    <2>2. b % NumProcesses = b /\ (b + NumProcesses) % NumProcesses = b
      BY <1>1, <2>1, Remainders, Zenon
    <2>3. CASE b >= first
      <3>1. b - first \in Bit /\ first + (b - first) = b
        BY <1>1, <2>1, <2>3 DEF Bit
      <3>2. QED BY <1>2, <2>2, <3>1, Zenon
    <2>4. CASE b < first
      <3>1. b + NumProcesses - first \in Bit /\ first + (b + NumProcesses - first) = b + NumProcesses
        BY <1>1, <2>1, <2>4 DEF Bit
      <3>2. QED BY <1>2, <2>2, <3>1, Zenon
    <2>5. QED BY <1>1, <2>1, <2>3, <2>4
  <1>4. QED BY <1>3, Zenon

\* And it takes the bit it starts from when that one is free.
LEMMA NextBitStartsAtFirst ==
  ASSUME NEW used, NEW first \in Bit, first \notin used
  PROVE  NextBit(used, first) = {first}
  <1> DEFINE free == {i \in Bit : (first + i) % NumProcesses \notin used}
             least == {i \in free : \A j \in free : i <= j}
  <1>1. NumProcesses \in Nat \ {0} /\ first \in 0..(NumProcesses - 1) /\ 0 \in Bit
    BY SlotsAssumption DEF Bit
  <1>2. (first + 0) % NumProcesses = first
    BY <1>1, Remainders
  <1>3. 0 \in free /\ \A i \in free : i >= 0 /\ i \in Int
    BY <1>1, <1>2 DEF Bit
  <1>4. least = {0}
    BY <1>3
  <1>5. NextBit(used, first) = {(first + i) % NumProcesses : i \in least}
    BY Zenon DEF NextBit
  <1>6. QED BY <1>2, <1>4, <1>5

\* Before the searches wrap around, both hand out the numbers in order.
InOrder ==
    /\ firstPid = spawned /\ firstIndex = NumSystem + spawned
    /\ pids \subseteq 0..(spawned - 1)
    /\ indices \subseteq 0..(NumSystem + spawned - 1)
    /\ \A p \in pids : gdtidx[p] = Cleared(p) /\ gdt[Cleared(p)] = p

\* What SlotsFound rests on: as many indices as pids are in use, besides the
\* system's, and a panic leaves the bitmap of indices full.
FoundInv ==
    /\ SlotsInv
    /\ firstPid \in 0..NumProcesses /\ firstIndex \in 0..NumProcesses
    /\ spawned \in Nat /\ gdt \in [Entry -> Bit \cup {Nobody}]
    /\ Cardinality(indices) = NumSystem + Cardinality(pids)
    /\ panic => indices = Bit
    /\ spawned <= NumProcesses - NumSystem => InOrder

\* How many bits a map has, and that all its subsets are finite.
LEMMA BitCount ==
  /\ Cardinality(Bit) = NumProcesses /\ IsFiniteSet(Bit)
  /\ \A S \in SUBSET Bit : IsFiniteSet(S) /\ Cardinality(S) \in Nat
                           /\ Cardinality(S) <= NumProcesses
  <1>1. Cardinality(Bit) = NumProcesses /\ IsFiniteSet(Bit)
    BY SlotsAssumption, FS_Interval DEF Bit
  <1>2. ASSUME NEW S \in SUBSET Bit
        PROVE  IsFiniteSet(S) /\ Cardinality(S) \in Nat /\ Cardinality(S) <= NumProcesses
    BY <1>1, FS_Subset, FS_CardinalityType, Zenon
  <1>3. QED BY <1>1, <1>2, Zenon

\* The idle process has the first of both numbers.
LEMMA InitFoundInv == SlotsInit => FoundInv
  <1> SUFFICES ASSUME SlotsInit PROVE FoundInv
    BY Zenon
  <1>1. SlotsInv
    BY InitSlotsInv, Zenon
  <1>2. PICK i \in NextBit(Reserved, 0) :
          /\ indices = Reserved \cup {i}
          /\ firstIndex = i + 1
          /\ gdtidx = [p \in Bit |-> IF p = Idle THEN i ELSE Nobody]
          /\ gdt = [e \in Entry |-> IF e = i THEN Idle ELSE Nobody]
    BY Zenon DEF SlotsInit
  <1>3. /\ pids = {Idle} /\ firstPid = 1 /\ spawned = 1 /\ panic = FALSE
        /\ NumProcesses \in Nat /\ NumSystem \in Nat /\ NumSystem > 0
        /\ NumProcesses > NumSystem /\ Idle = 0 /\ Idle \in Bit
    BY SlotsAssumption DEF SlotsInit, Idle, Bit
  <1>4. i = NumSystem
    <2> DEFINE free == {j \in Bit : (0 + j) % NumProcesses \notin Reserved}
    <2>1. \A j \in Bit : (0 + j) % NumProcesses = j
      BY <1>3, Remainders DEF Bit
    <2>2. free = NumSystem..(NumProcesses - 1)
      BY <1>3, <2>1 DEF Bit, Reserved
    <2>3. PICK j \in free : i = (0 + j) % NumProcesses /\ \A k \in free : j <= k
      BY Zenon DEF NextBit
    <2>4. NumSystem \in free
      BY <1>3, <2>2
    <2>5. j = NumSystem
      BY <1>3, <2>2, <2>3, <2>4
    <2>6. QED BY <2>1, <2>3, <2>5, Zenon
  <1>5. Cardinality(indices) = NumSystem + Cardinality(pids)
    <2>1. IsFiniteSet(Reserved) /\ Cardinality(Reserved) = NumSystem
      BY <1>3, FS_Interval DEF Reserved
    <2>2. i \notin Reserved
      BY <1>3, <1>4 DEF Reserved
    <2>3. Cardinality(Reserved \cup {i}) = NumSystem + 1
      BY <2>1, <2>2, FS_AddElement, Zenon
    <2>4. Cardinality(pids) = 1
      BY <1>3, FS_Singleton, Zenon
    <2>5. QED BY <1>2, <2>3, <2>4, Zenon
  <1>6. InOrder
    <2>1. gdtidx[Idle] = NumSystem /\ gdt[NumSystem] = Idle
      BY <1>2, <1>3, <1>4 DEF Entry
    <2>2. indices \subseteq 0..NumSystem
      BY <1>2, <1>3, <1>4 DEF Reserved
    <2>3. Cleared(Idle) = NumSystem
      BY <1>3 DEF Cleared
    <2>4. QED BY <1>2, <1>3, <1>4, <2>1, <2>2, <2>3 DEF InOrder
  <1>7. gdt \in [Entry -> Bit \cup {Nobody}]
    BY <1>2, <1>3, Zenon
  <1>8. firstPid \in 0..NumProcesses /\ firstIndex \in 0..NumProcesses
    BY <1>2, <1>3, <1>4
  <1>9. QED BY <1>1, <1>3, <1>5, <1>6, <1>7, <1>8, Zenon DEF FoundInv

\* A spawn takes one of each (ProcessManager::spawn, fillGDT).
LEMMA SpawnFinds == FoundInv /\ Spawn => FoundInv'
  <1> SUFFICES ASSUME FoundInv, Spawn PROVE FoundInv'
    BY Zenon
  <1>1. SlotsInv /\ SlotsTypeOK /\ SlotsInv'
    BY SpawnKeeps, Zenon DEF FoundInv, SlotsInv
  <1>2. PICK p \in NextBit(pids, firstPid), i \in NextBit(indices, firstIndex) :
          /\ pids' = pids \cup {p}
          /\ firstPid' = p + 1
          /\ indices' = indices \cup {i}
          /\ firstIndex' = i + 1
          /\ gdtidx' = [gdtidx EXCEPT ![p] = i]
          /\ gdt' = [gdt EXCEPT ![i] = p]
    BY Zenon DEF Spawn
  <1>3. p \in Bit /\ p \notin pids /\ i \in Bit /\ i \notin indices
    BY <1>1, NextBitIsFree, Zenon DEF SlotsTypeOK
  <1>4. /\ NumProcesses \in Nat /\ NumSystem \in Nat /\ NumSystem > 0
        /\ NumProcesses > NumSystem
    BY SlotsAssumption
  <1>5. firstPid' \in 0..NumProcesses /\ firstIndex' \in 0..NumProcesses
    BY <1>2, <1>3, <1>4 DEF Bit
  <1>6. gdt' \in [Entry -> Bit \cup {Nobody}]
    BY <1>2, <1>3, Zenon DEF FoundInv
  <1>7. Cardinality(indices') = NumSystem + Cardinality(pids')
    <2>1. IsFiniteSet(pids) /\ IsFiniteSet(indices) /\ Cardinality(pids) \in Nat
      BY <1>1, BitCount, Zenon DEF SlotsTypeOK
    <2>2. Cardinality(pids') = Cardinality(pids) + 1
      BY <1>2, <1>3, <2>1, FS_AddElement, Zenon
    <2>3. Cardinality(indices') = Cardinality(indices) + 1
      BY <1>2, <1>3, <2>1, FS_AddElement, Zenon
    <2>4. QED BY <1>4, <2>1, <2>2, <2>3 DEF FoundInv
  <1>8. spawned \in Nat /\ spawned' \in Nat
        /\ (spawned' <= NumProcesses - NumSystem => spawned' = spawned + 1)
    BY <1>4 DEF FoundInv, Spawn, MaxSpawned
  <1>9. ASSUME spawned' <= NumProcesses - NumSystem PROVE InOrder'
    <2>1. InOrder /\ spawned' = spawned + 1 /\ spawned + NumSystem < NumProcesses
      BY <1>4, <1>8, <1>9 DEF FoundInv
    <2>2. p = spawned
      <3>1. spawned \in Bit /\ spawned \notin pids /\ firstPid = spawned
        BY <1>4, <1>8, <2>1 DEF InOrder, Bit
      <3>2. QED BY <3>1, NextBitStartsAtFirst
    <2>3. i = NumSystem + spawned
      <3>1. /\ NumSystem + spawned \in Bit /\ NumSystem + spawned \notin indices
            /\ firstIndex = NumSystem + spawned
        BY <1>4, <1>8, <2>1 DEF InOrder, Bit
      <3>2. QED BY <3>1, NextBitStartsAtFirst
    <2>4. firstPid' = spawned' /\ firstIndex' = NumSystem + spawned'
      BY <1>2, <1>4, <1>8, <2>1, <2>2, <2>3
    <2>5. pids' \subseteq 0..(spawned' - 1)
      BY <1>2, <1>8, <2>1, <2>2 DEF InOrder
    <2>6. indices' \subseteq 0..(NumSystem + spawned' - 1)
      BY <1>2, <1>4, <1>8, <2>1, <2>3 DEF InOrder
    <2>7. ASSUME NEW q \in pids' PROVE gdtidx'[q] = Cleared(q) /\ gdt'[Cleared(q)] = q
      <3>1. CASE q = p
        <4>1. gdtidx'[p] = i /\ gdt'[i] = p
          BY <1>1, <1>2, <1>3, <1>4 DEF FoundInv, SlotsTypeOK, Bit, Entry
        <4>2. QED BY <1>4, <1>8, <2>2, <2>3, <3>1, <4>1 DEF Cleared
      <3>2. CASE q # p
        <4>1. q \in pids /\ q \in 0..(spawned - 1) /\ q \in Bit
          BY <1>1, <1>2, <2>1, <2>7, <3>2, Zenon DEF InOrder, SlotsTypeOK
        <4>2. gdtidx'[q] = gdtidx[q]
          BY <1>1, <1>2, <3>2, <4>1, Zenon DEF SlotsTypeOK
        <4>3. Cleared(q) # i /\ Cleared(q) \in Entry
          BY <1>4, <1>8, <2>1, <2>3, <4>1 DEF Cleared, Entry
        <4>4. gdt'[Cleared(q)] = gdt[Cleared(q)]
          BY <1>2, <4>3, Zenon DEF FoundInv
        <4>5. QED BY <2>1, <4>1, <4>2, <4>4, Zenon DEF InOrder
      <3>3. QED BY <3>1, <3>2, Zenon
    <2>8. QED BY <2>4, <2>5, <2>6, <2>7, Zenon DEF InOrder, Cleared
  <1>10. panic' => indices' = Bit
    BY Zenon DEF Spawn
  <1>11. QED BY <1>1, <1>5, <1>6, <1>7, <1>8, <1>9, <1>10, Zenon DEF FoundInv, Bit, Entry

\* The deleter gives one of each back.
LEMMA DeleteFinds == ASSUME FoundInv, NEW p \in Bit, Delete(p) PROVE FoundInv'
  <1>1. SlotsInv /\ SlotsTypeOK /\ IndicesOwned /\ SlotsInv'
    BY DeleteKeeps, Zenon DEF FoundInv, SlotsInv
  <1>2. /\ p \in pids /\ pids' = pids \ {p} /\ indices' = indices \ {gdtidx[p]}
        /\ gdtidx' = [gdtidx EXCEPT ![p] = Nobody]
        /\ gdt' = [gdt EXCEPT ![Cleared(p)] = Nobody]
        /\ UNCHANGED <<firstPid, firstIndex, spawned, panic>> /\ ~panic
    BY Zenon DEF Delete, Freed
  <1>3. NumProcesses \in Nat /\ NumSystem \in Nat /\ NumProcesses > NumSystem
    BY SlotsAssumption, Zenon
  <1>4. gdt' \in [Entry -> Bit \cup {Nobody}]
    BY <1>2, Zenon DEF FoundInv
  <1>5. gdtidx[p] \in indices
    BY <1>1, <1>2, Zenon DEF IndicesOwned
  <1>6. Cardinality(indices') = NumSystem + Cardinality(pids')
    <2>1. IsFiniteSet(pids) /\ IsFiniteSet(indices) /\ Cardinality(pids) \in Nat /\ Cardinality(indices) \in Nat
      BY <1>1, BitCount, Zenon DEF SlotsTypeOK
    <2>2. Cardinality(pids') = Cardinality(pids) - 1
      BY <1>2, <2>1, FS_RemoveElement, Zenon
    <2>3. Cardinality(indices') = Cardinality(indices) - 1
      BY <1>2, <1>5, <2>1, FS_RemoveElement, Zenon
    <2>4. QED BY <1>3, <2>1, <2>2, <2>3 DEF FoundInv
  <1>7. ASSUME InOrder PROVE InOrder'
    <2>1. \A q \in pids' : q \in pids /\ q # p /\ q \in Int /\ p \in Int
      BY <1>1, <1>2 DEF SlotsTypeOK, Bit
    <2>2. \A q \in pids' : gdtidx'[q] = gdtidx[q]
      BY <1>1, <1>2, <2>1, Zenon DEF SlotsTypeOK
    <2>3. \A q \in pids' : Cleared(q) # Cleared(p) /\ Cleared(q) \in Entry
      BY <1>1, <1>3, <2>1 DEF Cleared, SlotsTypeOK, Bit, Entry
    <2>4. \A q \in pids' : gdt'[Cleared(q)] = gdt[Cleared(q)]
      BY <1>2, <2>3, Zenon DEF FoundInv
    <2>5. \A q \in pids' : gdtidx'[q] = Cleared(q) /\ gdt'[Cleared(q)] = q
      BY <1>7, <2>1, <2>2, <2>4, Zenon DEF InOrder
    <2>6. QED BY <1>2, <1>7, <2>5, Zenon DEF InOrder, Cleared
  <1>8. panic' => indices' = Bit
    BY <1>2, Zenon
  <1>9. QED BY <1>1, <1>2, <1>4, <1>6, <1>7, <1>8, Zenon DEF FoundInv, Bit, Entry

\* spawn gives up only when every index is taken.
LEMMA FailureIsFull == FoundInv /\ SpawnFails => FoundInv'
  <1> SUFFICES ASSUME FoundInv, SpawnFails PROVE FoundInv'
    BY Zenon
  <1>1. SlotsInv /\ SlotsTypeOK /\ UNCHANGED <<pids, firstPid, indices, firstIndex, gdtidx, gdt, spawned>>
    BY Zenon DEF FoundInv, SlotsInv, SpawnFails
  <1>2. SlotsInv'
    BY <1>1, Zenon DEF SlotsInv, SlotsTypeOK, IndicesOwned, Reserved, Bit
  <1>3. pids # Bit
    <2>1. Cardinality(indices) <= NumProcesses /\ Cardinality(Bit) = NumProcesses
      BY <1>1, BitCount, Zenon DEF SlotsTypeOK
    <2>2. QED BY <2>1, SlotsAssumption DEF FoundInv
  <1>4. Bit \subseteq indices
    <2>1. CASE NextBit(pids, firstPid) = {}
      <3>1. Bit \subseteq pids
        BY <2>1, NextBitLooksEverywhere, Zenon DEF FoundInv
      <3>2. QED BY <1>1, <1>3, <3>1, Zenon DEF SlotsTypeOK
    <2>2. CASE NextBit(indices, firstIndex) = {}
      BY <2>2, NextBitLooksEverywhere, Zenon DEF FoundInv
    <2>3. QED BY <2>1, <2>2, Zenon DEF SpawnFails
  <1>5. indices' = Bit
    BY <1>1, <1>4, Zenon DEF SlotsTypeOK
  <1>6. QED BY <1>1, <1>2, <1>5, Zenon DEF FoundInv, InOrder, Cleared, Bit, Entry

\* The PANIC for want of entries comes only when every index behind the system's is
\* in use, and until the search wraps around the deleter clears, and a context
\* switch finds, the process's own descriptor.
THEOREM SlotsAlwaysFound == SlotsSpec => []SlotsFound
  <1>1. FoundInv /\ [SlotsNext]_slotVars => FoundInv'
    <2>1. ASSUME FoundInv, UNCHANGED slotVars PROVE FoundInv'
      BY <2>1 DEF FoundInv, SlotsInv, SlotsTypeOK, IndicesOwned, InOrder, Cleared, slotVars, Reserved, Bit, Entry
    <2>2. QED BY <2>1, SpawnFinds, DeleteFinds, FailureIsFull, Zenon DEF SlotsNext
  <1>2. FoundInv => SlotsFound
    <2> SUFFICES ASSUME FoundInv PROVE SlotsFound
      BY Zenon
    <2>1. ASSUME panic PROVE Cardinality(pids) = NumProcesses - NumSystem
      <3>1. Cardinality(pids) \in Nat /\ Cardinality(indices) = NumProcesses
        BY <2>1, BitCount, Zenon DEF FoundInv, SlotsInv, SlotsTypeOK
      <3>2. QED BY <3>1, SlotsAssumption DEF FoundInv
    <2>2. QED BY <2>1, Zenon DEF SlotsFound, FoundInv, InOrder
  <1>3. QED BY InitFoundInv, <1>1, <1>2, PTL DEF SlotsSpec

(***************************************************************************)
(* Tick handlers.                                                          *)
(***************************************************************************)
\* The countdown of a handler and the ticks that passed it over add up to its
\* period, from the moment it is registered.
TickInv ==
    /\ callback \in [Handler -> BOOLEAN]
    /\ every_N \in [Handler -> Nat]
    /\ every_countdown \in [Handler -> Nat]
    /\ since \in [Handler -> Nat]
    /\ \A i \in Handler : callback[i] => every_countdown[i] + since[i] = every_N[i]

LEMMA InitTickInv == TickInit => TickInv
  BY DEF TickInit, TickInv

\* TimeManager's register, unregister and tick keep the two in step.
LEMMA TickInvKept == TickInv /\ [TickNext]_tickVars => TickInv'
  <1> SUFFICES ASSUME TickInv, [TickNext]_tickVars PROVE TickInv'
    BY Zenon
  <1> USE DEF TickInv
  <1>1. ASSUME NEW n \in Periods, RegisterTickHandler(n) PROVE TickInv'
    BY <1>1, TickAssumption DEF RegisterTickHandler, Free, Start
  <1>2. ASSUME NEW i \in Handler, UnregisterTickHandler(i) PROVE TickInv'
    BY <1>2, Zenon DEF UnregisterTickHandler
  <1>3. CASE Tick
    BY <1>3 DEF Tick, Elapsed
  <1>4. CASE UNCHANGED tickVars
    BY <1>4, Zenon DEF tickVars
  <1>5. QED BY <1>1, <1>2, <1>3, <1>4, Zenon DEF TickNext

\* A handler runs after exactly every_N ticks that passed it over, however often
\* its slot was cleared and taken again.
THEOREM HandlersOnSchedule == TickSpec => OnSchedule
  <1>1. TickInv /\ [TickNext]_tickVars
        => [Tick => \A i \in Handler : i \in ran' <=> callback[i] /\ since[i] = every_N[i]]_tickVars
    BY DEF TickInv, Tick, Elapsed
  <1>2. QED BY InitTickInv, TickInvKept, <1>1, PTL DEF TickSpec, OnSchedule

(***************************************************************************)
(* Some entries of a list.                                                 *)
(***************************************************************************)

\* The indices of a list, and those up to one of them, are finitely many.
LEMMA UpToFinite ==
  ASSUME NEW n \in Nat, NEW keep \in SUBSET (1..n), NEW i
  PROVE  /\ IsFiniteSet(keep) /\ Cardinality(keep) \in Nat
         /\ IsFiniteSet(UpTo(keep, i)) /\ Cardinality(UpTo(keep, i)) \in Nat
         /\ Cardinality(UpTo(keep, i)) <= Cardinality(keep)
  <1>1. IsFiniteSet(1..n)
    BY FS_Interval
  <1>2. IsFiniteSet(keep)
    BY <1>1, FS_Subset, Zenon
  <1>3. UpTo(keep, i) \subseteq keep
    BY Zenon DEF UpTo
  <1>4. QED BY <1>2, <1>3, FS_Subset, FS_CardinalityType, Zenon

\* Every number up to the size of the set is the rank of one of its members.
LEMMA NthIn ==
  ASSUME NEW n \in Nat, NEW keep \in SUBSET (1..n), NEW k \in 1..Cardinality(keep)
  PROVE  Nth(keep, k) \in keep /\ Cardinality(UpTo(keep, Nth(keep, k))) = k
  <1> DEFINE S == {i \in 0..n : Cardinality(UpTo(keep, i)) >= k}
  <1>0. \A j \in keep : j \in Int /\ 1 <= j /\ j <= n
    OBVIOUS
  <1>1. \A i : Cardinality(UpTo(keep, i)) \in Nat /\ IsFiniteSet(UpTo(keep, i))
    BY UpToFinite, Zenon
  <1>2. Cardinality(keep) \in Nat /\ k \in Nat /\ k >= 1 /\ k <= Cardinality(keep)
    <2>1. Cardinality(keep) \in Nat
      BY UpToFinite, Zenon
    <2>2. QED BY <2>1
  <1>3. n \in S
    <2>1. UpTo(keep, n) = keep
      BY <1>0, Zenon DEF UpTo
    <2>2. QED BY <1>2, <2>1
  <1>4. PICK m \in S : \A i \in S : m <= i
    <2>1. S \in SUBSET Nat /\ S # {}
      BY <1>3
    <2> HIDE DEF S
    <2>2. QED BY <2>1, LeastNatural, Zenon
  <1>5. m \in 0..n /\ Cardinality(UpTo(keep, m)) >= k
    BY <1>4, Zenon
  <1>6. m # 0
    <2>1. UpTo(keep, 0) = {}
      <3>1. \A j \in keep : ~(j <= 0)
        BY <1>0
      <3>2. QED BY <3>1, Zenon DEF UpTo
    <2>2. Cardinality(UpTo(keep, 0)) = 0
      BY <2>1, FS_EmptySet, Zenon
    <2>3. QED BY <1>2, <1>5, <2>2
  <1>7. m - 1 \in 0..n /\ m - 1 \notin S
    BY <1>4, <1>5, <1>6
  <1>8. Cardinality(UpTo(keep, m - 1)) < k
    BY <1>1, <1>2, <1>7
  <1> HIDE DEF S
  <1>9. m \in keep
    <2>1. ASSUME m \notin keep PROVE UpTo(keep, m) = UpTo(keep, m - 1)
      <3>1. \A j \in keep : j <= m <=> j <= m - 1
        BY <1>0, <1>5, <2>1
      <3>2. QED BY <3>1, Zenon DEF UpTo
    <2>2. QED BY <1>1, <1>2, <1>5, <1>8, <2>1
  <1>10. UpTo(keep, m) = UpTo(keep, m - 1) \cup {m} /\ m \notin UpTo(keep, m - 1)
    <2>1. (\A j \in keep : j <= m <=> j <= m - 1 \/ j = m) /\ m <= m /\ ~(m <= m - 1)
      BY <1>0, <1>5, <1>9
    <2>2. QED BY <1>9, <2>1, Zenon DEF UpTo
  <1>11. Cardinality(UpTo(keep, m)) = Cardinality(UpTo(keep, m - 1)) + 1
    BY <1>1, <1>10, FS_AddElement, Zenon
  <1>12. Cardinality(UpTo(keep, m)) = k
    BY <1>1, <1>2, <1>5, <1>8, <1>11
  <1>13. QED BY <1>9, <1>12, Zenon DEF Nth

\* Every member is the one of its rank.
LEMMA NthAll ==
  ASSUME NEW n \in Nat, NEW keep \in SUBSET (1..n), NEW i \in keep
  PROVE  /\ Cardinality(UpTo(keep, i)) \in 1..Cardinality(keep)
         /\ Nth(keep, Cardinality(UpTo(keep, i))) = i
  <1> DEFINE k == Cardinality(UpTo(keep, i))
             m == Nth(keep, k)
  <1>1. \A j : /\ Cardinality(UpTo(keep, j)) \in Nat /\ IsFiniteSet(UpTo(keep, j))
               /\ Cardinality(UpTo(keep, j)) <= Cardinality(keep) /\ Cardinality(keep) \in Nat
    BY UpToFinite, Zenon
  <1>2. k # 0
    <2>1. i \in UpTo(keep, i)
      BY DEF UpTo
    <2>2. QED BY <1>1, <2>1, FS_EmptySet, Zenon
  <1>3. k \in 1..Cardinality(keep)
    BY <1>1, <1>2
  <1>4. m \in keep /\ Cardinality(UpTo(keep, m)) = k
    BY <1>3, NthIn, Zenon
  <1> HIDE DEF m
  <1>5. ASSUME NEW x \in keep, NEW y \in keep, x < y
        PROVE  Cardinality(UpTo(keep, x)) # Cardinality(UpTo(keep, y))
    <2>0. \A j \in keep : j \in Int
      OBVIOUS
    <2>1. UpTo(keep, x) \subseteq UpTo(keep, y) /\ y \in UpTo(keep, y) /\ y \notin UpTo(keep, x)
      <3>1. (\A j \in keep : j <= x => j <= y) /\ y <= y /\ ~(y <= x)
        BY <1>5, <2>0
      <3>2. QED BY <3>1, Zenon DEF UpTo
    <2>2. UpTo(keep, x) # UpTo(keep, y)
      BY <2>1, Zenon
    <2>3. QED BY <1>1, <2>1, <2>2, FS_Subset, Zenon
  <1>6. ~(m < i) /\ ~(i < m)
    BY <1>4, <1>5, Zenon
  <1>7. m \in 1..n /\ i \in 1..n
    BY <1>4, Zenon
  <1>8. m = i
    BY <1>6, <1>7
  <1>9. QED BY <1>3, <1>8, Zenon DEF m

\* Selecting keeps the type of a list.
LEMMA SelectedSeq ==
  ASSUME NEW S, NEW n \in Nat, NEW list, \A i \in 1..n : list[i] \in S, NEW keep \in SUBSET (1..n)
  PROVE  Selected(list, keep) \in Seq(S)
  <1>1. Cardinality(keep) \in Nat
    BY UpToFinite, Zenon
  <1>2. \A k \in 1..Cardinality(keep) : list[Nth(keep, k)] \in S
    BY NthIn, Zenon
  <1>3. QED BY <1>1, <1>2 DEF Selected

(***************************************************************************)
(* The lottery.                                                            *)
(***************************************************************************)
\* No process is in the list twice.
EachOnce(list) == \A i, j \in DOMAIN list : list[i] = list[j] => i = j

\* A list with only some of its entries has those and no others, each as often.
LEMMA SelectedKeeps ==
  ASSUME NEW S, NEW list \in Seq(S), EachOnce(list), NEW keep \in SUBSET DOMAIN list
  PROVE  /\ Selected(list, keep) \in Seq(S)
         /\ EachOnce(Selected(list, keep))
         /\ \A k \in DOMAIN Selected(list, keep) : \E i \in keep : Selected(list, keep)[k] = list[i]
         /\ \A i \in keep : \E k \in DOMAIN Selected(list, keep) : Selected(list, keep)[k] = list[i]
  <1> DEFINE rest == Selected(list, keep)
  <1>1. PICK n \in Nat : DOMAIN list = 1..n /\ \A i \in 1..n : list[i] \in S
    OBVIOUS
  <1>2. keep \in SUBSET (1..n)
    BY <1>1, Zenon
  <1>3. rest \in Seq(S)
    BY <1>1, <1>2, SelectedSeq, Zenon
  <1>4. DOMAIN rest = 1..Cardinality(keep)
        /\ \A k \in 1..Cardinality(keep) : rest[k] = list[Nth(keep, k)]
    BY Zenon DEF Selected
  <1> HIDE DEF rest
  <1>5. \A k \in DOMAIN rest : /\ Nth(keep, k) \in keep /\ rest[k] = list[Nth(keep, k)]
                               /\ Cardinality(UpTo(keep, Nth(keep, k))) = k
    BY <1>2, <1>4, NthIn, Zenon
  <1>6. EachOnce(rest)
    <2>1. ASSUME NEW k \in DOMAIN rest, NEW l \in DOMAIN rest, rest[k] = rest[l]
          PROVE  k = l
      <3>1. Nth(keep, k) = Nth(keep, l)
        BY <1>5, <2>1, Zenon DEF EachOnce
      <3>2. QED BY <1>5, <3>1, Zenon
    <2>2. QED BY <2>1, Zenon DEF EachOnce
  <1>7. \A i \in keep : \E k \in DOMAIN rest : rest[k] = list[i]
    <2>1. ASSUME NEW i \in keep PROVE \E k \in DOMAIN rest : rest[k] = list[i]
      <3>1. /\ Cardinality(UpTo(keep, i)) \in 1..Cardinality(keep)
            /\ Nth(keep, Cardinality(UpTo(keep, i))) = i
        BY <1>2, NthAll, Zenon
      <3>2. rest[Cardinality(UpTo(keep, i))] = list[i]
        BY <1>4, <3>1, Zenon
      <3>3. QED BY <1>4, <3>1, <3>2, Zenon
    <2>2. QED BY <2>1, Zenon
  <1>8. QED BY <1>3, <1>5, <1>6, <1>7, Zenon DEF rest

\* What the ready queue is like: each process once, the idle one always, none that
\* waits; and every process holds a ticket.
LotteryInv ==
    /\ ready \in Seq(Task) /\ EachOnce(ready)
    /\ state \in [Task -> {"AVAILABLE", "BLOCKED", "EXITED"}]
    /\ tickets \in [Task -> 1..MaxTickets]
    /\ state[Dummy] = "AVAILABLE" /\ \E i \in DOMAIN ready : ready[i] = Dummy
    /\ \A i \in DOMAIN ready : state[ready[i]] # "BLOCKED"
    /\ running \in Task \cup {NoWinner}
    /\ aborted = FALSE

\* Once the exited processes are gone, all that are left can run, and the idle one
\* is among them.
LEMMA PurgedRuns ==
  ASSUME LotteryInv
  PROVE  /\ Purged \in Seq(Task) /\ EachOnce(Purged)
         /\ \A i \in DOMAIN Purged : state[Purged[i]] = "AVAILABLE"
         /\ \E i \in DOMAIN Purged : Purged[i] = Dummy
  <1> DEFINE keep == {i \in DOMAIN ready : state[ready[i]] # "EXITED"}
  <1>1. ready \in Seq(Task) /\ EachOnce(ready) /\ keep \in SUBSET DOMAIN ready
        /\ Purged = Selected(ready, keep)
    BY Zenon DEF LotteryInv, Purged
  <1>2. \A i \in DOMAIN ready : ready[i] \in Task
    BY <1>1
  <1>3. \A i \in keep : state[ready[i]] = "AVAILABLE"
    BY <1>2, Zenon DEF LotteryInv
  <1>4. PICK i \in DOMAIN ready : ready[i] = Dummy
    BY Zenon DEF LotteryInv
  <1>5. i \in keep
    BY <1>4, Zenon DEF LotteryInv
  <1> HIDE DEF keep
  <1>6. /\ Purged \in Seq(Task) /\ EachOnce(Purged)
        /\ \A k \in DOMAIN Purged : \E j \in keep : Purged[k] = ready[j]
        /\ \A j \in keep : \E k \in DOMAIN Purged : Purged[k] = ready[j]
    BY <1>1, SelectedKeeps, Zenon
  <1>7. ASSUME NEW k \in DOMAIN Purged PROVE state[Purged[k]] = "AVAILABLE"
    <2>1. PICK j \in keep : Purged[k] = ready[j]
      BY <1>6, Zenon
    <2>2. QED BY <1>3, <2>1, Zenon
  <1>8. \E k \in DOMAIN Purged : Purged[k] = Dummy
    BY <1>4, <1>5, <1>6, Zenon
  <1>9. QED BY <1>6, <1>7, <1>8, Zenon

\* How many tickets are counted on the way along the queue: those of each process in
\* its turn, all of them at its end.
LEMMA CountedOnTheWay ==
  ASSUME LotteryInv
  PROVE  /\ Len(Purged) \in Nat \ {0} /\ DOMAIN Purged = 1..Len(Purged)
         /\ \A i \in 0..Len(Purged) : Counted(i) \in Nat
         /\ Counted(0) = 0
         /\ \A i \in 1..Len(Purged) : Counted(i) = Counted(i - 1) + tickets[Purged[i]]
         /\ \A i, j \in 0..Len(Purged) : i < j => Counted(i) < Counted(j)
         /\ TotalTickets = Counted(Len(Purged))
  <1> DEFINE q == Purged
  <1>1. PICK n \in Nat : n = Len(q) /\ DOMAIN q = 1..n /\ \A i \in 1..n : q[i] \in Task
    BY PurgedRuns
  <1>2. n # 0
    <2>1. PICK i \in 1..n : q[i] = Dummy
      BY <1>1, PurgedRuns, Zenon
    <2>2. QED BY <2>1
  <1>3. \A i \in 1..n : tickets[q[i]] \in 1..MaxTickets
    BY <1>1, Zenon DEF LotteryInv
  <1>4. \A I : Tickets(I) = {t \in I \X (1..MaxTickets) : t[2] <= tickets[q[t[1]]]}
    BY Zenon DEF Tickets
  <1>5. TotalTickets = Counted(n)
    <2>1. {i \in DOMAIN q : state[q[i]] = "AVAILABLE"} = 1..n
      BY <1>1, PurgedRuns, Zenon
    <2>2. QED BY <2>1, Zenon DEF TotalTickets, Counted
  <1> HIDE DEF q
  <1>6. \A I, J : I \subseteq J => Tickets(I) \subseteq Tickets(J)
    BY <1>4, Zenon
  <1>7. ASSUME NEW i \in 0..n PROVE IsFiniteSet(Tickets(1..i)) /\ Counted(i) \in Nat
    <2>1. IsFiniteSet(1..i) /\ IsFiniteSet(1..MaxTickets)
      BY FS_Interval, LotteryAssumption
    <2>2. IsFiniteSet((1..i) \X (1..MaxTickets))
      BY <2>1, FS_Product, Zenon
    <2>3. Tickets(1..i) \subseteq (1..i) \X (1..MaxTickets)
      BY <1>4, Zenon
    <2>4. QED BY <2>2, <2>3, FS_Subset, FS_CardinalityType, Zenon DEF Counted
  <1>8. Counted(0) = 0
    <2>1. 1..0 = {}
      OBVIOUS
    <2>2. Tickets(1..0) = {}
      BY <1>4, <2>1, Zenon
    <2>3. QED BY <2>2, FS_EmptySet, Zenon DEF Counted
  <1>9. ASSUME NEW i \in 1..n PROVE Counted(i) = Counted(i - 1) + tickets[q[i]]
    <2>1. PICK m \in 0..n : m = i - 1
      BY <1>9
    <2>2. 1..i = (1..m) \cup {i} /\ i \notin 1..m
      BY <2>1
    <2>3. Tickets(1..i) = Tickets(1..m) \cup Tickets({i}) /\ Tickets(1..m) \cap Tickets({i}) = {}
      BY <1>4, <2>2, Zenon
    <2>4. IsFiniteSet(Tickets({i})) /\ Cardinality(Tickets({i})) = tickets[q[i]]
      <3>1. PICK m1 \in 1..MaxTickets : m1 = tickets[q[i]]
        BY <1>3, Zenon
      <3>2. \A k : k \in 1..MaxTickets /\ k <= m1 <=> k \in 1..m1
        BY LotteryAssumption
      <3>3. Tickets({i}) = {i} \X (1..m1)
        BY <1>4, <3>1, <3>2, Zenon
      <3>4. IsFiniteSet(1..m1) /\ Cardinality(1..m1) = m1 /\ 1 * m1 = m1
        BY FS_Interval, LotteryAssumption
      <3>5. IsFiniteSet({i}) /\ Cardinality({i}) = 1
        BY FS_Singleton, Zenon
      <3>6. /\ IsFiniteSet({i} \X (1..m1))
            /\ Cardinality({i} \X (1..m1)) = Cardinality({i}) * Cardinality(1..m1)
        BY <3>4, <3>5, FS_Product, Zenon
      <3>7. Cardinality({i} \X (1..m1)) = m1
        BY <3>4, <3>5, <3>6
      <3>8. QED BY <3>1, <3>3, <3>6, <3>7, Zenon
    <2>5. IsFiniteSet(Tickets(1..m)) /\ Counted(m) \in Nat
      BY <1>7, Zenon
    <2>6. Cardinality(Tickets(1..i))
            = Cardinality(Tickets(1..m)) + Cardinality(Tickets({i})) - Cardinality({})
      <3>1. Cardinality(Tickets(1..m) \cup Tickets({i}))
              = Cardinality(Tickets(1..m)) + Cardinality(Tickets({i}))
                - Cardinality(Tickets(1..m) \cap Tickets({i}))
        BY <2>4, <2>5, FS_Union, Zenon
      <3>2. QED BY <2>3, <3>1, Zenon
    <2>7. Counted(i) = Counted(m) + tickets[q[i]] - 0
      <3>1. Cardinality({}) = 0
        BY FS_EmptySet, Zenon
      <3>2. QED BY <2>4, <2>6, <3>1 DEF Counted
    <2>8. tickets[q[i]] \in Nat
      BY <1>3, LotteryAssumption
    <2>9. Counted(i) = Counted(m) + tickets[q[i]]
      BY <2>5, <2>7, <2>8
    <2>10. QED BY <2>1, <2>9, Zenon
  <1>10. ASSUME NEW i \in 0..n, NEW j \in 0..n, i < j PROVE Counted(i) < Counted(j)
    <2>1. 1..i \subseteq 1..j /\ j \in 1..j /\ j \notin 1..i /\ j \in 1..n /\ 1 \in 1..MaxTickets
      BY <1>10, LotteryAssumption
    <2>2. tickets[q[j]] \in 1..MaxTickets
      BY <1>3, <2>1, Zenon
    <2>3. 1 <= tickets[q[j]]
      BY <2>2, LotteryAssumption
    <2>4. <<j, 1>> \in Tickets(1..j) /\ <<j, 1>> \notin Tickets(1..i)
      BY <1>4, <2>1, <2>3, Zenon
    <2>5. Tickets(1..i) \subseteq Tickets(1..j) /\ Tickets(1..i) # Tickets(1..j)
      BY <1>6, <2>1, <2>4, Zenon
    <2>6. Counted(i) <= Counted(j) /\ Counted(i) # Counted(j)
      BY <1>7, <2>5, FS_Subset, Zenon DEF Counted
    <2>7. QED BY <1>7, <2>6
  <1>11. QED BY <1>1, <1>2, <1>5, <1>7, <1>8, <1>9, <1>10, Zenon DEF q

\* The process at i wins the numbers above what is counted before it, up to what is
\* counted with it; the first one wins 0 as well, the last one all that are left.
LEMMA WinsOf ==
  ASSUME LotteryInv, NEW i \in DOMAIN Purged, NEW w \in Draws
  PROVE  Purged[i] \in Winner(w) <=> Counted(i) >= w /\ (i = 1 \/ Counted(i - 1) < w)
  <1>1. PICK n \in Nat : n = Len(Purged) /\ DOMAIN Purged = 1..n
    BY CountedOnTheWay, Zenon
  <1>2. /\ \A k \in 0..n : Counted(k) \in Nat
        /\ \A k, l \in 0..n : k < l => Counted(k) < Counted(l)
    BY <1>1, CountedOnTheWay, Zenon
  <1>3. w \in Int
    BY DEF Draws
  <1>4. \A k : k \in Stops(w) <=> k \in 1..n /\ Counted(k) >= w
    BY <1>1, PurgedRuns, Zenon DEF Stops
  <1>5. Purged[i] \in Winner(w) <=> i \in Stops(w) /\ \A j \in Stops(w) : i <= j
    <2>1. \A k \in Stops(w) : k \in DOMAIN Purged
      BY Zenon DEF Stops
    <2>2. \A k \in Stops(w) : Purged[k] = Purged[i] => k = i
      BY <2>1, PurgedRuns, Zenon DEF EachOnce
    <2>3. QED BY <2>2, Zenon DEF Winner
  <1>6. ASSUME i \in Stops(w), \A j \in Stops(w) : i <= j
        PROVE  Counted(i) >= w /\ (i = 1 \/ Counted(i - 1) < w)
    <2>1. ASSUME i # 1 PROVE Counted(i - 1) < w
      <3>1. i - 1 \in 1..n /\ i - 1 \in 0..n /\ ~(i <= i - 1)
        BY <1>1, <2>1
      <3>2. ~(Counted(i - 1) >= w) /\ Counted(i - 1) \in Nat
        BY <1>2, <1>4, <1>6, <3>1, Zenon
      <3>3. QED BY <1>3, <3>2
    <2>2. QED BY <1>4, <1>6, <2>1, Zenon
  <1>7. ASSUME Counted(i) >= w, i = 1 \/ Counted(i - 1) < w
        PROVE  i \in Stops(w) /\ \A j \in Stops(w) : i <= j
    <2>1. i \in Stops(w)
      BY <1>1, <1>4, <1>7, Zenon
    <2>2. ASSUME NEW j \in Stops(w) PROVE i <= j
      <3>1. j \in 1..n /\ Counted(j) >= w /\ i \in 1..n
        BY <1>1, <1>4, <2>2, Zenon
      <3>2. CASE i = 1
        BY <3>1, <3>2
      <3>3. CASE i # 1 /\ j < i
        <4>1. Counted(i - 1) < w
          BY <1>7, <3>3, Zenon
        <4>2. i - 1 \in 0..n /\ j \in 0..n /\ (j = i - 1 \/ j < i - 1)
          BY <3>1, <3>3
        <4>3. Counted(j) = Counted(i - 1) \/ Counted(j) < Counted(i - 1)
          BY <1>2, <4>2, Zenon
        <4>4. Counted(j) \in Nat /\ Counted(i - 1) \in Nat
          BY <1>2, <4>2, Zenon
        <4>5. QED BY <1>3, <3>1, <4>1, <4>3, <4>4
      <3>4. i <= j \/ j < i
        BY <3>1
      <3>5. QED BY <3>2, <3>3, <3>4, Zenon
    <2>3. QED BY <2>1, <2>2, Zenon
  <1>8. QED BY <1>5, <1>6, <1>7, Zenon

\* Every number that may be drawn has a winner, which can run.
LEMMA DrawsWin ==
  ASSUME LotteryInv
  PROVE  /\ Draws # {}
         /\ \A w \in Draws : Winner(w) # {} /\ Winner(w) \subseteq Task
  <1>1. PICK n \in Nat \ {0} : n = Len(Purged) /\ DOMAIN Purged = 1..n
    BY CountedOnTheWay, Zenon
  <1>2. n \in 0..n /\ 0 \in 0..n /\ 0 < n /\ n \in 1..n
    BY <1>1
  <1>3. Counted(n) \in Nat /\ Counted(0) = 0 /\ Counted(0) < Counted(n) /\ TotalTickets = Counted(n)
    BY <1>1, <1>2, CountedOnTheWay, Zenon
  <1>4. 0 \in Draws
    BY <1>3 DEF Draws
  <1>5. ASSUME NEW w \in Draws PROVE Winner(w) # {} /\ Winner(w) \subseteq Task
    <2>1. Counted(n) >= w
      BY <1>3 DEF Draws
    <2>2. n \in Stops(w)
      BY <1>1, <1>2, <2>1, PurgedRuns, Zenon DEF Stops
    <2>3. Stops(w) \in SUBSET Nat
      BY <1>1 DEF Stops
    <2>4. PICK i \in Stops(w) : \A j \in Stops(w) : i <= j
      BY <2>2, <2>3, LeastNatural, Zenon
    <2>5. Purged[i] \in Winner(w)
      BY <2>4, Zenon DEF Winner
    <2>6. \A k \in DOMAIN Purged : Purged[k] \in Task
      BY PurgedRuns
    <2>7. QED BY <2>5, <2>6, Zenon DEF Winner, Stops
  <1>6. QED BY <1>4, <1>5, Zenon

\* The numbers between a, what is counted before the process at i, and b, what is
\* counted with it, out of the c that may be drawn.
LEMMA OddsArithmetic ==
  ASSUME NEW i \in Nat, NEW n \in Nat, NEW t \in Nat \ {0},
         NEW a \in Nat, NEW b \in Nat, NEW c \in Nat, NEW low \in Nat, NEW high \in Int,
         b = a + t, i = 1 => a = 0, i = n => b = c, i # n => b < c,
         i = 1 => low = 0, i # 1 => low = a + 1,
         i = n => high = c - 1, i # n => high = b
  PROVE  /\ \A w : (w \in 0..(c - 1) /\ b >= w /\ (i = 1 \/ a < w)) <=> w \in low..high
         /\ low <= high + 1 /\ high - low + 1 - t \in -1..1
  <1>1. (low = 0 /\ i = 1 /\ a = 0) \/ (low = a + 1 /\ i # 1)
    OBVIOUS
  <1>2. (high = c - 1 /\ b = c) \/ (high = b /\ b < c)
    OBVIOUS
  <1>3. low <= high + 1
    BY <1>1, <1>2
  <1>4. high - low + 1 - t \in -1..1
    BY <1>1, <1>2
  <1>5. ASSUME NEW w \in Int
        PROVE  (w \in 0..(c - 1) /\ b >= w /\ (i = 1 \/ a < w)) <=> w \in low..high
    BY <1>1, <1>2
  <1>6. \A w : (w \in 0..(c - 1) => w \in Int) /\ (w \in low..high => w \in Int)
    OBVIOUS
  <1>7. QED BY <1>3, <1>4, <1>5, <1>6, Zenon

\* How many numbers a process wins.
LEMMA Odds ==
  ASSUME LotteryInv, NEW i \in DOMAIN Purged
  PROVE  Cardinality(Wins(Purged[i])) - tickets[Purged[i]] \in -1..1
  <1>1. PICK n \in Nat \ {0} : n = Len(Purged) /\ i \in 1..n
    BY CountedOnTheWay, Zenon
  <1>2. PICK m \in 0..n : m = i - 1
    BY <1>1
  <1>3. PICK t \in 1..MaxTickets : t = tickets[Purged[i]]
    <2>1. Purged[i] \in Task
      BY PurgedRuns
    <2>2. QED BY <2>1, Zenon DEF LotteryInv
  <1>4. PICK a, b, c \in Nat : a = Counted(m) /\ b = Counted(i) /\ c = TotalTickets
    <2>1. i \in 0..n /\ n \in 0..n
      BY <1>1
    <2>2. QED BY <1>1, <1>2, <2>1, CountedOnTheWay, Zenon
  <1>5. b = a + t
    BY <1>1, <1>2, <1>3, <1>4, CountedOnTheWay, Zenon
  <1>6. i = 1 => a = 0
    <2>1. i = 1 => m = 0
      BY <1>2
    <2>2. QED BY <1>4, <2>1, CountedOnTheWay, Zenon
  <1>7. (i = n => b = c) /\ (i # n => b < c)
    <2>1. i \in 0..n /\ n \in 0..n /\ (i # n => i < n)
      BY <1>1
    <2>2. TotalTickets = Counted(n) /\ (i < n => Counted(i) < Counted(n))
      BY <1>1, <2>1, CountedOnTheWay, Zenon
    <2>3. QED BY <1>4, <2>1, <2>2, Zenon
  <1>8. \A w : w \in Wins(Purged[i]) <=> w \in 0..(c - 1) /\ b >= w /\ (i = 1 \/ a < w)
    BY <1>2, <1>4, WinsOf, Zenon DEF Wins, Draws
  <1>9. PICK low \in Nat : (i = 1 => low = 0) /\ (i # 1 => low = a + 1)
    BY a + 1 \in Nat, 0 \in Nat, Zenon
  <1>10. PICK high \in Int : (i = n => high = c - 1) /\ (i # n => high = b)
    BY c - 1 \in Int, b \in Int, Zenon
  <1>11. /\ \A w : (w \in 0..(c - 1) /\ b >= w /\ (i = 1 \/ a < w)) <=> w \in low..high
         /\ low <= high + 1 /\ high - low + 1 - t \in -1..1
    <2>1. i \in Nat /\ n \in Nat /\ t \in Nat \ {0}
      BY <1>1, <1>3, LotteryAssumption
    <2>2. QED BY ONLY <1>5, <1>6, <1>7, <1>9, <1>10, <2>1, OddsArithmetic, a \in Nat,
              b \in Nat, c \in Nat, low \in Nat, high \in Int, SMT
  <1>12. Wins(Purged[i]) = low..high
    BY <1>8, <1>11, Zenon
  <1>13. Cardinality(low..high) = high - low + 1
    <2>1. Cardinality(low..high) = IF low > high THEN 0 ELSE high - low + 1
      <3>1. low \in Int
        OBVIOUS
      <3>2. QED BY <3>1, FS_Interval, Zenon
    <2>2. low <= high + 1
      BY <1>11, Zenon
    <2>3. QED BY <2>1, <2>2
  <1>14. Cardinality(Wins(Purged[i])) = high - low + 1
    BY <1>12, <1>13, Zenon
  <1>15. high - low + 1 - t \in -1..1
    BY <1>11, Zenon
  <1>16. QED BY <1>3, <1>14, <1>15

LEMMA LotteryInvInit == LotteryInit => LotteryInv
  <1> SUFFICES ASSUME LotteryInit PROVE LotteryInv
    BY Zenon
  <1>1. ready \in Seq(Task) /\ DOMAIN ready = {1} /\ ready[1] = Dummy
    BY DEF LotteryInit, Task
  <1>2. QED BY <1>1, LotteryAssumption, Zenon DEF LotteryInit, LotteryInv, EachOnce, Task

\* A draw keeps the idle process and leaves only those that can run.
LEMMA DrawInv ==
  ASSUME LotteryInv, NEW w \in Draws, Draw(w)
  PROVE  LotteryInv'
  <1>1. Winner(w) # {} /\ Winner(w) \subseteq Task
    BY DrawsWin, Zenon
  <1>2. running' \in Task /\ aborted' = aborted
    BY <1>1, Zenon DEF Draw
  <1>3. /\ ready' \in Seq(Task) /\ EachOnce(ready')
        /\ \A i \in DOMAIN ready' : state[ready'[i]] = "AVAILABLE"
        /\ \E i \in DOMAIN ready' : ready'[i] = Dummy
    BY PurgedRuns, Zenon DEF Draw
  <1>4. "AVAILABLE" # "BLOCKED"
    OBVIOUS
  <1>5. QED BY <1>2, <1>3, <1>4, Zenon DEF LotteryInv, Draw

\* Blocking takes the process out of the queue.
LEMMA BlockRunningInv ==
  ASSUME LotteryInv, BlockRunning
  PROVE  LotteryInv'
  <1> DEFINE keep == {i \in DOMAIN ready : ready[i] # running}
  <1>1. /\ ready \in Seq(Task) /\ EachOnce(ready) /\ keep \in SUBSET DOMAIN ready
        /\ ready' = Selected(ready, keep)
    BY Zenon DEF LotteryInv, BlockRunning
  <1>2. running \in Contender /\ running # Dummy /\ running \in Task
    BY LotteryAssumption, Zenon DEF BlockRunning, Task
  <1>3. PICK d \in keep : ready[d] = Dummy
    BY <1>2, Zenon DEF LotteryInv
  <1>4. \A i \in keep : ready[i] # running /\ state[ready[i]] # "BLOCKED"
    BY Zenon DEF LotteryInv
  <1> HIDE DEF keep
  <1>5. /\ ready' \in Seq(Task) /\ EachOnce(ready')
        /\ \A k \in DOMAIN ready' : \E i \in keep : ready'[k] = ready[i]
        /\ \A i \in keep : \E k \in DOMAIN ready' : ready'[k] = ready[i]
    BY <1>1, SelectedKeeps, Zenon
  <1>6. \E k \in DOMAIN ready' : ready'[k] = Dummy
    BY <1>3, <1>5, Zenon
  <1>7. \A k \in DOMAIN ready' : ready'[k] \in Task
    BY <1>5
  <1>8. state' \in [Task -> {"AVAILABLE", "BLOCKED", "EXITED"}]
        /\ \A t \in Task : t # running => state'[t] = state[t]
    BY Zenon DEF LotteryInv, BlockRunning
  <1>9. \A k \in DOMAIN ready' : state'[ready'[k]] # "BLOCKED"
    <2>1. ASSUME NEW k \in DOMAIN ready' PROVE state'[ready'[k]] # "BLOCKED"
      <3>1. PICK i \in keep : ready'[k] = ready[i]
        BY <1>5, Zenon
      <3>2. ready'[k] # running /\ state[ready'[k]] # "BLOCKED"
        BY <1>4, <3>1, Zenon
      <3>3. QED BY <1>7, <1>8, <3>2, Zenon
    <2>2. QED BY <2>1, Zenon
  <1>10. state'[Dummy] = "AVAILABLE"
    BY <1>2, <1>8, Zenon DEF LotteryInv, Task
  <1>11. QED BY <1>5, <1>6, <1>8, <1>9, <1>10, Zenon DEF LotteryInv, BlockRunning

\* A process that is woken was not in the queue.
LEMMA RescheduleInv ==
  ASSUME LotteryInv, NEW p \in Contender, Reschedule(p)
  PROVE  LotteryInv'
  <1>1. p \in Task /\ p # Dummy
    BY LotteryAssumption, Zenon DEF Task
  <1>2. PICK n \in Nat : n = Len(ready) /\ DOMAIN ready = 1..n
    BY DEF LotteryInv
  <1>3. /\ ready' \in Seq(Task) /\ DOMAIN ready' = 1..(n + 1)
        /\ ready'[n + 1] = p /\ \A i \in 1..n : ready'[i] = ready[i]
    <2>1. ready \in Seq(Task) /\ ready' = Append(ready, p)
      BY Zenon DEF LotteryInv, Reschedule
    <2>2. QED BY <1>1, <1>2, <2>1
  <1>4. \A i \in 1..(n + 1) : i \in 1..n \/ i = n + 1
    OBVIOUS
  <1>5. \A i \in 1..n : ready[i] # p /\ ready[i] \in Task
    <2>1. \A i \in 1..n : state[ready[i]] # state[p]
      BY <1>2, Zenon DEF LotteryInv, Reschedule
    <2>2. \A i \in 1..n : ready[i] \in Task
      BY <1>2 DEF LotteryInv
    <2>3. QED BY <2>1, <2>2, Zenon
  <1>6. EachOnce(ready')
    <2>1. ASSUME NEW i \in 1..(n + 1), NEW j \in 1..(n + 1), ready'[i] = ready'[j]
          PROVE  i = j
      <3>1. CASE i \in 1..n /\ j \in 1..n
        <4>1. ready[i] = ready[j]
          BY <1>3, <2>1, <3>1, Zenon
        <4>2. QED BY <1>2, <3>1, <4>1, Zenon DEF EachOnce, LotteryInv
      <3>2. CASE i \in 1..n /\ j = n + 1
        BY <1>3, <1>5, <2>1, <3>2, Zenon
      <3>3. CASE i = n + 1 /\ j \in 1..n
        BY <1>3, <1>5, <2>1, <3>3, Zenon
      <3>4. QED BY <1>4, <3>1, <3>2, <3>3, Zenon
    <2>2. QED BY <1>3, <2>1, Zenon DEF EachOnce
  <1>7. /\ state' \in [Task -> {"AVAILABLE", "BLOCKED", "EXITED"}]
        /\ state'[p] = "AVAILABLE" /\ \A t \in Task : t # p => state'[t] = state[t]
    BY <1>1, Zenon DEF LotteryInv, Reschedule
  <1>8. \A i \in DOMAIN ready' : state'[ready'[i]] # "BLOCKED"
    <2>1. \A i \in 1..n : state'[ready'[i]] # "BLOCKED"
      <3>1. ASSUME NEW i \in 1..n PROVE state'[ready'[i]] # "BLOCKED"
        <4>1. state[ready[i]] # "BLOCKED"
          BY <1>2, Zenon DEF LotteryInv
        <4>2. state'[ready[i]] = state[ready[i]]
          BY <1>5, <1>7, Zenon
        <4>3. ready'[i] = ready[i]
          BY <1>3, Zenon
        <4>4. QED BY <4>1, <4>2, <4>3, Zenon
      <3>2. QED BY <3>1, Zenon
    <2>2. state'[ready'[n + 1]] # "BLOCKED"
      BY <1>3, <1>7
    <2>3. QED BY <1>3, <1>4, <2>1, <2>2, Zenon
  <1>9. \E i \in DOMAIN ready' : ready'[i] = Dummy
    <2>1. PICK i \in 1..n : ready[i] = Dummy
      BY <1>2, Zenon DEF LotteryInv
    <2>2. i \in 1..(n + 1)
      OBVIOUS
    <2>3. QED BY <1>3, <2>1, <2>2, Zenon
  <1>10. state'[Dummy] = "AVAILABLE"
    BY <1>1, <1>7, Zenon DEF LotteryInv, Task
  <1>11. QED BY <1>3, <1>6, <1>7, <1>8, <1>9, <1>10, Zenon DEF LotteryInv, Reschedule

LEMMA LotteryInvNext == LotteryInv /\ [LotteryNext]_lotteryVars => LotteryInv'
  <1> SUFFICES ASSUME LotteryInv, [LotteryNext]_lotteryVars PROVE LotteryInv'
    BY Zenon
  <1>1. CASE UNCHANGED lotteryVars
    BY <1>1, Zenon DEF lotteryVars, LotteryInv
  <1>2. CASE YieldCPU
    BY <1>2, Zenon DEF YieldCPU, LotteryInv
  <1>3. CASE ExitRunning
    <2>1. running \in Contender /\ running # Dummy /\ running \in Task
      BY <1>3, LotteryAssumption, Zenon DEF ExitRunning, Task
    <2>2. /\ state' \in [Task -> {"AVAILABLE", "BLOCKED", "EXITED"}]
          /\ state'[running] = "EXITED"
          /\ \A t \in Task : t # running => state'[t] = state[t]
      BY <1>3, <2>1, Zenon DEF LotteryInv, ExitRunning
    <2>3. \A i \in DOMAIN ready : ready[i] \in Task
      BY DEF LotteryInv
    <2>4. "EXITED" # "BLOCKED"
      OBVIOUS
    <2>5. state'[Dummy] = "AVAILABLE"
      BY <2>1, <2>2, Zenon DEF LotteryInv, Task
    <2>6. \A i \in DOMAIN ready : state'[ready[i]] # "BLOCKED"
      BY <2>2, <2>3, <2>4, Zenon DEF LotteryInv
    <2>7. QED BY <1>3, <2>2, <2>5, <2>6, Zenon DEF LotteryInv, ExitRunning
  <1>4. ASSUME NEW p \in Contender, NEW n \in 1..MaxTickets, GiveTickets(p, n)
        PROVE  LotteryInv'
    BY <1>4, Zenon DEF GiveTickets, LotteryInv
  <1>5. QED BY <1>1, <1>2, <1>3, <1>4, DrawInv, BlockRunningInv, RescheduleInv, Zenon
            DEF LotteryNext

\* The odds of lottery::next follow the tickets, and it never fails to find a winner.
THEOREM OddsAlwaysFollowTickets == LotterySpec => []OddsFollowTickets
  <1>1. LotterySpec => []LotteryInv
    BY LotteryInvInit, LotteryInvNext, PTL DEF LotterySpec
  <1>2. LotteryInv => OddsFollowTickets
    BY DrawsWin, Odds, Zenon DEF OddsFollowTickets, LotteryInv
  <1>3. QED BY <1>1, <1>2, PTL
===============================================================================
