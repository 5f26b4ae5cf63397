--------------------------------- MODULE Paging ---------------------------------
(***************************************************************************)
(* Memory of processes: physical pages and their reference counts          *)
(* (mm/phys.cpp), page tables with zero pages and copy on write            *)
(* (mm/virt.cpp), regions (mm/memmgr.cpp), the page fault handler          *)
(* (mm/pagefault.cpp) and the system calls on regions                      *)
(* (syscalls/impl/mem.cpp), with clone, exec, exit and deletion of         *)
(* processes as far as they handle memory.                                 *)
(*                                                                         *)
(* The handler and the calls run to their end before another process       *)
(* moves.  A region is a fixed slot of RegionSize pages; what a page holds *)
(* is one value.  An entry that is not present reads as the zero page      *)
(* whether mapped so or cleared, since gZeroPagePhysical is 0, so the bits *)
(* of such an entry, which map() overwrites, are FALSE here.               *)
(***************************************************************************)
EXTENDS Integers, FiniteSets

CONSTANTS
    Proc, FirstProc,
    Frame,          \* physical pages
    NumSlots,       \* regions a process may have
    RegionSize,     \* pages of a region
    CountLimit,     \* reference counts are modulo this: 2^8
    Value,          \* contents of a page
    Zeros,          \* the contents of a cleared page
    FileData,       \* the contents a mapped file gives a page
    Nothing

\* Of a region_t: its permission, and whether a file is behind it.
Permission == [rw : BOOLEAN, file : BOOLEAN]

ASSUME PagingAssumption ==
    /\ FirstProc \in Proc /\ IsFiniteSet(Proc) /\ IsFiniteSet(Frame)
    /\ NumSlots \in Nat /\ RegionSize \in Nat
    /\ CountLimit \in Nat /\ CountLimit > 1
    /\ Zeros \in Value /\ FileData \in Value
    /\ Nothing \notin Frame /\ Nothing \notin Permission

Slot == 1..NumSlots
Page == Slot \X (1..RegionSize)

\* What a process keeps physical pages for: its memory, its page tables (one
\* stands for all) and its page directory.
Tables == <<0, 1>>
Directory == <<0, 2>>
Use == Page \cup {Tables, Directory}

VARIABLES
    life,           \* of a process: "free", "alive" or "exited"
    frame,          \* the physical page of a use; Nothing: not present
    rw, cow,        \* TableEntry::rw and cow of a page
    permission,     \* of a region: [rw, file], or Nothing
    refcnt,         \* phys_page_t::refcnt
    freePages,      \* PhysicalPageManager::mFreePages
    content,        \* what a physical page holds
    view,           \* what the process wrote or inherited there (history)
    panic,          \* the kernel gave up
    wrapped,        \* a reference count went around (history)
    exposed,        \* a shared page that is not to be copied got writable (history)
    overruled       \* pages copied on write after the region was protected (history)

pageVars == <<frame, rw, cow>>
physVars == <<refcnt, freePages>>
historyVars == <<wrapped, exposed, overruled>>
pagingVars == <<life, pageVars, permission, physVars, content, view, panic, historyVars>>

NoUses == [u \in Use |-> Nothing]
NoRegions == [r \in Slot |-> Nothing]
NoBits == [g \in Page |-> FALSE]

\* The first process runs in an address space made at boot.
PagingInit ==
    \E t, d \in Frame :
        /\ t # d
        /\ life = [p \in Proc |-> IF p = FirstProc THEN "alive" ELSE "free"]
        /\ frame = [p \in Proc |-> IF p = FirstProc
                        THEN [NoUses EXCEPT ![Tables] = t, ![Directory] = d] ELSE NoUses]
        /\ rw = [p \in Proc |-> NoBits]
        /\ cow = [p \in Proc |-> NoBits]
        /\ permission = [p \in Proc |-> NoRegions]
        /\ refcnt = [f \in Frame |-> IF f \in {t, d} THEN 1 ELSE 0]
        /\ freePages = Cardinality(Frame) - 2
        /\ content = [f \in Frame |-> Zeros]
        /\ view = [p \in Proc |-> [g \in Page |-> Zeros]]
        /\ panic = FALSE
        /\ wrapped = FALSE /\ exposed = FALSE /\ overruled = {}

Alive(p) == ~panic /\ life[p] = "alive"
Present(p, g) == frame[p][g] # Nothing

(***************************************************************************)
(* PhysicalPageManager.                                                    *)
(***************************************************************************)
IsFree(f) == refcnt[f] = 0
FreeFrames == {f \in Frame : IsFree(f)}

\* alloc(): some free page; which one, mLastChecked decides.
AllocPages(S) ==
    /\ S \subseteq FreeFrames
    /\ refcnt' = [f \in Frame |-> IF f \in S THEN 1 ELSE refcnt[f]]
    /\ freePages' = freePages - Cardinality(S)

UsesIn(p, U, f) == {u \in U : frame[p][u] = f}

\* alloc(base): one more reference, of eight bits, for each page p uses.
AllocAgain(p, count, free) ==
    LET n(f) == Cardinality(UsesIn(p, Page, f))
    IN /\ refcnt' = [f \in Frame |-> (count[f] + n(f)) % CountLimit]
       /\ freePages' = free - Cardinality({f \in Frame :
                                  \E k \in 1..n(f) : (count[f] + k) % CountLimit = 1})
       /\ wrapped' = (wrapped \/ \E f \in Frame : count[f] + n(f) >= CountLimit)

\* dealloc for each use of U that has a page; a page that is free panics.  The
\* mutant lets go of a page with its first reference.
LessAll(f, n) == IF n > 0 THEN 0 ELSE refcnt[f]
Less(f, n) == refcnt[f] - n

Dealloc(p, U) ==
    LET n(f) == Cardinality(UsesIn(p, U, f))
    IN \/ /\ \A f \in Frame : n(f) <= refcnt[f]
          /\ refcnt' = [f \in Frame |-> Less(f, n(f))]
          /\ freePages' = freePages + Cardinality({f \in Frame : n(f) > 0 /\ n(f) = refcnt[f]})
          /\ UNCHANGED panic
       \/ /\ \E f \in Frame : n(f) > refcnt[f]
          /\ panic' = TRUE
          /\ UNCHANGED physVars

\* kernel_result_t::result() of a failed allocation.
OutOfMemory ==
    /\ panic' = TRUE
    /\ UNCHANGED <<life, pageVars, permission, physVars, content, view, historyVars>>

(***************************************************************************)
(* Regions.                                                                *)
(***************************************************************************)
PagesOf(r) == {g \in Page : g[1] = r}

\* mapregion and mmap: findAndZeroPageRegion and findAndFileMapRegion.  Nothing
\* is allocated.  findAndMapRegion is this followed by the faults of its pages.
MapRegion(p, r, write, file) ==
    /\ Alive(p)
    /\ permission[p][r] = Nothing
    /\ file => write
    /\ permission' = [permission EXCEPT ![p][r] = [rw |-> write, file |-> file]]
    /\ UNCHANGED <<life, pageVars, physVars, content, view, panic, historyVars>>

\* unmapregion: removeRegion unmaps every page.
UnmapRegion(p, r) ==
    /\ Alive(p)
    /\ permission[p][r] # Nothing
    /\ permission' = [permission EXCEPT ![p][r] = Nothing]
    /\ frame' = [frame EXCEPT ![p] = [u \in Use |-> IF u \in PagesOf(r) THEN Nothing ELSE @[u]]]
    /\ rw' = [rw EXCEPT ![p] = [g \in Page |-> IF g \in PagesOf(r) THEN FALSE ELSE @[g]]]
    /\ cow' = [cow EXCEPT ![p] = [g \in Page |-> IF g \in PagesOf(r) THEN FALSE ELSE @[g]]]
    /\ overruled' = overruled \ ({p} \X PagesOf(r))
    /\ view' = [view EXCEPT ![p] = [g \in Page |-> IF g \in PagesOf(r) THEN Zeros ELSE @[g]]]
    /\ Dealloc(p, PagesOf(r))
    /\ UNCHANGED <<life, content, wrapped, exposed>>

\* setregionperms: protectRegionAtAddress leaves pages that are to be copied on
\* write alone when the region gets writable.  The mutant does not.
SkippedNever(p, g, write) == FALSE
Skipped(p, g, write) == write /\ cow[p][g]

Protect(p, r, write) ==
    LET changed == {g \in PagesOf(r) : Present(p, g) /\ ~Skipped(p, g, write)} IN
    /\ Alive(p)
    /\ permission[p][r] # Nothing
    /\ permission' = [permission EXCEPT ![p][r].rw = write]
    /\ rw' = [rw EXCEPT ![p] = [g \in Page |-> IF g \in changed THEN write ELSE @[g]]]
    /\ exposed' = (exposed \/ (write /\ \E g \in changed :
                                      ~cow[p][g] /\ refcnt[frame[p][g]] # 1))
    /\ overruled' = overruled \ ({p} \X PagesOf(r))
    /\ UNCHANGED <<life, frame, cow, physVars, content, view, panic, wrapped>>

(***************************************************************************)
(* Accesses of a process to its pages.                                     *)
(***************************************************************************)
\* zeropage_recover and mmap_fault_recover: a page not present gets memory with
\* the permissions of its region.  The mutant does not ask for them.
PageRwAlways(p, g) == TRUE
PageRw(p, g) == permission[p][g[1]].rw

ZeroFault(p, g) ==
    /\ Alive(p)
    /\ ~Present(p, g)
    /\ permission[p][g[1]] # Nothing
    /\ LET data == IF permission[p][g[1]].file THEN FileData ELSE Zeros IN
       \/ \E f \in FreeFrames :
             /\ AllocPages({f})
             /\ frame' = [frame EXCEPT ![p][g] = f]
             /\ rw' = [rw EXCEPT ![p][g] = PageRw(p, g)]
             /\ cow' = [cow EXCEPT ![p][g] = FALSE]
             /\ content' = [content EXCEPT ![f] = data]
             /\ view' = [view EXCEPT ![p][g] = data]
             /\ UNCHANGED <<life, permission, panic, historyVars>>
       \/ FreeFrames = {} /\ OutOfMemory

\* cow_recover and clonePage: a write to such a page copies it.  Without memory
\* the process is killed (ExitMemory).  The mutant does not copy what the page held.
CopiedNot(f) == Zeros
Copied(f) == content[f]

COWFault(p, g) ==
    /\ Alive(p)
    /\ Present(p, g) /\ ~rw[p][g] /\ cow[p][g]
    /\ \E f \in FreeFrames :
          LET old == frame[p][g]
              count == [refcnt EXCEPT ![f] = 1]
          IN
          /\ \/ /\ count[old] > 0
                /\ refcnt' = [count EXCEPT ![old] = @ - 1]
                /\ freePages' = freePages - (IF count[old] = 1 THEN 0 ELSE 1)
                /\ UNCHANGED panic
             \/ count[old] = 0 /\ panic' = TRUE /\ UNCHANGED physVars
          /\ frame' = [frame EXCEPT ![p][g] = f]
          /\ rw' = [rw EXCEPT ![p][g] = TRUE]
          /\ cow' = [cow EXCEPT ![p][g] = FALSE]
          /\ content' = [content EXCEPT ![f] = Copied(old)]
    /\ overruled' = IF permission[p][g[1]].rw THEN overruled ELSE overruled \cup {<<p, g>>}
    /\ UNCHANGED <<life, permission, view, wrapped, exposed>>

WritePage(p, g, v) ==
    /\ Alive(p)
    /\ Present(p, g) /\ rw[p][g]
    /\ content' = [content EXCEPT ![frame[p][g]] = v]
    /\ view' = [view EXCEPT ![p][g] = v]
    /\ UNCHANGED <<life, pageVars, permission, physVars, panic, historyVars>>

(***************************************************************************)
(* Processes.                                                              *)
(***************************************************************************)
\* createAddressSpace: tables and a directory, or the kernel panics.
NewSpace(c, t, d, uses) ==
    frame' = [frame EXCEPT ![c] = [uses EXCEPT ![Tables] = t, ![Directory] = d]]

\* exec: the image is put into regions of the new process later.
Exec(p, c) ==
    /\ Alive(p)
    /\ life[c] = "free"
    /\ \/ \E t, d \in FreeFrames :
             /\ t # d
             /\ AllocPages({t, d})
             /\ NewSpace(c, t, d, NoUses)
             /\ life' = [life EXCEPT ![c] = "alive"]
             /\ permission' = [permission EXCEPT ![c] = NoRegions]
             /\ UNCHANGED <<rw, cow, content, view, panic, historyVars>>
       \/ Cardinality(FreeFrames) < 2 /\ OutOfMemory

\* clone: cloneAddressSpace shares every page there is, writable ones to be
\* copied on write in both processes, and MemoryManager::clone copies regions.
\* The mutant leaves the pages of the parent writable.
ParentRwKept(p) == rw[p]
ParentRw(p) == NoBits

Clone(p, c) ==
    LET marked == [g \in Page |-> rw[p][g] \/ cow[p][g]] IN
    /\ Alive(p)
    /\ life[c] = "free"
    /\ \/ \E t, d \in FreeFrames :
             /\ t # d
             /\ AllocAgain(p, [f \in Frame |-> IF f \in {t, d} THEN 1 ELSE refcnt[f]],
                           freePages - 2)
             /\ NewSpace(c, t, d, frame[p])
             /\ rw' = [rw EXCEPT ![p] = ParentRw(p), ![c] = NoBits]
             /\ cow' = [cow EXCEPT ![p] = marked, ![c] = marked]
             /\ life' = [life EXCEPT ![c] = "alive"]
             /\ permission' = [permission EXCEPT ![c] = permission[p]]
             /\ view' = [view EXCEPT ![c] = view[p]]
             /\ UNCHANGED <<content, panic, exposed, overruled>>
       \/ Cardinality(FreeFrames) < 2 /\ OutOfMemory

\* exit: cleanupAllRegions and cleanAddressSpace; the directory is still in use.
\* The mutant forgets the page tables.
GivenBackAtExitButTables == Page
GivenBackAtExit == Page \cup {Tables}

ExitMemory(p) ==
    /\ Alive(p)
    /\ p # FirstProc
    /\ life' = [life EXCEPT ![p] = "exited"]
    /\ permission' = [permission EXCEPT ![p] = NoRegions]
    /\ frame' = [frame EXCEPT ![p] = [NoUses EXCEPT ![Directory] = frame[p][Directory]]]
    /\ rw' = [rw EXCEPT ![p] = NoBits]
    /\ cow' = [cow EXCEPT ![p] = NoBits]
    /\ overruled' = overruled \ ({p} \X Page)
    /\ view' = [view EXCEPT ![p] = [g \in Page |-> Zeros]]
    /\ Dealloc(p, GivenBackAtExit)
    /\ UNCHANGED <<content, wrapped, exposed>>

\* The deleter gives the directory back.
DeleteDirectory(p) ==
    /\ ~panic
    /\ life[p] = "exited"
    /\ life' = [life EXCEPT ![p] = "free"]
    /\ frame' = [frame EXCEPT ![p] = NoUses]
    /\ Dealloc(p, {Directory})
    /\ UNCHANGED <<rw, cow, permission, content, view, historyVars>>

PagingNext ==
    \E p \in Proc :
        \/ \E r \in Slot, write, file \in BOOLEAN : MapRegion(p, r, write, file)
        \/ \E r \in Slot : UnmapRegion(p, r) \/ \E write \in BOOLEAN : Protect(p, r, write)
        \/ \E g \in Page : ZeroFault(p, g) \/ COWFault(p, g) \/ \E v \in Value : WritePage(p, g, v)
        \/ \E c \in Proc : Exec(p, c) \/ Clone(p, c)
        \/ ExitMemory(p) \/ DeleteDirectory(p)

PagingSpec == PagingInit /\ [][PagingNext]_pagingVars

(***************************************************************************)
(* Properties.                                                             *)
(***************************************************************************)
UsersOf(f) == {x \in Proc \X Use : frame[x[1]][x[2]] = f}

\* Until an 8-bit count goes around, the count of a physical page is the number of
\* page table entries and tables that use it, over faults, copies, clones,
\* unmapping, exits and deletions: none is given out while in use, none is lost,
\* and the kernel never panics over a page given back twice, only for want of one.
PagesCounted ==
    ~wrapped =>
        /\ ~panic => /\ \A f \in Frame : refcnt[f] = Cardinality(UsersOf(f))
                     /\ freePages = Cardinality(FreeFrames)
        /\ panic => Cardinality(FreeFrames) < 2

\* A process reads from its memory what it wrote or inherited there, whatever the
\* processes it shares pages with write, unless a read-only page that is shared
\* was made writable.  And it can write to pages of its writable regions only, but
\* for those that clonePage made writable because they were to be copied on write
\* when the region was protected.
PrivateMemory ==
    ~panic =>
        \A p \in Proc, g \in Page : Present(p, g) =>
            /\ ~wrapped /\ ~exposed => content[frame[p][g]] = view[p][g]
            /\ rw[p][g] => permission[p][g[1]].rw \/ <<p, g>> \in overruled
================================================================================
