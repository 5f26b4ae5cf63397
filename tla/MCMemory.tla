-------------------------------- MODULE MCMemory --------------------------------
(***************************************************************************)
(* Memory of processes and the kernel heap, each on its own: one moves in  *)
(* a behaviour and the other stays as it is.  Memory is looked at twice.   *)
(* "pages": two processes and everything they can do to anonymous memory.  *)
(* "crowd": three that map files, touch their pages, clone and exit, so    *)
(* that a reference count can wrap, which is where a behaviour ends.       *)
(***************************************************************************)
EXTENDS Paging, KernelHeap

CONSTANTS Third     \* the process only a crowd has

VARIABLE part

memoryVars == <<part, pagingVars, heapVars>>

\* Physical pages are interchangeable: memory is taken from the low end, page
\* tables from the high end.
Highest(S) == CHOOSE f \in S : \A h \in S : h <= f

MemoryInit ==
    /\ part \in {"pages", "crowd", "heap"}
    /\ PagingInit
    /\ frame[FirstProc][Directory] = Highest(Frame)
    /\ frame[FirstProc][Tables] = Highest(Frame \ {Highest(Frame)})
    /\ HeapInit

FromTheEnds ==
    LET spare == {f \in Frame : refcnt[f] = 0 /\ refcnt'[f] = 0}
        taken == {f \in Frame : refcnt[f] = 0 /\ refcnt'[f] # 0}
    IN /\ \A p \in Proc, u \in Use : frame'[p][u] \in taken =>
             \A h \in spare : IF u \in Page THEN frame'[p][u] < h ELSE frame'[p][u] > h
       /\ \A p \in Proc : life[p] = "free" /\ life'[p] = "alive"
             => frame'[p][Directory] > frame'[p][Tables]

\* What the two parts about processes leave out.  Nobody writes once a shared page
\* got writable: what the pages hold is then anything.
OnlyAnonymous ==
    /\ exposed /\ frame' = frame => content' = content
    /\ life'[Third] = "free"
    /\ \A p \in Proc, r \in Slot : permission'[p][r] # Nothing => ~permission'[p][r].file

OnlyFiles ==
    /\ \A p \in Proc, r \in Slot :
          permission'[p][r] # Nothing => permission'[p][r] = [rw |-> TRUE, file |-> TRUE]
    /\ \A f \in Frame : content'[f] \in {content[f], FileData}
    /\ \A p \in Proc : life[p] = "free" /\ life'[p] = "alive" => permission'[p] # NoRegions
    /\ ~wrapped

ProcessesNext ==
    /\ part \in {"pages", "crowd"}
    /\ PagingNext
    /\ IF part = "pages" THEN OnlyAnonymous ELSE OnlyFiles
    /\ FromTheEnds
    /\ UNCHANGED <<part, heapVars>>

KernelHeapNext ==
    /\ part = "heap"
    /\ HeapNext
    /\ UNCHANGED <<part, pagingVars>>

MemorySpec == MemoryInit /\ [][ProcessesNext \/ KernelHeapNext]_memoryVars
================================================================================
