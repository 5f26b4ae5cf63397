------------------------------- MODULE KernelHeap -------------------------------
(***************************************************************************)
(* The kernel's allocator: malloc and free over a circular list of free    *)
(* blocks in the order of their addresses (libc/malloc.cpp), and sbrk,     *)
(* which grows the heap by whole pages (mm/heap.cpp).  Memory is measured  *)
(* in block headers, the unit the allocator computes in.                   *)
(***************************************************************************)
EXTENDS Integers, FiniteSets

CONSTANTS
    HeapLow, HeapHigh,  \* the range of the heap
    PageUnits,          \* headers in a page
    NALLOC,             \* headers that malloc asks sbrk for, at least
    MaxSize             \* bound: headers of an allocation, its own included

\* The static header `list` lies before the heap and has length 0.
List == 0

ASSUME HeapAssumption ==
    /\ HeapLow \in Nat /\ HeapLow > List + 1 /\ HeapHigh \in Nat
    /\ PageUnits \in Nat \ {0} /\ NALLOC \in Nat \ {0} /\ MaxSize \in Nat

VARIABLES
    chain,          \* meta.next of the free blocks
    len,            \* meta.len of the free blocks and of those in use
    first,          \* where the next search starts
    current,        \* Heap::mCurrent
    inUse,          \* blocks that malloc returned
    wasted,         \* what sbrk gave in excess of what was asked for (history)
    heapPanic       \* "kernel heap allocation failed", or a search without end

heapVars == <<chain, len, first, current, inUse, wasted, heapPanic>>

HeapInit ==
    /\ chain = [a \in {List} |-> List]
    /\ len = [a \in {List} |-> 0]
    /\ first = List
    /\ current = HeapLow
    /\ inUse = {}
    /\ wasted = 0
    /\ heapPanic = FALSE

\* The blocks that a search looks at which begins at a, follows the list and ends
\* at the first block in stop: the fewest that include a and the next one of each
\* that does not end it.
Looked(next, a, stop) ==
    {b \in DOMAIN next : \A S \in SUBSET DOMAIN next :
        a \in S /\ (\A s \in S \ stop : next[s] \in S) => b \in S}

\* Where it ends, if it does.
Found(next, a, stop) == Looked(next, a, stop) \cap stop

(***************************************************************************)
(* free(): the block goes where the addresses want it and is merged with   *)
(* the free blocks next to it.  h is [next, len, first].                   *)
(***************************************************************************)
Without(f, S) == [a \in DOMAIN f \ S |-> f[a]]
With(f, a, v) == [x \in DOMAIN f \cup {a} |-> IF x = a THEN v ELSE f[x]]

\* The mutant does not see that the block after is free.
TouchesNever(h, block, next) == FALSE
Touches(h, block, next) == block + h.len[block] = next

Spot(h, block) ==
    Found(h.next, h.first,
          {a \in DOMAIN h.next : \/ a < block /\ block < h.next[a]
                                 \/ (block > a \/ block < h.next[a]) /\ a >= h.next[a]})

\* block with the one after it, then the one before with block.
MergeAfter(h, block, next) ==
    IF Touches(h, block, next)
    THEN [h EXCEPT !.len = With(Without(@, {next}), block, @[block] + @[next]),
                   !.next = With(Without(@, {next}), block, @[next])]
    ELSE [h EXCEPT !.next = With(@, block, next)]

MergeBefore(h, iter, block) ==
    IF iter + h.len[iter] = block
    THEN [h EXCEPT !.len = With(Without(@, {block}), iter, @[iter] + @[block]),
                   !.next = With(Without(@, {block}), iter, @[block])]
    ELSE [h EXCEPT !.next = With(@, iter, block)]

FreeAt(h, block, iter) ==
    [MergeBefore(MergeAfter(h, block, h.next[iter]), iter, block) EXCEPT !.first = iter]

(***************************************************************************)
(* malloc(): the first block that is large enough, from the one after      *)
(* `first` on; the end of a larger one.  The mutant takes the start.       *)
(***************************************************************************)
Enough(h, size) == {a \in DOMAIN h.next : h.len[a] >= size}

Fits(h, size) ==
    Found(h.next, h.next[h.first], Enough(h, size) \cup {h.first}) \cap Enough(h, size)

Before(h, p) == CHOOSE a \in DOMAIN h.next : h.next[a] = p

TakenFromStart(h, p, size) == p
TakenFrom(h, p, size) == p + h.len[p] - size

\* The list and the block taken from it.
Take(h, p, size) ==
    LET block == TakenFrom(h, p, size) IN
    IF h.len[p] = size
    THEN [next |-> Without([h.next EXCEPT ![Before(h, p)] = h.next[p]], {p}),
          len |-> h.len, first |-> Before(h, p), block |-> p]
    ELSE [next |-> h.next, len |-> With([h.len EXCEPT ![p] = @ - size], block, size),
          first |-> Before(h, p), block |-> block]

Heap == [next |-> chain, len |-> len, first |-> first]

Becomes(h) == chain' = h.next /\ len' = h.len /\ first' = h.first

Panics == heapPanic' = TRUE /\ UNCHANGED <<chain, len, first, inUse>>

\* Heap::sbrk: whole pages; what malloc did not ask for of them is not used.
RoundUp(n) == ((n + PageUnits - 1) \div PageUnits) * PageUnits
Asked(size) == IF size >= NALLOC THEN size ELSE NALLOC

Malloc(size) ==
    /\ ~heapPanic
    /\ \E p \in Fits(Heap, size) :
          LET taken == Take(Heap, p, size) IN
          Becomes(taken) /\ inUse' = inUse \cup {taken.block}
    /\ UNCHANGED <<current, wasted, heapPanic>>

\* No block is large enough: the heap grows, the new block is freed, and the
\* search goes on.
MallocGrows(size) ==
    LET grown == [Heap EXCEPT !.len = With(@, current, Asked(size))]
    IN
    /\ ~heapPanic
    /\ Fits(Heap, size) = {}
    /\ \/ /\ current + RoundUp(Asked(size)) <= HeapHigh
          /\ current' = current + RoundUp(Asked(size))
          /\ wasted' = wasted + RoundUp(Asked(size)) - Asked(size)
          /\ \/ \E iter \in Spot(grown, current) :
                \E p \in Fits(FreeAt(grown, current, iter), size) :
                   LET taken == Take(FreeAt(grown, current, iter), p, size) IN
                   /\ Becomes(taken)
                   /\ inUse' = inUse \cup {taken.block}
                   /\ UNCHANGED heapPanic
             \/ Spot(grown, current) = {} /\ Panics
       \/ current + RoundUp(Asked(size)) > HeapHigh /\ Panics /\ UNCHANGED <<current, wasted>>

Free(block) ==
    /\ ~heapPanic
    /\ block \in inUse
    /\ \/ \E iter \in Spot(Heap, block) :
             Becomes(FreeAt(Heap, block, iter)) /\ inUse' = inUse \ {block} /\ UNCHANGED heapPanic
       \/ Spot(Heap, block) = {} /\ Panics
    /\ UNCHANGED <<current, wasted>>

HeapNext ==
    \/ \E size \in 2..MaxSize : Malloc(size) \/ MallocGrows(size)
    \/ \E block \in inUse : Free(block)

HeapSpec == HeapInit /\ [][HeapNext]_heapVars

(***************************************************************************)
(* Properties.                                                             *)
(***************************************************************************)
FreeBlocks == DOMAIN chain \ {List}
Extent(b) == b..(b + len[b] - 1)
Above(a) == {b \in DOMAIN chain : a < b}

\* Whatever is allocated and freed in whatever order, blocks in use and free ones
\* never overlap and together with what rounding wasted make up the heap, the free
\* list goes around once in the order of addresses, free blocks next to each other
\* are always merged, and the kernel gives up only when the heap cannot grow.
HeapConsistent ==
    LET blocks == inUse \cup FreeBlocks IN
    /\ \A b, c \in blocks : b # c => Extent(b) \cap Extent(c) = {}
    /\ UNION {Extent(b) : b \in blocks} \subseteq HeapLow..(current - 1)
    /\ Cardinality(UNION {Extent(b) : b \in blocks}) + wasted = current - HeapLow
    /\ inUse \cap FreeBlocks = {}
    /\ \A a \in DOMAIN chain :
          \/ chain[a] \in Above(a) /\ \A b \in Above(a) : chain[a] <= b
          \/ chain[a] = List /\ Above(a) = {}
    /\ \A b \in FreeBlocks : b + len[b] \notin FreeBlocks
    /\ heapPanic => \E size \in 2..MaxSize :
           Fits(Heap, size) = {} /\ current + RoundUp(Asked(size)) > HeapHigh
================================================================================
