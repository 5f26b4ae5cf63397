----------------------------- MODULE PagingProofs -----------------------------
(***************************************************************************)
(* Proofs about the memory of processes, for any number of processes,      *)
(* physical pages, regions and pages in them, and any width of the         *)
(* reference counts: the counts are the numbers of users, and memory is    *)
(* private.                                                                *)
(*                                                                         *)
(* Neither is inductive alone.  That giving pages back cannot panic needs  *)
(* the counts, which need that a process slot that is free uses no pages.  *)
(* That a write is seen by nobody else needs that a writable page has one  *)
(* user, which needs the counts when a fault takes a free page and when a  *)
(* region is made writable.                                                *)
(***************************************************************************)
EXTENDS Paging, FiniteSetTheorems, TLAPS

(***************************************************************************)
(* Counting the users of physical pages: what taking pages, sharing them   *)
(* and giving them back does to the counts.                                *)
(***************************************************************************)

FrameTable == [Proc -> [Use -> Frame \cup {Nothing}]]

PagingType ==
    /\ life \in [Proc -> {"free", "alive", "exited"}]
    /\ frame \in FrameTable
    /\ rw \in [Proc -> [Page -> BOOLEAN]]
    /\ cow \in [Proc -> [Page -> BOOLEAN]]
    /\ permission \in [Proc -> [Slot -> Permission \cup {Nothing}]]
    /\ refcnt \in [Frame -> Nat]
    /\ freePages \in Int
    /\ content \in [Frame -> Value]
    /\ view \in [Proc -> [Page -> Value]]
    /\ panic \in BOOLEAN /\ wrapped \in BOOLEAN /\ exposed \in BOOLEAN

Counted ==
    /\ \A f \in Frame : refcnt[f] = Cardinality(UsersOf(f))
    /\ freePages = Cardinality(FreeFrames)

(***************************************************************************)
(* Counting.                                                               *)
(***************************************************************************)
\* Page tables and directories are apart from the pages, and all uses are finitely
\* many.
LEMMA Uses ==
    /\ Tables \in Use /\ Directory \in Use /\ Tables # Directory
    /\ Tables \notin Page /\ Directory \notin Page /\ Page \subseteq Use
    /\ IsFiniteSet(Use) /\ IsFiniteSet(Page)
    /\ \A g \in Page : g[1] \in Slot
<1>1. /\ Tables \in Use /\ Directory \in Use /\ Tables # Directory
      /\ Page \subseteq Use /\ \A g \in Page : g[1] \in Slot
  BY DEF Use, Tables, Directory, Page
<1>2. Tables \notin Page /\ Directory \notin Page
  BY PagingAssumption DEF Tables, Directory, Page, Slot
<1>3. IsFiniteSet(Page)
  <2>1. IsFiniteSet(Slot) /\ IsFiniteSet(1..RegionSize)
    BY PagingAssumption, FS_Interval DEF Slot
  <2>2. QED
    BY <2>1, FS_Product, ZenonT(30) DEF Page
<1>4. IsFiniteSet(Use)
  <2>1. IsFiniteSet({Tables}) /\ IsFiniteSet({Tables} \cup {Directory})
    BY FS_Singleton, FS_AddElement, Zenon
  <2>2. IsFiniteSet(Page \cup ({Tables} \cup {Directory}))
    BY <1>3, <2>1, FS_Union, ZenonT(30)
  <2>3. Use = Page \cup ({Tables} \cup {Directory})
    BY Zenon DEF Use
  <2>4. QED
    BY <2>2, <2>3, Zenon
<1>5. QED
  BY <1>1, <1>2, <1>3, <1>4, Zenon

\* The uses of one process, counted with its name, are as many.
LEMMA NamedUses ==
    ASSUME NEW p, NEW S, IsFiniteSet(S)
    PROVE  IsFiniteSet({p} \X S) /\ Cardinality({p} \X S) = Cardinality(S)
<1>1. IsFiniteSet({p}) /\ Cardinality({p}) = 1
  BY FS_Singleton, Zenon
<1>2. IsFiniteSet({p} \X S) /\ Cardinality({p} \X S) = 1 * Cardinality(S)
  BY <1>1, FS_Product, Zenon
<1>3. Cardinality(S) \in Nat
  BY FS_CardinalityType, Zenon
<1>4. QED
  BY <1>2, <1>3

\* Two sets with nothing in common.
LEMMA DisjointUnion ==
    ASSUME NEW S, NEW T, IsFiniteSet(S), IsFiniteSet(T), S \cap T = {}
    PROVE  /\ IsFiniteSet(S \cup T)
           /\ Cardinality(S \cup T) = Cardinality(S) + Cardinality(T)
<1>1. /\ IsFiniteSet(S \cup T)
      /\ Cardinality(S \cup T) = Cardinality(S) + Cardinality(T) - Cardinality(S \cap T)
  BY FS_Union, Zenon
<1>2. Cardinality(S \cap T) = 0
  BY FS_EmptySet, Zenon
<1>3. Cardinality(S) \in Nat /\ Cardinality(T) \in Nat
  BY FS_CardinalityType, Zenon
<1>4. QED
  BY <1>1, <1>2, <1>3

\* The users of a physical page are finitely many, and so are the uses of each.
LEMMA UsersFinite ==
    ASSUME NEW f, NEW p \in Proc, NEW U \in SUBSET Use
    PROVE  /\ IsFiniteSet(UsersOf(f)) /\ Cardinality(UsersOf(f)) \in Nat
           /\ IsFiniteSet(UsesIn(p, U, f)) /\ Cardinality(UsesIn(p, U, f)) \in Nat
           /\ Cardinality(UsesIn(p, U, f)) <= Cardinality(UsersOf(f))
<1>1. IsFiniteSet(Proc \X Use)
  BY PagingAssumption, Uses, FS_Product, Zenon
<1>2. UsersOf(f) \in SUBSET (Proc \X Use)
  BY Zenon DEF UsersOf
<1>3. IsFiniteSet(UsersOf(f)) /\ Cardinality(UsersOf(f)) \in Nat
  BY <1>1, <1>2, FS_Subset, FS_CardinalityType, Zenon
<1>4. UsesIn(p, U, f) \in SUBSET Use
  BY Zenon DEF UsesIn
<1>5. IsFiniteSet(UsesIn(p, U, f)) /\ Cardinality(UsesIn(p, U, f)) \in Nat
  BY <1>4, Uses, FS_Subset, FS_CardinalityType, Zenon
<1>6. {p} \X UsesIn(p, U, f) \in SUBSET UsersOf(f)
  BY Zenon DEF UsersOf, UsesIn
<1>7. Cardinality({p} \X UsesIn(p, U, f)) <= Cardinality(UsersOf(f))
  BY <1>3, <1>6, FS_Subset, Zenon
<1>8. QED
  BY <1>3, <1>5, <1>7, NamedUses, ZenonT(30)

\* What a change of one process's pages does to the number of users of a page.
LEMMA RowReplaced ==
    ASSUME NEW p \in Proc, NEW f, \A q \in Proc : q # p => frame'[q] = frame[q]
    PROVE  Cardinality(UsersOf(f)') =
               Cardinality(UsersOf(f)) - Cardinality(UsesIn(p, Use, f))
                   + Cardinality(UsesIn(p, Use, f)')
<1> DEFINE others == {x \in Proc \X Use : x[1] # p /\ frame[x[1]][x[2]] = f}
<1>1. /\ UsersOf(f) = others \cup ({p} \X UsesIn(p, Use, f))
      /\ others \cap ({p} \X UsesIn(p, Use, f)) = {}
  BY Zenon DEF UsersOf, UsesIn
<1>2. /\ UsersOf(f)' = others \cup ({p} \X UsesIn(p, Use, f)')
      /\ others \cap ({p} \X UsesIn(p, Use, f)') = {}
  BY Zenon DEF UsersOf, UsesIn
<1>3. IsFiniteSet(others) /\ Cardinality(others) \in Nat
  <2>1. others \in SUBSET UsersOf(f)
    BY Zenon DEF UsersOf
  <2>2. QED
    BY <2>1, UsersFinite, FS_Subset, FS_CardinalityType, ZenonT(30)
<1>4. IsFiniteSet(UsesIn(p, Use, f)) /\ Cardinality(UsesIn(p, Use, f)) \in Nat
  BY UsersFinite, Zenon
<1>5. IsFiniteSet(UsesIn(p, Use, f)') /\ Cardinality(UsesIn(p, Use, f)') \in Nat
  <2>1. UsesIn(p, Use, f)' \in SUBSET Use
    BY Zenon DEF UsesIn
  <2>2. QED
    BY <2>1, Uses, FS_Subset, FS_CardinalityType, Zenon
<1> HIDE DEF others
<1>6. ASSUME NEW S, IsFiniteSet(S), others \cap ({p} \X S) = {}
      PROVE  Cardinality(others \cup ({p} \X S)) = Cardinality(others) + Cardinality(S)
  <2>1. IsFiniteSet({p} \X S) /\ Cardinality({p} \X S) = Cardinality(S)
    BY <1>6, NamedUses, ZenonT(30)
  <2>2. Cardinality(others \cup ({p} \X S)) = Cardinality(others) + Cardinality({p} \X S)
    BY ONLY <1>3, <1>6, <2>1, DisjointUnion, ZenonT(30)
  <2>3. QED
    BY <2>1, <2>2, Zenon
<1>7. /\ Cardinality(UsersOf(f)) = Cardinality(others) + Cardinality(UsesIn(p, Use, f))
      /\ Cardinality(UsersOf(f)') = Cardinality(others) + Cardinality(UsesIn(p, Use, f)')
  BY ONLY <1>1, <1>2, <1>4, <1>5, <1>6, Zenon
<1>8. QED
  BY <1>3, <1>4, <1>5, <1>7

\* What a count of 0 or 1 says about the users of the page.
LEMMA CountsSay ==
    ASSUME Counted, NEW f \in Frame
    PROVE  /\ refcnt[f] = 0 => \A p \in Proc, u \in Use : frame[p][u] # f
           /\ \A p \in Proc, u \in Use : frame[p][u] = f /\ refcnt[f] = 1 =>
                  \A q \in Proc, w \in Use : frame[q][w] = f => q = p /\ w = u
<1>1. refcnt[f] = Cardinality(UsersOf(f)) /\ IsFiniteSet(UsersOf(f))
  BY UsersFinite, PagingAssumption, Zenon DEF Counted
<1>2. ASSUME refcnt[f] = 0, NEW p \in Proc, NEW u \in Use, frame[p][u] = f PROVE FALSE
  <2>1. <<p, u>> \in UsersOf(f)
    BY <1>2, Zenon DEF UsersOf
  <2>2. UsersOf(f) = {}
    BY <1>1, <1>2, FS_EmptySet, ZenonT(30)
  <2>3. QED
    BY <2>1, <2>2, Zenon
<1>3. ASSUME NEW p \in Proc, NEW u \in Use, frame[p][u] = f, refcnt[f] = 1,
             NEW q \in Proc, NEW w \in Use, frame[q][w] = f
      PROVE  q = p /\ w = u
  <2>1. <<p, u>> \in UsersOf(f) /\ <<q, w>> \in UsersOf(f)
    BY <1>3, Zenon DEF UsersOf
  <2>2. PICK x : UsersOf(f) = {x}
    BY <1>1, <1>3, FS_Singleton, ZenonT(30)
  <2>3. <<p, u>> = <<q, w>>
    BY <2>1, <2>2, Zenon
  <2>4. QED
    BY <2>3, Zenon
<1>4. QED
  BY <1>2, <1>3, Zenon

\* Free physical pages are finitely many.
LEMMA FreeFinite == IsFiniteSet(FreeFrames) /\ Cardinality(FreeFrames) \in Nat
BY PagingAssumption, FS_Subset, FS_CardinalityType, Zenon DEF FreeFrames

(***************************************************************************)
(* What taking pages and giving them back does to the counts.              *)
(***************************************************************************)
\* dealloc for what a process uses in U, when it is no longer used.
LEMMA DeallocCounts ==
    ASSUME PagingType, Counted, NEW p \in Proc, NEW U \in SUBSET Use, Dealloc(p, U),
           \A q \in Proc : q # p => frame'[q] = frame[q],
           \A u \in Use : frame'[p][u] = IF u \in U THEN Nothing ELSE frame[p][u]
    PROVE  Counted' /\ panic' = panic /\ refcnt' \in [Frame -> Nat] /\ freePages' \in Int
<1> DEFINE n(f) == Cardinality(UsesIn(p, U, f))
           emptied == {f \in Frame : n(f) > 0 /\ n(f) = refcnt[f]}
<1>1. \A f \in Frame : refcnt[f] = Cardinality(UsersOf(f)) /\ refcnt[f] \in Nat
  BY Zenon DEF Counted, PagingType
<1>2. \A f \in Frame : n(f) \in Nat /\ n(f) <= refcnt[f]
  BY <1>1, UsersFinite, Zenon
<1>3. /\ refcnt' = [f \in Frame |-> refcnt[f] - n(f)]
      /\ freePages' = freePages + Cardinality(emptied)
      /\ panic' = panic
  <2>1. ~(\E f \in Frame : n(f) > refcnt[f])
    BY <1>1, <1>2
  <2>2. QED
    BY <2>1, Zenon DEF Dealloc, Less
<1>4. ASSUME NEW f \in Frame PROVE refcnt'[f] = Cardinality(UsersOf(f)')
  <2>1. UsesIn(p, Use, f)' = UsesIn(p, Use, f) \ UsesIn(p, U, f)
    BY PagingAssumption, Zenon DEF UsesIn
  <2>2. UsesIn(p, Use, f) \cap UsesIn(p, U, f) = UsesIn(p, U, f)
    BY Zenon DEF UsesIn
  <2>3. /\ IsFiniteSet(UsesIn(p, Use, f)) /\ Cardinality(UsesIn(p, Use, f)) \in Nat
        /\ Cardinality(UsersOf(f)) \in Nat
    BY UsersFinite, Zenon
  <2>4. Cardinality(UsesIn(p, Use, f)') = Cardinality(UsesIn(p, Use, f)) - n(f)
    BY <2>1, <2>2, <2>3, FS_Difference, ZenonT(30)
  <2>5. Cardinality(UsersOf(f)') =
            Cardinality(UsersOf(f)) - Cardinality(UsesIn(p, Use, f)) + Cardinality(UsesIn(p, Use, f)')
    BY RowReplaced, Zenon
  <2> HIDE DEF n
  <2>6. QED
    BY <1>1, <1>2, <1>3, <2>3, <2>4, <2>5
<1>5. FreeFrames' = FreeFrames \cup emptied /\ FreeFrames \cap emptied = {}
  <2> HIDE DEF n
  <2>1. QED
    BY <1>1, <1>2, <1>3 DEF FreeFrames, IsFree
<1>6. IsFiniteSet(emptied) /\ Cardinality(emptied) \in Nat
  BY PagingAssumption, FS_Subset, FS_CardinalityType, Zenon
<1> HIDE DEF n, emptied
<1>7. Cardinality(FreeFrames') = Cardinality(FreeFrames) + Cardinality(emptied)
  BY <1>5, <1>6, FreeFinite, DisjointUnion, ZenonT(30)
<1>8. refcnt' \in [Frame -> Nat]
  BY <1>1, <1>2, <1>3
<1>9. freePages' \in Int /\ freePages' = Cardinality(FreeFrames')
  BY <1>3, <1>6, <1>7, FreeFinite DEF Counted
<1>10. QED
  BY <1>3, <1>4, <1>8, <1>9, Zenon DEF Counted

\* alloc for the pages of S, when a process uses each of them once.
LEMMA AllocCounts ==
    ASSUME PagingType, Counted, NEW p \in Proc, NEW S, IsFiniteSet(S), AllocPages(S),
           \A q \in Proc : q # p => frame'[q] = frame[q],
           \A f \in Frame \ S : UsesIn(p, Use, f)' = UsesIn(p, Use, f),
           \A f \in S : \E u : UsesIn(p, Use, f)' = {u}
    PROVE  Counted'
<1>1. /\ S \subseteq FreeFrames
      /\ refcnt' = [f \in Frame |-> IF f \in S THEN 1 ELSE refcnt[f]]
      /\ freePages' = freePages - Cardinality(S)
  BY Zenon DEF AllocPages
<1>2. ASSUME NEW f \in Frame PROVE refcnt'[f] = Cardinality(UsersOf(f)')
  <2>1. Cardinality(UsersOf(f)') =
            Cardinality(UsersOf(f)) - Cardinality(UsesIn(p, Use, f)) + Cardinality(UsesIn(p, Use, f)')
    BY RowReplaced, Zenon
  <2>2. /\ Cardinality(UsesIn(p, Use, f)) \in Nat /\ Cardinality(UsersOf(f)) \in Nat
        /\ Cardinality(UsesIn(p, Use, f)) <= Cardinality(UsersOf(f))
    BY UsersFinite, Zenon
  <2>3. refcnt[f] = Cardinality(UsersOf(f))
    BY Zenon DEF Counted
  <2>4. CASE f \in S
    <3>1. Cardinality(UsesIn(p, Use, f)') = 1
      BY <2>4, FS_Singleton, Zenon
    <3>2. refcnt[f] = 0
      BY <1>1, <2>4, Zenon DEF FreeFrames, IsFree
    <3>3. QED
      BY <1>1, <2>1, <2>2, <2>3, <2>4, <3>1, <3>2
  <2>5. CASE f \notin S
    BY <1>1, <2>1, <2>2, <2>3, <2>5
  <2>6. QED
    BY <2>4, <2>5, Zenon
<1>3. FreeFrames' = FreeFrames \ S /\ FreeFrames \cap S = S
  BY <1>1 DEF FreeFrames, IsFree
<1>4. Cardinality(FreeFrames') = Cardinality(FreeFrames) - Cardinality(S)
  <2>1. IsFiniteSet(FreeFrames)
    BY FreeFinite, Zenon
  <2>2. Cardinality(FreeFrames \ S) = Cardinality(FreeFrames) - Cardinality(FreeFrames \cap S)
    BY ONLY <2>1, IsFiniteSet(S), FS_Difference, ZenonT(30)
  <2>3. QED
    BY ONLY <1>3, <2>2, ZenonT(30)
<1>5. QED
  BY <1>1, <1>2, <1>4, Zenon DEF Counted

\* clonePage: a use moves from one page to a free one.
LEMMA COWCounts ==
    ASSUME PagingType, Counted, NEW p \in Proc, NEW g \in Page, Present(p, g), COWFault(p, g)
    PROVE  Counted' /\ panic' = panic
<1> DEFINE old == frame[p][g]
<1>1. old \in Frame /\ g \in Use
  BY Uses DEF PagingType, FrameTable, Present
<1>2. refcnt[old] \in Nat \ {0}
  BY <1>1, CountsSay, Zenon DEF PagingType
<1>3. PICK f \in FreeFrames :
          /\ \/ /\ [refcnt EXCEPT ![f] = 1][old] > 0
                /\ refcnt' = [[refcnt EXCEPT ![f] = 1] EXCEPT ![old] = @ - 1]
                /\ freePages' = freePages - (IF [refcnt EXCEPT ![f] = 1][old] = 1 THEN 0 ELSE 1)
                /\ UNCHANGED panic
             \/ [refcnt EXCEPT ![f] = 1][old] = 0
          /\ frame' = [frame EXCEPT ![p][g] = f]
  BY ZenonT(30) DEF COWFault
<1>4. f \in Frame /\ refcnt[f] = 0 /\ f # old
  BY <1>2, Zenon DEF FreeFrames, IsFree
<1>5. /\ refcnt' = [h \in Frame |-> IF h = f THEN 1 ELSE IF h = old THEN refcnt[old] - 1 ELSE refcnt[h]]
      /\ freePages' = freePages - (IF refcnt[old] = 1 THEN 0 ELSE 1)
      /\ panic' = panic
  BY <1>1, <1>2, <1>3, <1>4 DEF PagingType
<1>6. ASSUME NEW h \in Frame PROVE refcnt'[h] = Cardinality(UsersOf(h)')
  <2>1. Cardinality(UsersOf(h)') =
            Cardinality(UsersOf(h)) - Cardinality(UsesIn(p, Use, h)) + Cardinality(UsesIn(p, Use, h)')
    BY <1>3, RowReplaced, Zenon DEF PagingType, FrameTable
  <2>2. /\ IsFiniteSet(UsesIn(p, Use, h)) /\ Cardinality(UsesIn(p, Use, h)) \in Nat
        /\ Cardinality(UsersOf(h)) \in Nat
        /\ Cardinality(UsesIn(p, Use, h)) <= Cardinality(UsersOf(h))
    BY UsersFinite, Zenon
  <2>3. refcnt[h] = Cardinality(UsersOf(h))
    BY Zenon DEF Counted
  <2>4. CASE h = f
    <3>1. UsesIn(p, Use, h)' = {g}
      BY <1>1, <1>3, <1>4, <2>4, CountsSay DEF UsesIn, PagingType, FrameTable
    <3>2. Cardinality(UsesIn(p, Use, h)') = 1
      BY <3>1, FS_Singleton, ZenonT(30)
    <3>3. QED
      BY <1>4, <1>5, <2>1, <2>2, <2>3, <2>4, <3>2
  <2>5. CASE h = old
    <3>1. UsesIn(p, Use, h)' = UsesIn(p, Use, h) \ {g} /\ g \in UsesIn(p, Use, h)
      BY <1>1, <1>3, <1>4, <2>5, Zenon DEF UsesIn, PagingType, FrameTable
    <3>2. Cardinality(UsesIn(p, Use, h)') = Cardinality(UsesIn(p, Use, h)) - 1
      BY <2>2, <3>1, FS_RemoveElement, ZenonT(30)
    <3>3. QED
      BY <1>4, <1>5, <2>1, <2>2, <2>3, <2>5, <3>2
  <2>6. CASE h # f /\ h # old
    <3>1. UsesIn(p, Use, h)' = UsesIn(p, Use, h)
      BY <1>1, <1>3, <2>6, Zenon DEF UsesIn, PagingType, FrameTable
    <3>2. QED
      BY <1>5, <2>1, <2>2, <2>3, <2>6, <3>1
  <2>7. QED
    BY <2>4, <2>5, <2>6, Zenon
<1>7. Cardinality(FreeFrames \ {f}) = Cardinality(FreeFrames) - 1 /\ IsFiniteSet(FreeFrames \ {f})
  BY FreeFinite, FS_RemoveElement, Zenon
<1>8. freePages' = Cardinality(FreeFrames')
  <2>1. CASE refcnt[old] = 1
    <3>1. FreeFrames' = (FreeFrames \ {f}) \cup {old} /\ old \notin FreeFrames \ {f}
      BY <1>1, <1>2, <1>4, <1>5, <2>1 DEF FreeFrames, IsFree
    <3>2. Cardinality(FreeFrames') = Cardinality(FreeFrames \ {f}) + 1
      BY <1>7, <3>1, FS_AddElement, ZenonT(30)
    <3>3. QED
      BY <1>5, <1>7, <2>1, <3>2, FreeFinite DEF Counted
  <2>2. CASE refcnt[old] # 1
    <3>1. FreeFrames' = FreeFrames \ {f}
      BY <1>1, <1>2, <1>4, <1>5, <2>2 DEF FreeFrames, IsFree, PagingType
    <3>2. QED
      BY <1>5, <1>7, <2>2, <3>1, FreeFinite, Zenon DEF Counted
  <2>3. QED
    BY <2>1, <2>2, Zenon
<1>9. QED
  BY <1>5, <1>6, <1>8, Zenon DEF Counted

\* A count below the limit stays as it is.
LEMMA NotAround ==
    ASSUME NEW a \in Nat, a < CountLimit
    PROVE  a % CountLimit = a
BY PagingAssumption

\* cloneAddressSpace: one more user for each page, until a count goes around.
LEMMA CloneCounts ==
    ASSUME PagingType, Counted, NEW p \in Proc, NEW c \in Proc, p # c,
           \A u \in Use : frame[c][u] = Nothing,
           NEW t \in FreeFrames, NEW d \in FreeFrames, t # d,
           AllocAgain(p, [f \in Frame |-> IF f \in {t, d} THEN 1 ELSE refcnt[f]], freePages - 2),
           NewSpace(c, t, d, frame[p]), wrapped' = FALSE
    PROVE  Counted'
<1> DEFINE count == [f \in Frame |-> IF f \in {t, d} THEN 1 ELSE refcnt[f]]
           n(f) == Cardinality(UsesIn(p, Page, f))
<1>1. /\ refcnt' = [f \in Frame |-> (count[f] + n(f)) % CountLimit]
      /\ freePages' = freePages - 2 - Cardinality({f \in Frame :
                           \E k \in 1..n(f) : (count[f] + k) % CountLimit = 1})
      /\ wrapped' = (wrapped \/ \E f \in Frame : count[f] + n(f) >= CountLimit)
  BY Zenon DEF AllocAgain
<1>2. t \in Frame /\ d \in Frame /\ refcnt[t] = 0 /\ refcnt[d] = 0
  BY Zenon DEF FreeFrames, IsFree
<1>3. \A f \in Frame : n(f) \in Nat /\ count[f] \in Nat /\ refcnt[f] \in Nat
  BY UsersFinite, Uses, ZenonT(30) DEF PagingType
<1>4. \A f \in Frame : count[f] = 0 => n(f) = 0
  <2>1. SUFFICES ASSUME NEW f \in Frame, count[f] = 0 PROVE n(f) = 0
    BY Zenon
  <2>2. refcnt[f] = 0
    BY <2>1
  <2>3. UsesIn(p, Page, f) = {}
    BY <2>2, CountsSay, Uses DEF UsesIn
  <2>4. QED
    BY <2>3, FS_EmptySet, Zenon
<1> HIDE DEF n, count
<1>4a. \A f \in Frame : count[f] + n(f) < CountLimit
  <2>1. ~(\E f \in Frame : count[f] + n(f) >= CountLimit)
    BY ONLY <1>1, wrapped' = FALSE, ZenonT(30)
  <2>2. QED
    BY <1>3, <2>1, PagingAssumption
<1>4b. \A f \in Frame : refcnt'[f] = count[f] + n(f)
  <2>1. SUFFICES ASSUME NEW f \in Frame PROVE (count[f] + n(f)) % CountLimit = count[f] + n(f)
    BY <1>1, Zenon
  <2>2. count[f] + n(f) \in Nat
    BY <1>3
  <2>3. QED
    BY <1>4a, <2>2, NotAround, Zenon
<1> USE DEF n, count
<1>5. ASSUME NEW f \in Frame PROVE count[f] + n(f) = Cardinality(UsersOf(f)')
  <2>1. Cardinality(UsersOf(f)') =
            Cardinality(UsersOf(f)) - Cardinality(UsesIn(c, Use, f)) + Cardinality(UsesIn(c, Use, f)')
    <3>1. \A q \in Proc : q # c => frame'[q] = frame[q]
      BY Zenon DEF NewSpace, PagingType, FrameTable
    <3>2. QED
      BY <3>1, RowReplaced, Zenon
  <2>2. Cardinality(UsesIn(c, Use, f)) = 0
    <3>1. UsesIn(c, Use, f) = {}
      BY PagingAssumption, Zenon DEF UsesIn
    <3>2. QED
      BY <3>1, FS_EmptySet, Zenon
  <2>3. refcnt[f] = Cardinality(UsersOf(f))
    BY Zenon DEF Counted
  <2>4. \A u \in Use : frame'[c][u] = (IF u = Directory THEN d ELSE IF u = Tables THEN t ELSE frame[p][u])
    BY Uses, Zenon DEF NewSpace, PagingType, FrameTable
  <2>5. CASE f \in {t, d}
    <3>1. \A u \in Use : frame[p][u] # f
      BY <1>2, <2>5, CountsSay, Zenon
    <3>2. UsesIn(c, Use, f)' = (IF f = t THEN {Tables} ELSE {Directory})
      BY <2>4, <2>5, <3>1, Uses DEF UsesIn
    <3>3. Cardinality(UsesIn(c, Use, f)') = 1
      BY <3>2, FS_Singleton, ZenonT(30)
    <3>4. n(f) = 0
      <4>1. UsesIn(p, Page, f) = {}
        BY <3>1, Uses, Zenon DEF UsesIn
      <4>2. QED
        BY <4>1, FS_EmptySet, Zenon
    <3>5. count[f] = 1 /\ refcnt[f] = 0
      BY <1>2, <2>5, Zenon
    <3> HIDE DEF n, count
    <3>6. QED
      BY <2>1, <2>2, <2>3, <3>3, <3>4, <3>5
  <2>6. CASE f \notin {t, d}
    <3>1. UsesIn(c, Use, f)' = UsesIn(p, Page, f)
      BY <2>4, <2>6, Uses DEF UsesIn, Use
    <3>2. count[f] = refcnt[f]
      BY <2>6, Zenon
    <3>3. Cardinality(UsesIn(c, Use, f)') = n(f)
      BY <3>1, Zenon
    <3> HIDE DEF n, count
    <3>4. QED
      BY <1>3, <2>1, <2>2, <2>3, <3>2, <3>3
  <2>7. QED
    BY <2>5, <2>6, Zenon
<1>6. FreeFrames' = (FreeFrames \ {t}) \ {d} /\ d \in FreeFrames \ {t}
  <2>2. \A f \in Frame : refcnt'[f] = 0 <=> count[f] = 0
    <3> HIDE DEF n, count
    <3>1. QED
      BY <1>3, <1>4, <1>4b
  <2>3. \A f \in Frame : count[f] = 0 <=> f \in (FreeFrames \ {t}) \ {d}
    BY DEF FreeFrames, IsFree
  <2>4. QED
    BY <2>2, <2>3 DEF FreeFrames, IsFree
<1>7. Cardinality(FreeFrames') = Cardinality(FreeFrames) - 2
  <2>1. IsFiniteSet(FreeFrames \ {t}) /\ Cardinality(FreeFrames \ {t}) = Cardinality(FreeFrames) - 1
    BY FreeFinite, FS_RemoveElement, Zenon
  <2>2. Cardinality(FreeFrames') = Cardinality(FreeFrames \ {t}) - 1
    BY <1>6, <2>1, FS_RemoveElement, Zenon
  <2>3. QED
    BY <2>1, <2>2, FreeFinite
<1> HIDE DEF n, count
<1>8. {f \in Frame : \E k \in 1..n(f) : (count[f] + k) % CountLimit = 1} = {}
  <2>1. SUFFICES ASSUME NEW f \in Frame, NEW k \in 1..n(f), (count[f] + k) % CountLimit = 1 PROVE FALSE
    BY Zenon
  <2>2. /\ count[f] \in Nat /\ n(f) \in Nat /\ count[f] # 0
        /\ count[f] + k \in Nat /\ count[f] + k < CountLimit
    BY <1>3, <1>4, <1>4a, <2>1, PagingAssumption
  <2>3. count[f] + k = 1
    BY <2>1, <2>2, NotAround, Zenon
  <2>4. QED
    BY <2>2, <2>3
<1>9. \A f \in Frame : refcnt'[f] = Cardinality(UsersOf(f)')
  BY ONLY <1>5, <1>4b, Zenon
<1>10. freePages' = Cardinality(FreeFrames')
  <2>1. freePages' = freePages - 2 - Cardinality({})
    BY ONLY <1>1, <1>8, ZenonT(30)
  <2>2. freePages = Cardinality(FreeFrames)
    BY Zenon DEF Counted
  <2>3. QED
    BY <1>7, <2>1, <2>2, FS_EmptySet, FreeFinite
<1>11. QED
  BY <1>9, <1>10, Zenon DEF Counted

(***************************************************************************)
(* The steps of processes.                                                 *)
(***************************************************************************)

\* A slot that is free uses no pages, one that waits for deletion its directory.
SlotsEmpty ==
    \A p \in Proc, u \in Use :
        life[p] = "free" \/ (life[p] = "exited" /\ u # Directory) => frame[p][u] = Nothing

CountInv ==
    ~wrapped => /\ ~panic => Counted
                /\ panic => Cardinality(FreeFrames) < 2

\* Pages are in regions, and writable as their regions are.
RegionInv ==
    ~panic =>
        \A p \in Proc, g \in Page : Present(p, g) =>
            /\ permission[p][g[1]] # Nothing
            /\ rw[p][g] => permission[p][g[1]].rw \/ <<p, g>> \in overruled

\* Nobody else uses the physical page.
Sole(p, g) == \A q \in Proc, u \in Use : frame[q][u] = frame[p][g] => q = p /\ u = g

PrivateInv ==
    ~panic /\ ~wrapped /\ ~exposed =>
        \A p \in Proc, g \in Page : Present(p, g) =>
            /\ content[frame[p][g]] = view[p][g]
            /\ rw[p][g] => Sole(p, g)

MemoryInv == PagingType /\ SlotsEmpty /\ CountInv /\ RegionInv /\ PrivateInv

(***************************************************************************)
(* The steps.                                                              *)
(***************************************************************************)
\* Regions and counts are left alone by what changes no counts, no pages.
LEMMA SameCounts ==
    ASSUME UNCHANGED <<frame, physVars, panic, wrapped>>, CountInv
    PROVE  CountInv'
BY Zenon DEF CountInv, Counted, physVars, UsersOf, FreeFrames, IsFree

\* What is present is a physical page.
LEMMA PresentIsFrame ==
    ASSUME PagingType, NEW q \in Proc, NEW h \in Page, Present(q, h)
    PROVE  frame[q][h] \in Frame /\ h \in Use
BY Uses DEF PagingType, FrameTable, Present

LEMMA MapRegionKeeps ==
    ASSUME MemoryInv, NEW p \in Proc, NEW r \in Slot, NEW write \in BOOLEAN, NEW file \in BOOLEAN,
           MapRegion(p, r, write, file)
    PROVE  MemoryInv'
<1> USE DEF MemoryInv
<1>1. /\ UNCHANGED <<life, pageVars, physVars, content, view, panic, historyVars>>
      /\ permission[p][r] = Nothing
      /\ permission' = [permission EXCEPT ![p][r] = [rw |-> write, file |-> file]]
  BY Zenon DEF MapRegion
<1>2. PagingType'
  <2>1. permission' \in [Proc -> [Slot -> Permission \cup {Nothing}]]
    BY <1>1, Zenon DEF PagingType, Permission
  <2>2. QED
    BY <1>1, <2>1, Zenon DEF PagingType, FrameTable, pageVars, physVars, historyVars
<1>3. SlotsEmpty' /\ PrivateInv'
  BY <1>1 DEF SlotsEmpty, PrivateInv, Sole, Present, pageVars, historyVars
<1>4. CountInv'
  BY <1>1, SameCounts, Zenon DEF pageVars, physVars, historyVars
<1>5. RegionInv'
  BY <1>1, Uses DEF RegionInv, Present, pageVars, historyVars, PagingType
<1>6. QED
  BY <1>2, <1>3, <1>4, <1>5, Zenon

LEMMA ProtectKeeps ==
    ASSUME MemoryInv, NEW p \in Proc, NEW r \in Slot, NEW write \in BOOLEAN, Protect(p, r, write)
    PROVE  MemoryInv'
<1> USE DEF MemoryInv
<1> DEFINE changed == {g \in PagesOf(r) : Present(p, g) /\ ~Skipped(p, g, write)}
<1>1. /\ UNCHANGED <<life, frame, cow, physVars, content, view, panic, wrapped>>
      /\ permission[p][r] # Nothing /\ ~panic
      /\ permission' = [permission EXCEPT ![p][r].rw = write]
      /\ rw' = [rw EXCEPT ![p] = [g \in Page |-> IF g \in changed THEN write ELSE @[g]]]
      /\ exposed' = (exposed \/ (write /\ \E g \in changed :
                                       ~cow[p][g] /\ refcnt[frame[p][g]] # 1))
      /\ overruled' = overruled \ ({p} \X PagesOf(r))
  BY Zenon DEF Protect, Alive
<1>2. /\ permission[p][r] \in Permission
      /\ \A q \in Proc, s \in Slot : permission'[q][s] =
             IF q = p /\ s = r THEN [permission[p][r] EXCEPT !.rw = write] ELSE permission[q][s]
      /\ permission' \in [Proc -> [Slot -> Permission \cup {Nothing}]]
  <2> DEFINE new == [permission[p][r] EXCEPT !.rw = write]
  <2>1. permission[p][r] \in Permission
    BY <1>1, Zenon DEF PagingType
  <2>2. new \in Permission
    BY <2>1, Zenon DEF Permission
  <2>3. permission' = [permission EXCEPT ![p] = [permission[p] EXCEPT ![r] = new]]
    BY <1>1, Zenon DEF PagingType
  <2> HIDE DEF new
  <2>4. /\ \A q \in Proc, s \in Slot :
               permission'[q][s] = IF q = p /\ s = r THEN new ELSE permission[q][s]
        /\ permission' \in [Proc -> [Slot -> Permission \cup {Nothing}]]
    BY <2>2, <2>3, Zenon DEF PagingType
  <2>5. QED
    BY <2>1, <2>4, Zenon DEF new
<1>3. /\ rw' \in [Proc -> [Page -> BOOLEAN]]
      /\ \A q \in Proc, g \in Page : rw'[q][g] = IF q = p /\ g \in changed THEN write ELSE rw[q][g]
  BY <1>1, Zenon DEF PagingType
<1>4. exposed' \in BOOLEAN
  BY <1>1, Zenon DEF PagingType
<1>5. PagingType'
  BY <1>1, <1>2, <1>3, <1>4, Zenon DEF PagingType, FrameTable, physVars
<1>6. SlotsEmpty'
  BY <1>1, Zenon DEF SlotsEmpty
<1>7. CountInv'
  BY <1>1, SameCounts, Zenon
<1>8. RegionInv'
  <2>1. SUFFICES ASSUME NEW q \in Proc, NEW g \in Page, Present(q, g)
                 PROVE  /\ permission'[q][g[1]] # Nothing
                        /\ rw'[q][g] => permission'[q][g[1]].rw \/ <<q, g>> \in overruled'
    BY <1>1, Zenon DEF RegionInv, Present
  <2>2. CASE q = p /\ g[1] = r
    <3>1. g \in PagesOf(r)
      BY <2>2, Zenon DEF PagesOf
    <3>2. permission'[q][g[1]] \in Permission /\ permission'[q][g[1]].rw = write
      BY <1>2, <2>2, Zenon DEF Permission
    <3>3. rw'[q][g] => write
      BY <1>3, <2>1, <2>2, <3>1, Zenon DEF Skipped
    <3>4. QED
      BY <3>2, <3>3, PagingAssumption, Zenon
  <2>3. CASE ~(q = p /\ g[1] = r)
    <3>1. g \notin changed \/ q # p
      BY <2>3, Zenon DEF PagesOf
    <3>2. permission'[q][g[1]] = permission[q][g[1]] /\ rw'[q][g] = rw[q][g]
      BY <1>2, <1>3, <2>3, <3>1, Uses
    <3>3. <<q, g>> \in overruled' <=> <<q, g>> \in overruled
      BY <1>1, <2>3, Zenon DEF PagesOf
    <3>4. QED
      BY <1>1, <2>1, <3>2, <3>3, ZenonT(30) DEF RegionInv
  <2>4. QED
    BY <2>2, <2>3, Zenon
<1>9. PrivateInv'
  <2>1. SUFFICES ASSUME ~wrapped, exposed' = FALSE, NEW q \in Proc, NEW g \in Page, Present(q, g)
                 PROVE  content[frame[q][g]] = view[q][g] /\ (rw'[q][g] => Sole(q, g))
    <3>1. SUFFICES ASSUME ~wrapped', ~exposed', NEW q \in Proc, NEW g \in Page, Present(q, g)'
                   PROVE  content'[frame'[q][g]] = view'[q][g] /\ (rw'[q][g] => Sole(q, g)')
      BY Zenon DEF PrivateInv
    <3>2. Present(q, g) /\ (Sole(q, g) => Sole(q, g)') /\ ~wrapped /\ exposed' = FALSE
      BY <1>1, <1>4, <3>1 DEF Present, Sole
    <3>3. QED
      BY <1>1, <3>2, ZenonT(30)
  <2>2. exposed = FALSE /\ ~(write /\ \E h \in changed : ~cow[p][h] /\ refcnt[frame[p][h]] # 1)
    BY <1>1, <2>1, Zenon DEF PagingType
  <2>3. content[frame[q][g]] = view[q][g] /\ (rw[q][g] => Sole(q, g))
    BY <1>1, <2>1, <2>2, Zenon DEF PrivateInv
  <2>4. CASE q = p /\ g \in changed /\ write
    <3>1. refcnt[frame[q][g]] = 1
      BY <2>2, <2>4, Zenon DEF Skipped
    <3>2. frame[q][g] \in Frame /\ g \in Use
      BY <2>1, Uses DEF Present, PagingType, FrameTable
    <3>3. Sole(q, g)
      BY <1>1, <2>1, <3>1, <3>2, CountsSay DEF CountInv, Sole
    <3>4. QED
      BY <2>3, <3>3, Zenon
  <2>5. CASE ~(q = p /\ g \in changed /\ write)
    BY <1>3, <2>3, <2>5, Zenon
  <2>6. QED
    BY <2>4, <2>5, Zenon
<1>10. QED
  BY <1>5, <1>6, <1>7, <1>8, <1>9, Zenon

LEMMA WritePageKeeps ==
    ASSUME MemoryInv, NEW p \in Proc, NEW g \in Page, NEW v \in Value, WritePage(p, g, v)
    PROVE  MemoryInv'
<1> USE DEF MemoryInv
<1>1. /\ UNCHANGED <<life, pageVars, permission, physVars, panic, historyVars>>
      /\ Present(p, g) /\ rw[p][g] /\ ~panic
      /\ content' = [content EXCEPT ![frame[p][g]] = v]
      /\ view' = [view EXCEPT ![p][g] = v]
  BY Zenon DEF WritePage, Alive
<1>2. PagingType'
  BY <1>1, ZenonT(30) DEF PagingType, FrameTable, pageVars, physVars, historyVars
<1>3. SlotsEmpty' /\ RegionInv'
  BY <1>1, Zenon DEF SlotsEmpty, RegionInv, Present, pageVars, historyVars
<1>4. CountInv'
  BY <1>1, SameCounts, Zenon DEF pageVars, historyVars
<1>5. PrivateInv'
  <2>1. SUFFICES ASSUME ~wrapped, ~exposed, NEW q \in Proc, NEW h \in Page, Present(q, h)
                 PROVE  content'[frame[q][h]] = view'[q][h] /\ (rw[q][h] => Sole(q, h))
    BY <1>1 DEF PrivateInv, Present, Sole, pageVars, historyVars
  <2>2. /\ content[frame[q][h]] = view[q][h] /\ (rw[q][h] => Sole(q, h))
        /\ Sole(p, g)
    BY <1>1, <2>1, Zenon DEF PrivateInv
  <2>3. frame[p][g] \in Frame /\ frame[q][h] \in Frame /\ g \in Use /\ h \in Use
    BY <1>1, <2>1, Uses DEF Present, PagingType, FrameTable
  <2>4. frame[q][h] = frame[p][g] <=> q = p /\ h = g
    BY <2>2, <2>3, Zenon DEF Sole
  <2>5. content'[frame[q][h]] = (IF frame[q][h] = frame[p][g] THEN v ELSE content[frame[q][h]])
    BY <1>1, <2>3, Zenon DEF PagingType
  <2>6. view'[q][h] = (IF q = p /\ h = g THEN v ELSE view[q][h])
    BY <1>1, Zenon DEF PagingType
  <2>7. QED
    BY <2>2, <2>4, <2>5, <2>6, Zenon
<1>6. QED
  BY <1>2, <1>3, <1>4, <1>5, Zenon

\* Giving back what a process uses in U: the counts, and the panic that only a
\* count that went around can bring about.
LEMMA DeallocKeeps ==
    ASSUME PagingType, CountInv, ~panic, NEW p \in Proc, NEW U \in SUBSET Use, Dealloc(p, U),
           \A q \in Proc : q # p => frame'[q] = frame[q],
           \A u \in Use : frame'[p][u] = IF u \in U THEN Nothing ELSE frame[p][u],
           wrapped' = wrapped
    PROVE  /\ CountInv'
           /\ refcnt' \in [Frame -> Nat] /\ freePages' \in Int /\ panic' \in BOOLEAN
<1>1. CASE ~wrapped
  <2>1. Counted' /\ panic' = panic /\ refcnt' \in [Frame -> Nat] /\ freePages' \in Int
    BY <1>1, DeallocCounts, Zenon DEF CountInv
  <2>2. QED
    BY <2>1, Zenon DEF CountInv, PagingType
<1>2. CASE wrapped
  <2> DEFINE n(f) == Cardinality(UsesIn(p, U, f))
             emptied == {f \in Frame : n(f) > 0 /\ n(f) = refcnt[f]}
  <2>1. \A f \in Frame : n(f) \in Nat
    BY UsersFinite, Zenon
  <2>2. Cardinality(emptied) \in Nat
    BY PagingAssumption, FS_Subset, FS_CardinalityType, Zenon
  <2>3. \/ /\ \A f \in Frame : n(f) <= refcnt[f]
           /\ refcnt' = [f \in Frame |-> refcnt[f] - n(f)]
           /\ freePages' = freePages + Cardinality(emptied)
           /\ panic' = panic
        \/ panic' = TRUE /\ refcnt' = refcnt /\ freePages' = freePages
    BY Zenon DEF Dealloc, Less, physVars
  <2> HIDE DEF n, emptied
  <2>4. refcnt' \in [Frame -> Nat] /\ freePages' \in Int
    BY <2>1, <2>2, <2>3 DEF PagingType
  <2>5. panic' \in BOOLEAN
    BY <2>3, ZenonT(30) DEF PagingType
  <2>6. QED
    BY <1>2, <2>4, <2>5, Zenon DEF CountInv
<1>3. QED
  BY <1>1, <1>2, Zenon

\* What a process can do with the pages that are left does not change when some are
\* gone.
LEMMA FewerPages ==
    ASSUME RegionInv, PrivateInv, ~panic,
           \A q \in Proc, u \in Use : frame'[q][u] \in {Nothing, frame[q][u]},
           \A q \in Proc, g \in Page : frame'[q][g] # Nothing =>
               /\ rw'[q][g] = rw[q][g] /\ view'[q][g] = view[q][g]
               /\ permission'[q][g[1]] = permission[q][g[1]]
               /\ <<q, g>> \in overruled => <<q, g>> \in overruled',
           UNCHANGED <<content, wrapped, exposed>>
    PROVE  RegionInv' /\ PrivateInv'
<1>1. RegionInv'
  <2>1. SUFFICES ASSUME NEW q \in Proc, NEW g \in Page, Present(q, g)'
                 PROVE  /\ permission'[q][g[1]] # Nothing
                        /\ rw'[q][g] => permission'[q][g[1]].rw \/ <<q, g>> \in overruled'
    BY Zenon DEF RegionInv
  <2>2. Present(q, g) /\ frame'[q][g] # Nothing
    BY <2>1, Uses, Zenon DEF Present
  <2>3. QED
    BY <2>2 DEF RegionInv
<1>2. PrivateInv'
  <2>1. SUFFICES ASSUME ~wrapped', ~exposed', NEW q \in Proc, NEW g \in Page, Present(q, g)'
                 PROVE  content'[frame'[q][g]] = view'[q][g] /\ (rw'[q][g] => Sole(q, g)')
    BY Zenon DEF PrivateInv
  <2>2. Present(q, g) /\ frame'[q][g] # Nothing /\ frame'[q][g] = frame[q][g]
    BY <2>1, Uses, Zenon DEF Present
  <2>3. content[frame[q][g]] = view[q][g] /\ (rw[q][g] => Sole(q, g))
    BY <2>1, <2>2, Zenon DEF PrivateInv
  <2>4. Sole(q, g) => Sole(q, g)'
    BY <2>2 DEF Sole
  <2>5. QED
    BY <2>2, <2>3, <2>4, ZenonT(30)
<1>3. QED
  BY <1>1, <1>2, Zenon

LEMMA UnmapRegionKeeps ==
    ASSUME MemoryInv, NEW p \in Proc, NEW r \in Slot, UnmapRegion(p, r)
    PROVE  MemoryInv'
<1> USE DEF MemoryInv
<1>1. /\ ~panic /\ life[p] = "alive"
      /\ permission' = [permission EXCEPT ![p][r] = Nothing]
      /\ frame' = [frame EXCEPT ![p] = [u \in Use |-> IF u \in PagesOf(r) THEN Nothing ELSE @[u]]]
      /\ rw' = [rw EXCEPT ![p] = [g \in Page |-> IF g \in PagesOf(r) THEN FALSE ELSE @[g]]]
      /\ cow' = [cow EXCEPT ![p] = [g \in Page |-> IF g \in PagesOf(r) THEN FALSE ELSE @[g]]]
      /\ overruled' = overruled \ ({p} \X PagesOf(r))
      /\ view' = [view EXCEPT ![p] = [g \in Page |-> IF g \in PagesOf(r) THEN Zeros ELSE @[g]]]
      /\ Dealloc(p, PagesOf(r))
      /\ UNCHANGED <<life, content, wrapped, exposed>>
  BY Zenon DEF UnmapRegion, Alive
<1>2. PagesOf(r) \in SUBSET Use /\ PagesOf(r) \subseteq Page /\ \A g \in Page : g[1] = r => g \in PagesOf(r)
  BY Uses, Zenon DEF PagesOf
<1>3. /\ frame' \in FrameTable
      /\ \A q \in Proc : q # p => frame'[q] = frame[q]
      /\ \A u \in Use : frame'[p][u] = IF u \in PagesOf(r) THEN Nothing ELSE frame[p][u]
  BY <1>1 DEF PagingType, FrameTable
<1>4. CountInv' /\ refcnt' \in [Frame -> Nat] /\ freePages' \in Int /\ panic' \in BOOLEAN
  BY <1>1, <1>2, <1>3, DeallocKeeps
<1>5. /\ rw' \in [Proc -> [Page -> BOOLEAN]] /\ cow' \in [Proc -> [Page -> BOOLEAN]]
      /\ \A q \in Proc, g \in Page : rw'[q][g] = IF q = p /\ g \in PagesOf(r) THEN FALSE ELSE rw[q][g]
  BY <1>1 DEF PagingType
<1>6. /\ permission' \in [Proc -> [Slot -> Permission \cup {Nothing}]]
      /\ \A q \in Proc, s \in Slot : permission'[q][s] = IF q = p /\ s = r THEN Nothing ELSE permission[q][s]
  BY <1>1, Zenon DEF PagingType
<1>7. /\ view' \in [Proc -> [Page -> Value]]
      /\ \A q \in Proc, g \in Page : view'[q][g] = IF q = p /\ g \in PagesOf(r) THEN Zeros ELSE view[q][g]
  BY <1>1, PagingAssumption, Zenon DEF PagingType
<1>8. PagingType'
  BY <1>1, <1>3, <1>4, <1>5, <1>6, <1>7, Zenon DEF PagingType
<1>9. SlotsEmpty'
  BY <1>1, <1>3 DEF SlotsEmpty
<1>10. RegionInv' /\ PrivateInv'
  <2>1. \A q \in Proc, u \in Use : frame'[q][u] \in {Nothing, frame[q][u]}
    BY <1>3, Zenon
  <2>2. \A q \in Proc, g \in Page : frame'[q][g] # Nothing => q # p \/ g \notin PagesOf(r)
    BY <1>3, Uses, Zenon
  <2>3. \A q \in Proc, g \in Page : frame'[q][g] # Nothing =>
            /\ rw'[q][g] = rw[q][g] /\ view'[q][g] = view[q][g]
            /\ permission'[q][g[1]] = permission[q][g[1]]
            /\ <<q, g>> \in overruled => <<q, g>> \in overruled'
    <3>1. SUFFICES ASSUME NEW q \in Proc, NEW g \in Page, q # p \/ g \notin PagesOf(r)
                   PROVE  /\ rw'[q][g] = rw[q][g] /\ view'[q][g] = view[q][g]
                          /\ permission'[q][g[1]] = permission[q][g[1]]
                          /\ <<q, g>> \in overruled => <<q, g>> \in overruled'
      BY <2>2, Zenon
    <3>2. q # p \/ g[1] # r
      BY <1>2, <3>1, Zenon
    <3>3. rw'[q][g] = rw[q][g] /\ view'[q][g] = view[q][g]
      BY ONLY <1>5, <1>7, <3>1, q \in Proc, g \in Page, ZenonT(30)
    <3>4. g[1] \in Slot
      BY Uses, Zenon
    <3>5. permission'[q][g[1]] = permission[q][g[1]]
      BY ONLY <1>6, <3>2, <3>4, q \in Proc, ZenonT(30)
    <3>6. <<q, g>> \in overruled => <<q, g>> \in overruled'
      BY <1>1, <3>1, <3>2, Zenon
    <3>7. QED
      BY <3>3, <3>5, <3>6, Zenon
  <2>4. QED
    BY <1>1, <2>1, <2>3, FewerPages, Zenon
<1>11. QED
  BY <1>4, <1>8, <1>9, <1>10, Zenon

LEMMA ExitMemoryKeeps ==
    ASSUME MemoryInv, NEW p \in Proc, ExitMemory(p)
    PROVE  MemoryInv'
<1> USE DEF MemoryInv
<1>1. /\ ~panic
      /\ life' = [life EXCEPT ![p] = "exited"]
      /\ permission' = [permission EXCEPT ![p] = NoRegions]
      /\ frame' = [frame EXCEPT ![p] = [NoUses EXCEPT ![Directory] = frame[p][Directory]]]
      /\ rw' = [rw EXCEPT ![p] = NoBits]
      /\ cow' = [cow EXCEPT ![p] = NoBits]
      /\ overruled' = overruled \ ({p} \X Page)
      /\ view' = [view EXCEPT ![p] = [g \in Page |-> Zeros]]
      /\ Dealloc(p, GivenBackAtExit)
      /\ UNCHANGED <<content, wrapped, exposed>>
  BY Zenon DEF ExitMemory, Alive
<1>2. GivenBackAtExit \in SUBSET Use /\ GivenBackAtExit = Use \ {Directory}
  BY Uses, Zenon DEF GivenBackAtExit, Use
<1>3. /\ frame' \in FrameTable
      /\ \A q \in Proc : q # p => frame'[q] = frame[q]
      /\ \A u \in Use : frame'[p][u] = IF u \in GivenBackAtExit THEN Nothing ELSE frame[p][u]
  BY <1>1, <1>2, Uses DEF PagingType, FrameTable, NoUses
<1>4. CountInv' /\ refcnt' \in [Frame -> Nat] /\ freePages' \in Int /\ panic' \in BOOLEAN
  BY <1>1, <1>2, <1>3, DeallocKeeps
<1>5. /\ rw' \in [Proc -> [Page -> BOOLEAN]] /\ cow' \in [Proc -> [Page -> BOOLEAN]]
      /\ permission' \in [Proc -> [Slot -> Permission \cup {Nothing}]]
      /\ view' \in [Proc -> [Page -> Value]]
      /\ life' \in [Proc -> {"free", "alive", "exited"}]
  BY <1>1, PagingAssumption, ZenonT(30) DEF PagingType, NoBits, NoRegions
<1>6. PagingType'
  BY <1>1, <1>3, <1>4, <1>5, ZenonT(30) DEF PagingType
<1>7. SlotsEmpty'
  <2>1. life'[p] = "exited" /\ \A q \in Proc : q # p => life'[q] = life[q]
    BY <1>1, Zenon DEF PagingType
  <2>2. \A u \in Use : u # Directory => frame'[p][u] = Nothing
    BY <1>2, <1>3, Zenon
  <2>3. QED
    BY ONLY SlotsEmpty, <1>3, <2>1, <2>2 DEF SlotsEmpty
<1>8. RegionInv' /\ PrivateInv'
  <2>1. \A q \in Proc, u \in Use : frame'[q][u] \in {Nothing, frame[q][u]}
    BY <1>3, Zenon
  <2>2. \A q \in Proc, g \in Page : frame'[q][g] # Nothing => q # p
    BY <1>2, <1>3, Uses, Zenon
  <2>3. \A q \in Proc, g \in Page : frame'[q][g] # Nothing =>
            /\ rw'[q][g] = rw[q][g] /\ view'[q][g] = view[q][g]
            /\ permission'[q][g[1]] = permission[q][g[1]]
            /\ <<q, g>> \in overruled => <<q, g>> \in overruled'
    BY <1>1, <2>2 DEF PagingType
  <2>4. QED
    BY <1>1, <2>1, <2>3, FewerPages, Zenon
<1>9. QED
  BY <1>4, <1>6, <1>7, <1>8, Zenon

LEMMA DeleteDirectoryKeeps ==
    ASSUME MemoryInv, NEW p \in Proc, DeleteDirectory(p)
    PROVE  MemoryInv'
<1> USE DEF MemoryInv
<1>1. /\ ~panic /\ life[p] = "exited"
      /\ life' = [life EXCEPT ![p] = "free"]
      /\ frame' = [frame EXCEPT ![p] = NoUses]
      /\ Dealloc(p, {Directory})
      /\ UNCHANGED <<rw, cow, permission, content, view, wrapped, exposed, overruled>>
  BY Zenon DEF DeleteDirectory, historyVars
<1>2. /\ {Directory} \in SUBSET Use
      /\ frame' \in FrameTable
      /\ \A q \in Proc : q # p => frame'[q] = frame[q]
      /\ \A u \in Use : frame'[p][u] = Nothing
      /\ \A u \in Use : frame'[p][u] = IF u \in {Directory} THEN Nothing ELSE frame[p][u]
  BY <1>1, Uses, Zenon DEF PagingType, FrameTable, NoUses, SlotsEmpty
<1>3. CountInv' /\ refcnt' \in [Frame -> Nat] /\ freePages' \in Int /\ panic' \in BOOLEAN
  BY <1>1, <1>2, DeallocKeeps, ZenonT(30)
<1>4. PagingType'
  BY <1>1, <1>2, <1>3, ZenonT(30) DEF PagingType
<1>5. SlotsEmpty'
  BY <1>1, <1>2 DEF SlotsEmpty, PagingType
<1>6. RegionInv' /\ PrivateInv'
  <2>1. \A q \in Proc, u \in Use : frame'[q][u] \in {Nothing, frame[q][u]}
    BY <1>2, Zenon
  <2>2. QED
    BY <1>1, <2>1, FewerPages, Zenon
<1>7. QED
  BY <1>3, <1>4, <1>5, <1>6, Zenon

\* The kernel gives up for want of a page or two.
LEMMA OutOfMemoryKeeps ==
    ASSUME MemoryInv, OutOfMemory, Cardinality(FreeFrames) < 2
    PROVE  MemoryInv'
<1> USE DEF MemoryInv
<1>1. panic' = TRUE /\ UNCHANGED <<life, pageVars, permission, physVars, content, view, historyVars>>
  BY Zenon DEF OutOfMemory
<1>2. PagingType' /\ SlotsEmpty'
  BY <1>1, Zenon DEF PagingType, SlotsEmpty, FrameTable, pageVars, physVars, historyVars
<1>3. FreeFrames' = FreeFrames
  BY <1>1, Zenon DEF FreeFrames, IsFree, physVars
<1>4. CountInv' /\ RegionInv' /\ PrivateInv'
  BY <1>1, <1>3, Zenon DEF CountInv, RegionInv, PrivateInv
<1>5. QED
  BY <1>2, <1>4, Zenon

LEMMA ZeroFaultKeeps ==
    ASSUME MemoryInv, NEW p \in Proc, NEW g \in Page, ZeroFault(p, g)
    PROVE  MemoryInv'
<1> USE DEF MemoryInv
<1> DEFINE data == IF permission[p][g[1]].file THEN FileData ELSE Zeros
<1>1. ~panic /\ life[p] = "alive" /\ frame[p][g] = Nothing /\ permission[p][g[1]] # Nothing
  BY Zenon DEF ZeroFault, Alive, Present
<1>2. g \in Use /\ g[1] \in Slot /\ permission[p][g[1]] \in Permission /\ data \in Value
  BY <1>1, Uses, PagingAssumption DEF PagingType
<1>3. CASE FreeFrames = {} /\ OutOfMemory
  BY <1>3, OutOfMemoryKeeps, FS_EmptySet
<1>4. ASSUME NEW f \in FreeFrames,
             AllocPages({f}),
             frame' = [frame EXCEPT ![p][g] = f],
             rw' = [rw EXCEPT ![p][g] = PageRw(p, g)],
             cow' = [cow EXCEPT ![p][g] = FALSE],
             content' = [content EXCEPT ![f] = data],
             view' = [view EXCEPT ![p][g] = data],
             UNCHANGED <<life, permission, panic, historyVars>>
      PROVE  MemoryInv'
  <2> HIDE DEF data
  <2>1. f \in Frame /\ refcnt[f] = 0 /\ f # Nothing
    BY PagingAssumption, Zenon DEF FreeFrames, IsFree
  <2>2. /\ frame' \in FrameTable
        /\ \A q \in Proc, u \in Use : frame'[q][u] = IF q = p /\ u = g THEN f ELSE frame[q][u]
    BY <1>2, <1>4, <2>1, Zenon DEF PagingType, FrameTable
  <2>3. /\ rw' \in [Proc -> [Page -> BOOLEAN]] /\ cow' \in [Proc -> [Page -> BOOLEAN]]
        /\ \A q \in Proc, h \in Page :
               rw'[q][h] = IF q = p /\ h = g THEN permission[p][g[1]].rw ELSE rw[q][h]
    BY <1>2, <1>4, Zenon DEF PagingType, PageRw, Permission
  <2>4. /\ content' \in [Frame -> Value]
        /\ \A h \in Frame : content'[h] = IF h = f THEN data ELSE content[h]
    BY <1>2, <1>4, <2>1, Zenon DEF PagingType
  <2>5. /\ view' \in [Proc -> [Page -> Value]]
        /\ \A q \in Proc, h \in Page : view'[q][h] = IF q = p /\ h = g THEN data ELSE view[q][h]
    BY <1>2, <1>4, Zenon DEF PagingType
  <2>6. refcnt' \in [Frame -> Nat] /\ freePages' \in Int
    <3>1. /\ refcnt' = [h \in Frame |-> IF h \in {f} THEN 1 ELSE refcnt[h]]
          /\ freePages' = freePages - 1
      BY <1>4, FS_Singleton, ZenonT(30) DEF AllocPages
    <3>2. QED
      BY <3>1 DEF PagingType
  <2>7. PagingType'
    BY <1>4, <2>2, <2>3, <2>4, <2>5, <2>6, Zenon DEF PagingType, historyVars
  <2>8. SlotsEmpty'
    BY <1>1, <1>4, <2>2 DEF SlotsEmpty
  <2>9. ASSUME ~wrapped PROVE Counted /\ Counted'
    <3>1. Counted
      BY <1>1, <2>9, ZenonT(30) DEF CountInv
    <3>2. \A h \in Frame \ {f} : UsesIn(p, Use, h)' = UsesIn(p, Use, h)
      <4>1. \A h \in Frame \ {f}, u \in Use : frame'[p][u] = h <=> frame[p][u] = h
        BY ONLY <1>1, <2>2, p \in Proc, PagingAssumption, ZenonT(30)
      <4>2. QED
        BY ONLY <4>1, ZenonT(30) DEF UsesIn
    <3>3. UsesIn(p, Use, f)' = {g}
      BY <1>2, <2>1, <2>2, <3>1, CountsSay DEF UsesIn
    <3>4. \A q \in Proc : q # p => frame'[q] = frame[q]
      BY <1>4, Zenon DEF PagingType, FrameTable
    <3>5. IsFiniteSet({f}) /\ \A h \in {f} : \E u : UsesIn(p, Use, h)' = {u}
      BY <3>3, FS_Singleton, ZenonT(30)
    <3>6. QED
      BY <1>4, <3>1, <3>2, <3>4, <3>5, AllocCounts, ZenonT(30)
  <2>10. CountInv'
    BY <1>1, <1>4, <2>9, Zenon DEF CountInv, historyVars
  <2>11. RegionInv'
    <3>1. SUFFICES ASSUME NEW q \in Proc, NEW h \in Page, Present(q, h)'
                   PROVE  /\ permission[q][h[1]] # Nothing
                          /\ rw'[q][h] => permission[q][h[1]].rw \/ <<q, h>> \in overruled
      BY <1>4, Zenon DEF RegionInv, historyVars
    <3>2. CASE q = p /\ h = g
      BY <1>1, <2>3, <3>2, Zenon
    <3>3. CASE ~(q = p /\ h = g)
      <4>1. Present(q, h) /\ rw'[q][h] = rw[q][h]
        BY <2>2, <2>3, <3>1, <3>3, Uses DEF Present
      <4>2. QED
        BY <1>1, <4>1, Zenon DEF RegionInv
    <3>4. QED
      BY <3>2, <3>3, Zenon
  <2>12. PrivateInv'
    <3>1. SUFFICES ASSUME ~wrapped, ~exposed, NEW q \in Proc, NEW h \in Page, Present(q, h)'
                   PROVE  content'[frame'[q][h]] = view'[q][h] /\ (rw'[q][h] => Sole(q, h)')
      BY <1>4, Zenon DEF PrivateInv, historyVars
    <3>2. \A o \in Proc, u \in Use : frame[o][u] # f
      BY <2>1, <2>9, <3>1, CountsSay, Zenon
    <3>3. CASE q = p /\ h = g
      <4>1. frame'[q][h] = f /\ content'[f] = data /\ view'[q][h] = data
        BY <1>2, <2>1, <2>2, <2>4, <2>5, <3>3, ZenonT(30)
      <4>2. Sole(q, h)'
        <5>1. \A o \in Proc, u \in Use : frame'[o][u] = f => o = p /\ u = g
          BY ONLY <2>2, <3>2, ZenonT(30)
        <5>2. QED
          BY ONLY <3>3, <4>1, <5>1, ZenonT(30) DEF Sole
      <4>3. QED
        BY <4>1, <4>2, Zenon
    <3>4. CASE ~(q = p /\ h = g)
      <4>1. frame'[q][h] = frame[q][h] /\ Present(q, h) /\ rw'[q][h] = rw[q][h] /\ view'[q][h] = view[q][h]
        BY <2>2, <2>3, <2>5, <3>1, <3>4, Uses DEF Present
      <4>2. frame[q][h] \in Frame /\ frame[q][h] # f /\ h \in Use
        BY <3>2, <4>1, PresentIsFrame, Zenon
      <4>3. content[frame[q][h]] = view[q][h] /\ (rw[q][h] => Sole(q, h))
        BY <1>1, <3>1, <4>1, Zenon DEF PrivateInv
      <4>4. Sole(q, h) => Sole(q, h)'
        BY <2>2, <4>1, <4>2 DEF Sole
      <4>5. QED
        BY <2>4, <4>1, <4>2, <4>3, <4>4, ZenonT(30)
    <3>5. QED
      BY <3>3, <3>4, Zenon
  <2>13. QED
    BY <2>7, <2>8, <2>10, <2>11, <2>12, Zenon
<1>5. QED
  BY <1>3, <1>4, ZenonT(30) DEF ZeroFault

LEMMA COWFaultKeeps ==
    ASSUME MemoryInv, NEW p \in Proc, NEW g \in Page, COWFault(p, g)
    PROVE  MemoryInv'
<1> USE DEF MemoryInv
<1> DEFINE old == frame[p][g]
<1>1. /\ ~panic /\ life[p] = "alive" /\ Present(p, g)
      /\ overruled' = IF permission[p][g[1]].rw THEN overruled ELSE overruled \cup {<<p, g>>}
      /\ UNCHANGED <<life, permission, view, wrapped, exposed>>
  BY Zenon DEF COWFault, Alive
<1>2. g \in Use /\ old \in Frame
  BY <1>1, Uses DEF Present, PagingType, FrameTable
<1>3. PICK f \in FreeFrames :
          /\ \/ /\ [refcnt EXCEPT ![f] = 1][old] > 0
                /\ refcnt' = [[refcnt EXCEPT ![f] = 1] EXCEPT ![old] = @ - 1]
                /\ freePages' = freePages - (IF [refcnt EXCEPT ![f] = 1][old] = 1 THEN 0 ELSE 1)
                /\ panic' = panic
             \/ panic' = TRUE /\ refcnt' = refcnt /\ freePages' = freePages
          /\ frame' = [frame EXCEPT ![p][g] = f]
          /\ rw' = [rw EXCEPT ![p][g] = TRUE]
          /\ cow' = [cow EXCEPT ![p][g] = FALSE]
          /\ content' = [content EXCEPT ![f] = content[old]]
  BY ZenonT(30) DEF COWFault, Copied, physVars
<1>4. f \in Frame /\ refcnt[f] = 0 /\ f # Nothing
  BY PagingAssumption, ZenonT(30) DEF FreeFrames, IsFree
<1>5. /\ frame' \in FrameTable
      /\ \A q \in Proc, u \in Use : frame'[q][u] = IF q = p /\ u = g THEN f ELSE frame[q][u]
  BY <1>2, <1>3, <1>4, Zenon DEF PagingType, FrameTable
<1>6. /\ rw' \in [Proc -> [Page -> BOOLEAN]] /\ cow' \in [Proc -> [Page -> BOOLEAN]]
      /\ \A q \in Proc, h \in Page : rw'[q][h] = IF q = p /\ h = g THEN TRUE ELSE rw[q][h]
  BY <1>3, ZenonT(30) DEF PagingType
<1>7. /\ content' \in [Frame -> Value]
      /\ \A h \in Frame : content'[h] = IF h = f THEN content[old] ELSE content[h]
  BY <1>2, <1>3, <1>4, Zenon DEF PagingType
<1>8. refcnt' \in [Frame -> Nat] /\ freePages' \in Int
  <2> DEFINE count == [refcnt EXCEPT ![f] = 1]
  <2>1. count \in [Frame -> Nat]
    BY ZenonT(30) DEF PagingType
  <2>2. \/ /\ count[old] > 0
           /\ refcnt' = [count EXCEPT ![old] = count[old] - 1]
           /\ freePages' = freePages - (IF count[old] = 1 THEN 0 ELSE 1)
        \/ refcnt' = refcnt /\ freePages' = freePages
    BY <1>3, Zenon
  <2> HIDE DEF count, old
  <2>3. refcnt' \in [Frame -> Nat]
    <3>1. count[old] > 0 => count[old] - 1 \in Nat
      BY <1>2, <2>1
    <3>2. refcnt \in [Frame -> Nat]
      BY Zenon DEF PagingType
    <3>3. QED
      BY ONLY <1>2, <2>1, <2>2, <3>1, <3>2, Zenon
  <2>4. freePages' \in Int
    BY <2>2 DEF PagingType
  <2>5. QED
    BY <2>3, <2>4, Zenon
<1>9. panic' \in BOOLEAN
  BY <1>3, ZenonT(30) DEF PagingType
<1>10. PagingType'
  BY <1>1, <1>5, <1>6, <1>7, <1>8, <1>9, Zenon DEF PagingType
<1>11. SlotsEmpty'
  BY <1>1, <1>5 DEF SlotsEmpty
<1>12. ASSUME ~wrapped PROVE Counted /\ Counted' /\ panic' = panic
  BY <1>1, <1>12, COWCounts, Zenon DEF CountInv
<1>13. CountInv'
  BY <1>1, <1>12, Zenon DEF CountInv
<1>14. RegionInv'
  <2>1. SUFFICES ASSUME NEW q \in Proc, NEW h \in Page, Present(q, h)'
                 PROVE  /\ permission[q][h[1]] # Nothing
                        /\ rw'[q][h] => permission[q][h[1]].rw \/ <<q, h>> \in overruled'
    BY <1>1, ZenonT(30) DEF RegionInv
  <2>2. CASE q = p /\ h = g
    BY <1>1, <2>2, ZenonT(30) DEF RegionInv
  <2>3. CASE ~(q = p /\ h = g)
    <3>1. Present(q, h) /\ rw'[q][h] = rw[q][h]
      BY <1>5, <1>6, <2>1, <2>3, Uses, ZenonT(30) DEF Present
    <3>2. QED
      BY <1>1, <3>1, Zenon DEF RegionInv
  <2>4. QED
    BY <2>2, <2>3, ZenonT(30)
<1>15. PrivateInv'
  <2>1. SUFFICES ASSUME ~wrapped, ~exposed, NEW q \in Proc, NEW h \in Page, Present(q, h)'
                 PROVE  content'[frame'[q][h]] = view'[q][h] /\ (rw'[q][h] => Sole(q, h)')
    BY <1>1, Zenon DEF PrivateInv
  <2>2. \A o \in Proc, u \in Use : frame[o][u] # f
    BY <1>4, <1>12, <2>1, CountsSay, Zenon
  <2>3. CASE q = p /\ h = g
    <3>1. frame'[q][h] = f /\ content'[f] = content[old] /\ view'[q][h] = view[p][g]
      BY <1>1, <1>2, <1>4, <1>5, <1>7, <2>3, ZenonT(30)
    <3>2. content[old] = view[p][g]
      BY <1>1, <2>1, ZenonT(30) DEF PrivateInv
    <3>3. Sole(q, h)'
      <4>1. \A o \in Proc, u \in Use : frame'[o][u] = f => o = p /\ u = g
        BY ONLY <1>5, <2>2, ZenonT(30)
      <4>2. QED
        BY ONLY <2>3, <3>1, <4>1, ZenonT(30) DEF Sole
    <3>4. QED
      BY <3>1, <3>2, <3>3, Zenon
  <2>4. CASE ~(q = p /\ h = g)
    <3>1. frame'[q][h] = frame[q][h] /\ Present(q, h) /\ rw'[q][h] = rw[q][h] /\ view'[q][h] = view[q][h]
      BY <1>1, <1>5, <1>6, <2>1, <2>4, Uses, ZenonT(30) DEF Present
    <3>2. frame[q][h] \in Frame /\ frame[q][h] # f /\ h \in Use
      BY <2>2, <3>1, PresentIsFrame, Zenon
    <3>3. content[frame[q][h]] = view[q][h] /\ (rw[q][h] => Sole(q, h))
      BY <1>1, <2>1, <3>1, ZenonT(30) DEF PrivateInv
    <3>4. Sole(q, h) => Sole(q, h)'
      BY <1>5, <3>1, <3>2 DEF Sole
    <3>5. QED
      BY <1>7, <3>1, <3>2, <3>3, <3>4, Zenon
  <2>5. QED
    BY <2>3, <2>4, Zenon
<1>16. QED
  BY <1>10, <1>11, <1>13, <1>14, <1>15, Zenon

LEMMA ExecKeeps ==
    ASSUME MemoryInv, NEW p \in Proc, NEW c \in Proc, Exec(p, c)
    PROVE  MemoryInv'
<1> USE DEF MemoryInv
<1>1. ~panic /\ life[c] = "free" /\ \A u \in Use : frame[c][u] = Nothing
  BY Zenon DEF Exec, Alive, SlotsEmpty
<1>2. CASE Cardinality(FreeFrames) < 2 /\ OutOfMemory
  BY <1>2, OutOfMemoryKeeps, Zenon
<1>3. ASSUME NEW t \in FreeFrames, NEW d \in FreeFrames, t # d,
             AllocPages({t, d}), NewSpace(c, t, d, NoUses),
             life' = [life EXCEPT ![c] = "alive"],
             permission' = [permission EXCEPT ![c] = NoRegions],
             UNCHANGED <<rw, cow, content, view, panic, historyVars>>
      PROVE  MemoryInv'
  <2>1. t \in Frame /\ d \in Frame /\ refcnt[t] = 0 /\ refcnt[d] = 0
    BY Zenon DEF FreeFrames, IsFree
  <2>2. /\ frame' \in FrameTable
        /\ \A q \in Proc : q # c => frame'[q] = frame[q]
        /\ \A u \in Use : frame'[c][u] = IF u = Directory THEN d ELSE IF u = Tables THEN t ELSE Nothing
    BY <1>3, <2>1, Uses, Zenon DEF NewSpace, PagingType, FrameTable, NoUses
  <2>3. IsFiniteSet({t, d}) /\ Cardinality({t, d}) \in Nat
    <3>1. {t, d} = {t} \cup {d} /\ IsFiniteSet({t})
      BY FS_Singleton, Zenon
    <3>2. IsFiniteSet({t} \cup {d})
      BY ONLY <3>1, FS_AddElement, Zenon
    <3>3. QED
      BY <3>1, <3>2, FS_CardinalityType, Zenon
  <2>4. refcnt' \in [Frame -> Nat] /\ freePages' \in Int
    <3>1. /\ refcnt' = [h \in Frame |-> IF h \in {t, d} THEN 1 ELSE refcnt[h]]
          /\ freePages' = freePages - Cardinality({t, d})
      BY <1>3, Zenon DEF AllocPages
    <3>2. QED
      BY <2>3, <3>1 DEF PagingType
  <2>5. permission' \in [Proc -> [Slot -> Permission \cup {Nothing}]]
    BY <1>3, Zenon DEF PagingType, NoRegions
  <2>6. PagingType'
    BY <1>3, <2>2, <2>4, <2>5, Zenon DEF PagingType, historyVars
  <2>7. SlotsEmpty'
    <3>1. life'[c] = "alive" /\ \A q \in Proc : q # c => life'[q] = life[q]
      BY <1>3, Zenon DEF PagingType
    <3>2. \A q \in Proc : q # c => frame'[q] = frame[q]
      BY <2>2, ZenonT(30)
    <3>3. SUFFICES ASSUME NEW q \in Proc, NEW u \in Use,
                          life'[q] = "free" \/ (life'[q] = "exited" /\ u # Directory)
                   PROVE  frame'[q][u] = Nothing
      BY Zenon DEF SlotsEmpty
    <3>4. q # c
      BY <3>1, <3>3, Zenon
    <3>5. life[q] = life'[q] /\ frame'[q] = frame[q]
      BY <3>1, <3>2, <3>4, Zenon
    <3>6. QED
      BY <3>3, <3>5, Zenon DEF SlotsEmpty
  <2>8. ASSUME ~wrapped PROVE Counted /\ Counted'
    <3>1. Counted
      BY <1>1, <2>8, Zenon DEF CountInv
    <3>2. \A h \in Frame \ {t, d} : UsesIn(c, Use, h)' = UsesIn(c, Use, h)
      BY <1>1, <2>2, PagingAssumption, ZenonT(30) DEF UsesIn
    <3>3. UsesIn(c, Use, t)' = {Tables} /\ UsesIn(c, Use, d)' = {Directory}
      BY <1>3, <2>1, <2>2, Uses, PagingAssumption DEF UsesIn
    <3>4. \A h \in {t, d} : \E u : UsesIn(c, Use, h)' = {u}
      BY <3>3, ZenonT(30)
    <3>5. QED
      BY <1>3, <2>2, <2>3, <3>1, <3>2, <3>4, AllocCounts, ZenonT(30)
  <2>9. CountInv'
    BY <1>1, <1>3, <2>8, ZenonT(30) DEF CountInv, historyVars
  <2>10. \A q \in Proc, h \in Page : Present(q, h)' =>
             q # c /\ frame'[q][h] = frame[q][h] /\ Present(q, h)
    BY <2>2, Uses, Zenon DEF Present
  <2>11. RegionInv'
    <3>1. SUFFICES ASSUME NEW q \in Proc, NEW h \in Page, q # c, Present(q, h)
                   PROVE  /\ permission'[q][h[1]] # Nothing
                          /\ rw[q][h] => permission'[q][h[1]].rw \/ <<q, h>> \in overruled
      BY <1>3, <2>10 DEF RegionInv, historyVars
    <3>2. permission'[q] = permission[q]
      BY <1>3, <3>1, Zenon DEF PagingType
    <3>3. QED
      BY <1>1, <3>1, <3>2, Zenon DEF RegionInv
  <2>12. PrivateInv'
    <3>1. SUFFICES ASSUME ~wrapped, ~exposed, NEW q \in Proc, NEW h \in Page, Present(q, h)'
                   PROVE  content[frame'[q][h]] = view[q][h] /\ (rw[q][h] => Sole(q, h)')
      BY <1>3, ZenonT(30) DEF PrivateInv, historyVars
    <3>2. q # c /\ frame'[q][h] = frame[q][h] /\ Present(q, h) /\ h \in Use
      BY <2>10, <3>1, Uses, ZenonT(30)
    <3>3. content[frame[q][h]] = view[q][h] /\ (rw[q][h] => Sole(q, h))
      BY <1>1, <3>1, <3>2, ZenonT(30) DEF PrivateInv
    <3>4. frame[q][h] # t /\ frame[q][h] # d /\ frame[q][h] # Nothing
      BY <2>1, <2>8, <3>1, <3>2, CountsSay, ZenonT(30) DEF Present
    <3>5. Sole(q, h) => Sole(q, h)'
      BY <2>2, <3>2, <3>4 DEF Sole
    <3>6. QED
      BY <3>2, <3>3, <3>5, ZenonT(30)
  <2>13. QED
    BY <2>6, <2>7, <2>9, <2>11, <2>12, Zenon
<1>4. QED
  BY <1>2, <1>3, Zenon DEF Exec

LEMMA CloneKeeps ==
    ASSUME MemoryInv, NEW p \in Proc, NEW c \in Proc, Clone(p, c)
    PROVE  MemoryInv'
<1> USE DEF MemoryInv
<1> DEFINE marked == [g \in Page |-> rw[p][g] \/ cow[p][g]]
           count(t, d) == [f \in Frame |-> IF f \in {t, d} THEN 1 ELSE refcnt[f]]
<1>1. /\ ~panic /\ life[p] = "alive" /\ life[c] = "free" /\ p # c
      /\ \A u \in Use : frame[c][u] = Nothing
  BY Zenon DEF Clone, Alive, SlotsEmpty
<1>2. CASE Cardinality(FreeFrames) < 2 /\ OutOfMemory
  BY <1>2, OutOfMemoryKeeps, Zenon
<1>3. ASSUME NEW t \in FreeFrames, NEW d \in FreeFrames, t # d,
             AllocAgain(p, count(t, d), freePages - 2),
             NewSpace(c, t, d, frame[p]),
             rw' = [rw EXCEPT ![p] = NoBits, ![c] = NoBits],
             cow' = [cow EXCEPT ![p] = marked, ![c] = marked],
             life' = [life EXCEPT ![c] = "alive"],
             permission' = [permission EXCEPT ![c] = permission[p]],
             view' = [view EXCEPT ![c] = view[p]],
             UNCHANGED <<content, panic, exposed, overruled>>
      PROVE  MemoryInv'
  <2>1. t \in Frame /\ d \in Frame /\ refcnt[t] = 0 /\ refcnt[d] = 0
    BY Zenon DEF FreeFrames, IsFree
  <2>2. /\ frame' \in FrameTable
        /\ \A q \in Proc : q # c => frame'[q] = frame[q]
        /\ \A u \in Use : frame'[c][u] = IF u = Directory THEN d ELSE IF u = Tables THEN t ELSE frame[p][u]
    BY <1>3, <2>1, Uses, ZenonT(30) DEF NewSpace, PagingType, FrameTable
  <2>3. /\ refcnt' \in [Frame -> Nat] /\ freePages' \in Int /\ wrapped' \in BOOLEAN
        /\ wrapped => wrapped'
    <3> DEFINE n(f) == Cardinality(UsesIn(p, Page, f))
               again == {f \in Frame : \E k \in 1..n(f) : (count(t, d)[f] + k) % CountLimit = 1}
               around == \E f \in Frame : count(t, d)[f] + n(f) >= CountLimit
    <3>1. /\ refcnt' = [f \in Frame |-> (count(t, d)[f] + n(f)) % CountLimit]
          /\ freePages' = freePages - 2 - Cardinality(again)
          /\ wrapped' = (wrapped \/ around)
      BY <1>3, Zenon DEF AllocAgain
    <3>2. \A f \in Frame : n(f) \in Nat /\ count(t, d)[f] \in Nat
      BY UsersFinite, Uses, ZenonT(30) DEF PagingType
    <3>3. Cardinality(again) \in Nat
      BY PagingAssumption, FS_Subset, FS_CardinalityType, Zenon
    <3>4. around \in BOOLEAN
      BY Zenon
    <3> HIDE DEF n, again, around, count
    <3>5. refcnt' \in [Frame -> Nat]
      <4>1. \A f \in Frame : (count(t, d)[f] + n(f)) % CountLimit \in Nat
        BY <3>2, PagingAssumption
      <4>2. QED
        BY <3>1, <4>1, Zenon
    <3>6. freePages' \in Int
      BY <3>1, <3>3 DEF PagingType
    <3>7. wrapped' \in BOOLEAN /\ (wrapped => wrapped')
      BY <3>1, <3>4, Zenon DEF PagingType
    <3>8. QED
      BY <3>5, <3>6, <3>7, ZenonT(30)
  <2>4. /\ rw' \in [Proc -> [Page -> BOOLEAN]]
        /\ \A q \in Proc, g \in Page : rw'[q][g] = IF q \in {p, c} THEN FALSE ELSE rw[q][g]
    BY <1>3, ZenonT(30) DEF PagingType, NoBits
  <2>5. cow' \in [Proc -> [Page -> BOOLEAN]]
    <3>1. marked \in [Page -> BOOLEAN]
      BY Zenon
    <3> HIDE DEF marked
    <3>2. QED
      BY <1>3, <3>1, ZenonT(30) DEF PagingType
  <2>6. permission' \in [Proc -> [Slot -> Permission \cup {Nothing}]] /\ view' \in [Proc -> [Page -> Value]]
    BY <1>3, Zenon DEF PagingType
  <2>7. PagingType'
    BY <1>3, <2>2, <2>3, <2>4, <2>5, <2>6, ZenonT(30) DEF PagingType
  <2>8. SlotsEmpty'
    <3>1. life'[c] = "alive" /\ \A q \in Proc : q # c => life'[q] = life[q]
      BY <1>3 DEF PagingType
    <3>2. \A q \in Proc : q # c => frame'[q] = frame[q]
      BY <2>2, ZenonT(30)
    <3>3. SUFFICES ASSUME NEW q \in Proc, NEW u \in Use,
                          life'[q] = "free" \/ (life'[q] = "exited" /\ u # Directory)
                   PROVE  frame'[q][u] = Nothing
      BY DEF SlotsEmpty
    <3>4. q # c
      BY <3>1, <3>3
    <3>5. life[q] = life'[q] /\ frame'[q] = frame[q]
      BY <3>1, <3>2, <3>4
    <3>6. QED
      BY <3>3, <3>5 DEF SlotsEmpty
  <2>9. ASSUME wrapped' = FALSE PROVE Counted /\ Counted'
    <3>1. Counted
      BY <1>1, <2>3, <2>9 DEF CountInv
    <3>2. QED
      BY <1>1, <1>3, <2>9, <3>1, CloneCounts
  <2>10. CountInv'
    BY <1>1, <1>3, <2>3, <2>9, ZenonT(30) DEF CountInv
  <2>11. \A h \in Page : frame'[c][h] = frame[p][h]
    BY <2>2, Uses
  <2>12. RegionInv'
    <3>1. SUFFICES ASSUME NEW q \in Proc, NEW h \in Page, Present(q, h)'
                   PROVE  /\ permission'[q][h[1]] # Nothing
                          /\ rw'[q][h] => permission'[q][h[1]].rw \/ <<q, h>> \in overruled
      BY <1>3, ZenonT(30) DEF RegionInv
    <3>2. CASE q = c
      <4>1. Present(p, h) /\ permission'[c] = permission[p] /\ ~rw'[q][h]
        BY <1>3, <2>4, <2>11, <3>1, <3>2, ZenonT(30) DEF Present, PagingType
      <4>2. QED
        BY <1>1, <3>2, <4>1 DEF RegionInv
    <3>3. CASE q # c
      <4>1. Present(q, h) /\ permission'[q] = permission[q] /\ (rw'[q][h] => rw[q][h])
        BY <1>3, <2>2, <2>4, <3>1, <3>3, ZenonT(30) DEF Present, PagingType
      <4>2. QED
        BY <1>1, <4>1, ZenonT(30) DEF RegionInv
    <3>4. QED
      BY <3>2, <3>3
  <2>13. PrivateInv'
    <3>1. SUFFICES ASSUME ~wrapped', ~exposed, NEW q \in Proc, NEW h \in Page, Present(q, h)'
                   PROVE  content[frame'[q][h]] = view'[q][h] /\ (rw'[q][h] => Sole(q, h)')
      BY <1>3, ZenonT(30) DEF PrivateInv
    <3>2. ~wrapped /\ wrapped' = FALSE /\ h \in Use
      BY <2>3, <3>1, Uses
    <3>3. CASE q = c
      <4>1. /\ frame'[q][h] = frame[p][h] /\ Present(p, h) /\ view'[q] = view[p]
            /\ ~rw'[q][h]
        BY <1>3, <2>4, <2>11, <3>1, <3>3, ZenonT(30) DEF Present, PagingType
      <4>2. QED
        BY <1>1, <3>1, <3>2, <4>1 DEF PrivateInv
    <3>4. CASE q # c
      <4>1. frame'[q][h] = frame[q][h] /\ Present(q, h) /\ view'[q] = view[q]
        BY <1>3, <2>2, <3>1, <3>4, ZenonT(30) DEF Present, PagingType
      <4>2. content[frame[q][h]] = view[q][h] /\ (rw[q][h] => Sole(q, h))
        BY <1>1, <3>1, <3>2, <4>1, ZenonT(30) DEF PrivateInv
      <4>3. frame[q][h] # t /\ frame[q][h] # d
        BY <2>1, <2>9, <3>2, CountsSay, ZenonT(30)
      <4>4. ASSUME rw'[q][h] PROVE Sole(q, h)'
        <5>1. q # p /\ rw[q][h]
          BY <2>4, <4>4, ZenonT(30)
        <5>2. Sole(q, h)
          BY <4>2, <5>1
        <5>3. \A u \in Use : frame'[c][u] # frame[q][h]
          BY <2>2, <4>3, <5>1, <5>2 DEF Sole
        <5>4. QED
          BY <2>2, <4>1, <5>2, <5>3 DEF Sole
      <4>5. QED
        BY <4>1, <4>2, <4>4, ZenonT(30)
    <3>5. QED
      BY <3>3, <3>4, ZenonT(30)
  <2>14. QED
    BY <2>7, <2>8, <2>10, <2>12, <2>13, Zenon
<1>4. QED
  BY <1>2, <1>3, ZenonT(30) DEF Clone, ParentRw

\* At boot only the first process uses pages, for its tables and its directory.
LEMMA MemoryInitial ==
    ASSUME PagingInit
    PROVE  MemoryInv
<1>1. PICK t \in Frame, d \in Frame :
          /\ t # d
          /\ life = [p \in Proc |-> IF p = FirstProc THEN "alive" ELSE "free"]
          /\ frame = [p \in Proc |-> IF p = FirstProc
                          THEN [NoUses EXCEPT ![Tables] = t, ![Directory] = d] ELSE NoUses]
          /\ rw = [p \in Proc |-> NoBits] /\ cow = [p \in Proc |-> NoBits]
          /\ permission = [p \in Proc |-> NoRegions]
          /\ refcnt = [f \in Frame |-> IF f \in {t, d} THEN 1 ELSE 0]
          /\ freePages = Cardinality(Frame) - 2
          /\ content = [f \in Frame |-> Zeros]
          /\ view = [p \in Proc |-> [g \in Page |-> Zeros]]
          /\ panic = FALSE /\ wrapped = FALSE /\ exposed = FALSE
  BY ZenonT(30) DEF PagingInit
<1>2. /\ frame \in FrameTable
      /\ \A p \in Proc, u \in Use : frame[p][u] =
             IF p = FirstProc /\ u = Directory THEN d
             ELSE IF p = FirstProc /\ u = Tables THEN t ELSE Nothing
  BY <1>1, Uses DEF FrameTable, NoUses
<1>3. Cardinality(Frame) \in Nat
  BY PagingAssumption, FS_CardinalityType
<1>4. PagingType
  <2>1. rw \in [Proc -> [Page -> BOOLEAN]] /\ cow \in [Proc -> [Page -> BOOLEAN]]
    BY <1>1 DEF NoBits
  <2>2. permission \in [Proc -> [Slot -> Permission \cup {Nothing}]]
    BY <1>1 DEF NoRegions
  <2>3. /\ life \in [Proc -> {"free", "alive", "exited"}] /\ refcnt \in [Frame -> Nat]
        /\ content \in [Frame -> Value] /\ view \in [Proc -> [Page -> Value]]
    BY <1>1, PagingAssumption
  <2>4. freePages \in Int
    BY <1>1, <1>3
  <2>5. QED
    BY <1>1, <1>2, <2>1, <2>2, <2>3, <2>4, ZenonT(30) DEF PagingType
<1>5. SlotsEmpty
  <2>1. \A p \in Proc : life[p] = IF p = FirstProc THEN "alive" ELSE "free"
    BY <1>1
  <2>2. QED
    BY <1>2, <2>1 DEF SlotsEmpty
<1>6. Counted
  <2>1. ASSUME NEW f \in Frame PROVE refcnt[f] = Cardinality(UsersOf(f))
    <3>1. CASE f = t
      <4>1. UsersOf(f) = {<<FirstProc, Tables>>}
        <5>1. \A q \in Proc, u \in Use : frame[q][u] = f <=> q = FirstProc /\ u = Tables
          BY <1>1, <1>2, <3>1, Uses, PagingAssumption, ZenonT(30)
        <5>2. FirstProc \in Proc /\ Tables \in Use
          BY Uses, PagingAssumption
        <5>3. QED
          BY ONLY <5>1, <5>2 DEF UsersOf
      <4>2. QED
        BY <1>1, <3>1, <4>1, FS_Singleton
    <3>2. CASE f = d
      <4>1. UsersOf(f) = {<<FirstProc, Directory>>}
        <5>1. \A q \in Proc, u \in Use : frame[q][u] = f <=> q = FirstProc /\ u = Directory
          BY <1>1, <1>2, <3>2, Uses, PagingAssumption, ZenonT(30)
        <5>2. FirstProc \in Proc /\ Directory \in Use
          BY Uses, PagingAssumption
        <5>3. QED
          BY ONLY <5>1, <5>2 DEF UsersOf
      <4>2. QED
        BY <1>1, <3>2, <4>1, FS_Singleton, ZenonT(30)
    <3>3. CASE f # t /\ f # d
      <4>1. UsersOf(f) = {}
        BY <1>2, <3>3, PagingAssumption, ZenonT(30) DEF UsersOf
      <4>2. QED
        BY <1>1, <3>3, <4>1, FS_EmptySet
    <3>4. QED
      BY <3>1, <3>2, <3>3
  <2>2. FreeFrames = (Frame \ {t}) \ {d}
    BY <1>1 DEF FreeFrames, IsFree
  <2>3. IsFiniteSet(Frame \ {t}) /\ Cardinality(Frame \ {t}) = Cardinality(Frame) - 1
    BY PagingAssumption, FS_RemoveElement
  <2>4. Cardinality((Frame \ {t}) \ {d}) = Cardinality(Frame \ {t}) - 1
    BY <1>1, <2>3, d \in Frame \ {t}, FS_RemoveElement, ZenonT(30)
  <2>5. QED
    BY <1>1, <1>3, <2>1, <2>2, <2>3, <2>4 DEF Counted
<1>7. \A p \in Proc, g \in Page : ~Present(p, g)
  BY <1>2, Uses DEF Present
<1>8. CountInv /\ RegionInv /\ PrivateInv
  BY <1>1, <1>6, <1>7 DEF CountInv, RegionInv, PrivateInv
<1>9. QED
  BY <1>4, <1>5, <1>8 DEF MemoryInv

\* Every step keeps the invariant.
LEMMA MemoryStep ==
    ASSUME MemoryInv, [PagingNext]_pagingVars
    PROVE  MemoryInv'
<1>1. CASE PagingNext
  <2>1. PICK p \in Proc :
            \/ \E r \in Slot, write \in BOOLEAN, file \in BOOLEAN : MapRegion(p, r, write, file)
            \/ \E r \in Slot : UnmapRegion(p, r) \/ \E write \in BOOLEAN : Protect(p, r, write)
            \/ \E g \in Page : ZeroFault(p, g) \/ COWFault(p, g) \/ \E v \in Value : WritePage(p, g, v)
            \/ \E c \in Proc : Exec(p, c) \/ Clone(p, c)
            \/ ExitMemory(p) \/ DeleteDirectory(p)
    BY <1>1 DEF PagingNext
  <2>2. CASE \E r \in Slot, write \in BOOLEAN, file \in BOOLEAN : MapRegion(p, r, write, file)
    BY <2>2, MapRegionKeeps
  <2>3. CASE \E r \in Slot : UnmapRegion(p, r) \/ \E write \in BOOLEAN : Protect(p, r, write)
    BY <2>3, UnmapRegionKeeps, ProtectKeeps
  <2>4. CASE \E g \in Page : ZeroFault(p, g) \/ COWFault(p, g) \/ \E v \in Value : WritePage(p, g, v)
    BY <2>4, ZeroFaultKeeps, COWFaultKeeps, WritePageKeeps
  <2>5. CASE \E c \in Proc : Exec(p, c) \/ Clone(p, c)
    BY <2>5, ExecKeeps, CloneKeeps
  <2>6. CASE ExitMemory(p) \/ DeleteDirectory(p)
    BY <2>6, ExitMemoryKeeps, DeleteDirectoryKeeps
  <2>7. QED
    BY <2>1, <2>2, <2>3, <2>4, <2>5, <2>6
<1>2. CASE UNCHANGED pagingVars
  <2>1. UNCHANGED <<life, frame, rw, cow, permission, refcnt, freePages, content, view, panic,
                    wrapped, exposed, overruled>>
    BY <1>2, ZenonT(30) DEF pagingVars, pageVars, physVars, historyVars
  <2>2. PagingType' /\ SlotsEmpty'
    BY <2>1 DEF MemoryInv, PagingType, SlotsEmpty, FrameTable
  <2>3. CountInv'
    BY <2>1, SameCounts, ZenonT(30) DEF MemoryInv, physVars
  <2>4. RegionInv'
    BY <2>1 DEF MemoryInv, RegionInv, Present
  <2>5. PrivateInv'
    BY <2>1, ZenonT(30) DEF MemoryInv, PrivateInv, Present, Sole
  <2>6. QED
    BY <2>2, <2>3, <2>4, <2>5 DEF MemoryInv
<1>3. QED
  BY <1>1, <1>2

(***************************************************************************)
(* The theorems.                                                           *)
(***************************************************************************)
\* Until a reference count goes around, it is the number of users of its physical
\* page, and the kernel panics for want of pages only.
THEOREM PagesAreCounted == PagingSpec => []PagesCounted
<1>1. MemoryInv => PagesCounted
  <2>1. SUFFICES ASSUME MemoryInv, ~wrapped PROVE
            /\ ~panic => (\A f \in Frame : refcnt[f] = Cardinality(UsersOf(f)))
                         /\ freePages = Cardinality(FreeFrames)
            /\ panic => Cardinality(FreeFrames) < 2
    BY DEF PagesCounted
  <2>2. QED
    BY <2>1 DEF MemoryInv, CountInv, Counted
<1>2. QED
  BY <1>1, MemoryInitial, MemoryStep, PTL DEF PagingSpec

\* A process reads what it wrote or inherited, whatever others write, and writes to
\* its writable regions only, with the exceptions PrivateMemory names.
THEOREM MemoryIsPrivate == PagingSpec => []PrivateMemory
<1>1. MemoryInv => PrivateMemory
  <2>1. SUFFICES ASSUME MemoryInv, ~panic, NEW p \in Proc, NEW g \in Page, Present(p, g)
                 PROVE  /\ ~wrapped /\ ~exposed => content[frame[p][g]] = view[p][g]
                        /\ rw[p][g] => permission[p][g[1]].rw \/ <<p, g>> \in overruled
    BY DEF PrivateMemory
  <2>2. QED
    BY <2>1, ZenonT(30) DEF MemoryInv, PrivateInv, RegionInv
<1>2. QED
  BY <1>1, MemoryInitial, MemoryStep, PTL DEF PagingSpec
================================================================================
