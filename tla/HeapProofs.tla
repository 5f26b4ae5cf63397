------------------------------ MODULE HeapProofs ------------------------------
(***************************************************************************)
(* Proofs about the kernel heap, for any range of addresses and any sizes  *)
(* of pages and allocations: blocks never overlap, the free list goes      *)
(* round in address order, and neighbours in it are joined.                *)
(*                                                                         *)
(* A search of the list starts anywhere and ends because a walk from       *)
(* anywhere meets every block of it: that it goes on to the least block    *)
(* above, or back to the start, is what malloc() and free() rely on and    *)
(* what the invariant carries through each step of theirs.                 *)
(***************************************************************************)
EXTENDS KernelHeap, FiniteSetTheorems, WellFoundedInduction, TLAPS

\* A set of numbers has a least one.
LEMMA LeastNatural ==
  ASSUME NEW S \in SUBSET Nat, S # {}
  PROVE  \E m \in S : \A n \in S : m <= n
  <1> DEFINE R == OpToRel(<, Nat)
  <1>1. IsWellFoundedOn(R, Nat)
    BY NatLessThanWellFounded, Zenon
  <1>2. \A x, y \in Nat : <<y, x>> \in R <=> y < x
    BY Zenon DEF OpToRel
  <1> HIDE DEF R
  <1>3. PICK x \in S : \A y \in S : ~ (<<y, x>> \in R)
    BY <1>1, WFMin, Zenon
  <1>4. \A y \in S : y \in Nat /\ x \in Nat
    BY Zenon
  <1>5. \A y \in S : ~ (y < x)
    BY <1>2, <1>3, <1>4, Zenon
  <1>6. \A y \in S : x <= y
    BY <1>4, <1>5
  <1>7. QED BY <1>6, Zenon

\* A set of numbers that has a bound has a largest member.
LEMMA Greatest ==
  ASSUME NEW S \in SUBSET Nat, S # {}, NEW top \in Nat, \A s \in S : s <= top
  PROVE  \E m \in S : \A s \in S : s <= m
  <1> DEFINE bounds == {k \in Nat : \A s \in S : s <= k}
  <1>1. PICK m \in bounds : \A k \in bounds : m <= k
    <2>1. bounds \in SUBSET Nat /\ bounds # {}
      BY Zenon
    <2> HIDE DEF bounds
    <2>2. QED BY <2>1, LeastNatural, Zenon
  <1>2. m \in Nat /\ \A s \in S : s <= m /\ s \in Nat
    OBVIOUS
  <1>3. m \in S
    <2>1. SUFFICES ASSUME m \notin S PROVE FALSE
      BY Zenon
    <2>2. \A s \in S : s <= m - 1
      BY <1>2, <2>1
    <2>3. PICK s \in S : s \in Nat /\ s <= m - 1
      BY <1>2, <2>2, Zenon
    <2>4. m - 1 \in Nat /\ ~(m <= m - 1)
      BY <1>2, <2>3
    <2>5. m - 1 \in bounds
      BY <2>2, <2>4, Zenon
    <2>6. QED BY <1>1, <2>4, <2>5, Zenon
  <1>4. QED BY <1>2, <1>3, Zenon

\* A list in the order of addresses: each block leads to the next one up, the last
\* one to the static header.
Ordered(next) ==
    LET D == DOMAIN next IN
    /\ next \in [D -> D] /\ List \in D /\ D \in SUBSET Nat
    /\ \A a \in D : \/ a < next[a] /\ \A b \in D : a < b => next[a] <= b
                    \/ next[a] = List /\ \A b \in D : b <= a

\* Whoever follows such a list gets everywhere.
LEMMA GoesRound ==
  ASSUME NEW next, Ordered(next), NEW top \in Nat, \A d \in DOMAIN next : d <= top,
         NEW S \in SUBSET DOMAIN next, S # {}, \A s \in S : next[s] \in S
  PROVE  S = DOMAIN next
  <1> DEFINE D == DOMAIN next
  <1>1. /\ next \in [D -> D] /\ List \in D /\ D \in SUBSET Nat
        /\ \A a \in D : \/ a < next[a] /\ \A b \in D : a < b => next[a] <= b
                        \/ next[a] = List /\ \A b \in D : b <= a
    BY Zenon DEF Ordered
  <1>2. \A d \in D : d <= top /\ d \in Nat
    BY <1>1
  <1> HIDE DEF D
  <1>3. S \in SUBSET D /\ S \in SUBSET Nat
    BY <1>1 DEF D
  <1>4. List \in S
    <2>1. PICK m \in S : \A s \in S : s <= m
      BY <1>2, <1>3, Greatest, Zenon
    <2>2. m \in D /\ next[m] \in S /\ next[m] <= m
      BY <1>3, <2>1, Zenon
    <2>3. m \in Nat /\ next[m] \in Nat
      BY <1>3, <2>2, Zenon
    <2>4. ~(m < next[m])
      BY <2>2, <2>3
    <2>5. QED BY <1>1, <2>2, <2>4, Zenon
  <1>5. SUFFICES ASSUME D \ S # {} PROVE FALSE
    BY <1>3, Zenon DEF D
  <1>6. PICK x \in D \ S : \A d \in D \ S : x <= d
    <2>1. D \ S \in SUBSET Nat
      BY <1>1, Zenon
    <2>2. QED BY <1>5, <2>1, LeastNatural, Zenon
  <1>7. x \in Nat /\ List < x
    <2>1. x \in Nat /\ x # List
      BY <1>2, <1>4, <1>6, Zenon
    <2>2. QED BY <2>1 DEF List
  <1> DEFINE below == {s \in S : s < x}
  <1>8. PICK m \in below : \A s \in below : s <= m
    <2>1. below \in SUBSET Nat /\ below # {} /\ \A s \in below : s <= top
      BY <1>2, <1>3, <1>4, <1>7, Zenon
    <2> HIDE DEF below
    <2>2. QED BY <2>1, Greatest, Zenon
  <1>9. m \in S /\ m \in D /\ m \in Nat /\ m < x /\ next[m] \in S /\ next[m] \in Nat
    BY <1>3, <1>8, Zenon
  <1>10. m < next[m] /\ next[m] <= x
    <2>1. ~(x <= m)
      BY <1>7, <1>9
    <2>2. QED BY <1>1, <1>6, <1>9, <2>1, Zenon
  <1>11. next[m] # x
    BY <1>6, <1>9, Zenon
  <1>12. next[m] < x /\ ~(next[m] <= m)
    BY <1>7, <1>9, <1>10, <1>11
  <1>13. QED BY <1>8, <1>9, <1>12, Zenon

\* A search looks at its first block and goes on from each one that does not end it.
LEMMA LooksOn ==
  ASSUME NEW next, Ordered(next), NEW a \in DOMAIN next, NEW stop
  PROVE  /\ Looked(next, a, stop) \in SUBSET DOMAIN next /\ a \in Looked(next, a, stop)
         /\ \A s \in Looked(next, a, stop) \ stop : next[s] \in Looked(next, a, stop)
  <1>1. \A s \in DOMAIN next : next[s] \in DOMAIN next
    BY Zenon DEF Ordered
  <1>2. Looked(next, a, stop) \in SUBSET DOMAIN next /\ a \in Looked(next, a, stop)
    BY Zenon DEF Looked
  <1>3. ASSUME NEW s \in Looked(next, a, stop) \ stop
        PROVE  next[s] \in Looked(next, a, stop)
    BY <1>1, <1>3, Zenon DEF Looked
  <1>4. QED BY <1>2, <1>3, Zenon

\* The search of free() ends, at the last block below the one to be freed.
LEMMA SpotBelow ==
  ASSUME NEW h, Ordered(h.next), h.first \in DOMAIN h.next,
         NEW top \in Nat, \A d \in DOMAIN h.next : d <= top,
         NEW block \in Nat \ DOMAIN h.next
  PROVE  /\ Spot(h, block) # {}
         /\ \A iter \in Spot(h, block) :
               /\ iter \in DOMAIN h.next /\ iter < block
               /\ \A c \in DOMAIN h.next : c <= iter \/ block < c
  <1> DEFINE next == h.next
             D == DOMAIN h.next
             stop == {a \in D : \/ a < block /\ block < next[a]
                                \/ (block > a \/ block < next[a]) /\ a >= next[a]}
  <1>1. /\ next \in [D -> D] /\ List \in D /\ D \in SUBSET Nat
        /\ \A a \in D : \/ a < next[a] /\ \A b \in D : a < b => next[a] <= b
                        \/ next[a] = List /\ \A b \in D : b <= a
    BY Zenon DEF Ordered
  <1>2. Spot(h, block) = Looked(next, h.first, stop) \cap stop
    BY Zenon DEF Spot, Found
  <1>3. \A d \in D : d \in Nat /\ next[d] \in Nat /\ next[d] \in D /\ d # block
    BY <1>1
  <1>4. block \in Nat /\ List < block
    BY <1>1 DEF List
  <1> HIDE DEF next, D
  <1>5. ASSUME NEW iter \in stop
        PROVE  iter \in D /\ iter < block /\ \A c \in D : c <= iter \/ block < c
    <2>1. iter \in D /\ iter \in Nat /\ next[iter] \in Nat
      BY <1>3, Zenon
    <2>2. CASE iter < block /\ block < next[iter]
      <3>1. next[iter] # List
        BY <1>4, <2>1, <2>2
      <3>2. \A b \in D : iter < b => next[iter] <= b
        BY <1>1, <2>1, <3>1, Zenon
      <3>3. ASSUME NEW c \in D PROVE c <= iter \/ block < c
        <4>1. c \in Nat /\ (iter < c => next[iter] <= c)
          BY <1>3, <3>2, Zenon
        <4>2. QED BY <1>4, <2>1, <2>2, <4>1
      <3>4. QED BY <2>1, <2>2, <3>3, Zenon
    <2>3. CASE (block > iter \/ block < next[iter]) /\ iter >= next[iter]
      <3>1. ~(iter < next[iter])
        BY <2>1, <2>3
      <3>2. next[iter] = List /\ \A b \in D : b <= iter
        BY <1>1, <2>1, <3>1, Zenon
      <3>3. iter < block
        BY <1>4, <2>1, <2>3, <3>2
      <3>4. QED BY <2>1, <3>2, <3>3, Zenon
    <2>4. QED BY <2>2, <2>3, Zenon
  <1>6. PICK g \in stop : TRUE
    <2> DEFINE below == {a \in D : a < block}
    <2>1. PICK g \in below : \A a \in below : a <= g
      <3>1. below \in SUBSET Nat /\ below # {} /\ \A s \in below : s <= top
        BY <1>1, <1>4, Zenon DEF D
      <3> HIDE DEF below
      <3>2. QED BY <3>1, Greatest, Zenon
    <2>2. g \in D /\ g < block /\ g \in Nat /\ next[g] \in Nat /\ next[g] \in D /\ next[g] # block
      BY <1>3, <2>1, Zenon
    <2>3. next[g] < block => next[g] <= g
      BY <2>1, <2>2, Zenon
    <2>4. (g < block /\ block < next[g]) \/ ((block > g \/ block < next[g]) /\ g >= next[g])
      BY <1>4, <2>2, <2>3
    <2>5. g \in stop
      BY <2>2, <2>4, Zenon
    <2>6. QED BY <2>5, Zenon
  <1> DEFINE L == Looked(next, h.first, stop)
  <1>7. Spot(h, block) # {}
    <2> HIDE DEF stop
    <2>1. SUFFICES ASSUME L \cap stop = {} PROVE FALSE
      BY <1>2, Zenon
    <2>2. L \in SUBSET D /\ L # {} /\ \A s \in L \ stop : next[s] \in L
      BY LooksOn, Zenon DEF D, next
    <2>3. \A s \in L : next[s] \in L
      BY <2>1, <2>2, Zenon
    <2> HIDE DEF L
    <2>4. L = D
      BY <2>2, <2>3, GoesRound, Zenon DEF D, next
    <2>5. g \in D
      BY <1>5, <1>6, Zenon DEF stop
    <2>6. QED BY <1>6, <2>1, <2>4, <2>5, Zenon
  <1>8. QED BY <1>2, <1>5, <1>7, Zenon DEF D

\* The blocks of a heap, free or in use.
Blocks(next, used) == (DOMAIN next \ {List}) \cup used

\* The list is in order, no two blocks overlap, and all are between the start of
\* the heap and its top.
Tidy(next, sizes, used, top) ==
    /\ Ordered(next)
    /\ used \in SUBSET Nat /\ used \cap DOMAIN next = {}
    /\ sizes \in [DOMAIN next \cup used -> Nat] /\ sizes[List] = 0
    /\ \A b \in Blocks(next, used) : HeapLow <= b /\ 1 <= sizes[b] /\ b + sizes[b] <= top
    /\ \A b, c \in Blocks(next, used) : b < c => b + sizes[b] <= c

\* The addresses that some blocks make up.
Covered(sizes, blocks) == {z \in Nat : \E b \in blocks : b <= z /\ z < b + sizes[b]}

\* A tidy heap whose blocks make up the addresses in cover.
Fills(next, sizes, used, top, cover) ==
    Tidy(next, sizes, used, top) /\ cover = Covered(sizes, Blocks(next, used))

\* Two free blocks next to each other become one.
JoinedNext(next, x, y) == With(Without(next, {y}), x, next[y])
JoinedSizes(sizes, x, y) == With(Without(sizes, {y}), x, sizes[x] + sizes[y])

LEMMA JoinFills ==
  ASSUME NEW next, NEW sizes, NEW used, NEW top \in Nat, NEW cover,
         Fills(next, sizes, used, top, cover),
         NEW x \in DOMAIN next \ {List}, NEW y \in DOMAIN next \ {List},
         next[x] = y, x + sizes[x] = y
  PROVE  Fills(JoinedNext(next, x, y), JoinedSizes(sizes, x, y), used, top, cover)
  <1> DEFINE D == DOMAIN next
             E == D \ {y}
             n2 == JoinedNext(next, x, y)
             s2 == JoinedSizes(sizes, x, y)
             B == Blocks(next, used)
             C == Blocks(n2, used)
  <1>1. /\ next \in [D -> D] /\ List \in D /\ D \in SUBSET Nat
        /\ \A a \in D : \/ a < next[a] /\ \A b \in D : a < b => next[a] <= b
                        \/ next[a] = List /\ \A b \in D : b <= a
    BY Zenon DEF Ordered, Tidy, Fills
  <1>2. /\ used \in SUBSET Nat /\ used \cap D = {}
        /\ sizes \in [D \cup used -> Nat] /\ sizes[List] = 0
        /\ \A b \in B : HeapLow <= b /\ 1 <= sizes[b] /\ b + sizes[b] <= top
        /\ \A b, c \in B : b < c => b + sizes[b] <= c
    BY Zenon DEF Tidy, Fills
  <1>3. x \in Nat /\ y \in Nat /\ sizes[x] \in Nat /\ sizes[y] \in Nat /\ x \in D /\ y \in D
    BY <1>1, <1>2, Zenon
  <1>4. 1 <= sizes[x] /\ 1 <= sizes[y] /\ x \in B /\ y \in B
    BY <1>2, Zenon DEF Blocks
  <1>5. x < y /\ x # y /\ y # List /\ x # List
    BY <1>3, <1>4
  <1>6. /\ DOMAIN n2 = E /\ n2[x] = next[y] /\ \A a \in E \ {x} : n2[a] = next[a]
        /\ n2 = [a \in E |-> IF a = x THEN next[y] ELSE next[a]]
    BY <1>3, <1>5, Zenon DEF JoinedNext, With, Without
  <1>7. /\ DOMAIN s2 = E \cup used /\ s2[x] = sizes[x] + sizes[y]
        /\ \A a \in (E \cup used) \ {x} : s2[a] = sizes[a]
        /\ s2 = [a \in E \cup used |-> IF a = x THEN sizes[x] + sizes[y] ELSE sizes[a]]
    <2>1. DOMAIN sizes = D \cup used /\ y \notin used /\ x \in (D \cup used) \ {y}
      BY <1>2, <1>3, <1>5, Zenon
    <2>2. ((D \cup used) \ {y}) \cup {x} = E \cup used
      BY <2>1, Zenon
    <2>3. s2 = [a \in E \cup used |-> IF a = x THEN sizes[x] + sizes[y] ELSE
                 [z \in (D \cup used) \ {y} |-> sizes[z]][a]]
      BY <2>1, <2>2, Zenon DEF JoinedSizes, With, Without
    <2>4. \A a \in E \cup used : a \in (D \cup used) \ {y}
      BY <2>1, Zenon
    <2>5. QED BY <1>3, <1>5, <2>3, <2>4, Zenon
  <1> HIDE DEF n2, s2
  <1>8. C = B \ {y}
    BY <1>2, <1>3, <1>6, Zenon DEF Blocks
  <1> HIDE DEF B, C
  <1>9. \A b \in C : b \in B /\ b \in Nat /\ b \in E \cup used
    BY <1>1, <1>2, <1>8, Zenon DEF B, Blocks
  <1>10. Ordered(n2)
    <2>1. n2 \in [E -> E] /\ List \in E /\ E \in SUBSET Nat
      <3>1. ASSUME NEW a \in E PROVE n2[a] \in E
        <4>1. CASE a = x
          <5>1. next[y] \in D /\ next[y] # y
            <6>1. next[y] \in D /\ (y < next[y] \/ next[y] = List)
              BY <1>1, <1>3, Zenon
            <6>2. QED BY <1>3, <1>5, <6>1
          <5>2. QED BY <1>6, <4>1, <5>1, Zenon
        <4>2. CASE a # x
          <5>1. a \in D /\ next[a] \in D /\ n2[a] = next[a]
            BY <1>1, <1>6, <4>2, Zenon
          <5>2. next[a] # y
            <6>1. SUFFICES ASSUME next[a] = y PROVE FALSE
              BY Zenon
            <6>2. a < y /\ (a < x => y <= x) /\ (x < a => y <= a)
              BY <1>1, <1>3, <1>5, <5>1, <6>1, Zenon
            <6>3. a \in Nat
              BY <1>1, <5>1, Zenon
            <6>4. QED BY <1>3, <1>5, <4>2, <6>2, <6>3
          <5>3. QED BY <5>1, <5>2, Zenon
        <4>3. QED BY <4>1, <4>2, Zenon
      <3>2. QED BY <1>1, <1>5, <1>6, <3>1, Zenon
    <2>2. ASSUME NEW a \in E
          PROVE  \/ a < n2[a] /\ \A b \in E : a < b => n2[a] <= b
                 \/ n2[a] = List /\ \A b \in E : b <= a
      <3>1. CASE a # x
        BY <1>1, <1>6, <3>1, Zenon
      <3>2. CASE a = x /\ next[y] = List /\ \A b \in D : b <= y
        <4>1. ASSUME NEW b \in E PROVE b <= x
          <5>1. b \in Nat /\ b <= y /\ b # y /\ (x < b => y <= b)
            BY <1>1, <1>3, <1>5, <3>2, Zenon
          <5>2. QED BY <1>3, <5>1
        <4>2. QED BY <1>6, <3>2, <4>1, Zenon
      <3>3. CASE a = x /\ y < next[y] /\ \A b \in D : y < b => next[y] <= b
        <4>1. next[y] \in Nat
          BY <1>1, <1>3, Zenon
        <4>2. x < next[y]
          BY <1>3, <1>5, <3>3, <4>1
        <4>3. ASSUME NEW b \in E, x < b PROVE next[y] <= b
          <5>1. b \in Nat /\ y <= b /\ b # y /\ b \in D
            BY <1>1, <1>3, <1>5, <4>3, Zenon
          <5>2. y < b
            BY <1>3, <5>1
          <5>3. QED BY <3>3, <5>1, <5>2, Zenon
        <4>4. QED BY <1>6, <3>3, <4>2, <4>3, Zenon
      <3>4. QED BY <1>1, <1>3, <3>1, <3>2, <3>3, Zenon
    <2>3. QED BY <1>6, <2>1, <2>2, Zenon DEF Ordered
  <1>11. used \in SUBSET Nat /\ used \cap DOMAIN n2 = {}
    BY <1>2, <1>6, Zenon
  <1>12. s2 \in [DOMAIN n2 \cup used -> Nat] /\ s2[List] = 0
    <2>1. sizes[x] + sizes[y] \in Nat
      BY <1>3
    <2>2. \A a \in E \cup used : sizes[a] \in Nat
      BY <1>2, Zenon
    <2>3. List \in (E \cup used) \ {x}
      BY <1>1, <1>5, Zenon
    <2>4. QED BY <1>2, <1>6, <1>7, <2>1, <2>2, <2>3, Zenon
  <1>13. \A b \in C \ {x} : s2[b] = sizes[b] /\ sizes[b] \in Nat
    BY <1>2, <1>7, <1>9, Zenon
  <1>14. x + s2[x] = y + sizes[y] /\ s2[x] \in Nat
    BY <1>3, <1>7
  <1>15. ASSUME NEW b \in C PROVE HeapLow <= b /\ 1 <= s2[b] /\ b + s2[b] <= top
    <2>1. CASE b # x
      BY <1>2, <1>9, <1>13, <2>1, Zenon
    <2>2. CASE b = x
      <3>1. HeapLow <= x /\ y + sizes[y] <= top
        BY <1>2, <1>4, Zenon
      <3>2. 1 <= s2[x]
        BY <1>3, <1>4, <1>7
      <3>3. QED BY <1>14, <2>2, <3>1, <3>2, Zenon
    <2>3. QED BY <2>1, <2>2, Zenon
  <1>16. ASSUME NEW b \in C, NEW c \in C, b < c PROVE b + s2[b] <= c
    <2>1. b \in B /\ c \in B /\ b \in Nat /\ c \in Nat /\ c # y
      BY <1>8, <1>9, Zenon
    <2>2. CASE b # x
      BY <1>2, <1>13, <1>16, <2>1, <2>2, Zenon
    <2>3. CASE b = x
      <3>1. x + sizes[x] <= c /\ (y < c => y + sizes[y] <= c)
        BY <1>2, <1>4, <1>16, <2>1, <2>3, Zenon
      <3>2. y < c
        BY <1>3, <2>1, <3>1
      <3>3. QED BY <1>14, <2>3, <3>1, <3>2, Zenon
    <2>4. QED BY <2>2, <2>3, Zenon
  <1>17. Covered(s2, C) = Covered(sizes, B)
    <2>1. ASSUME NEW z \in Nat, NEW b \in C, b <= z, z < b + s2[b]
          PROVE  \E c \in B : c <= z /\ z < c + sizes[c]
      <3>1. CASE b # x
        BY <1>9, <1>13, <2>1, <3>1, Zenon
      <3>2. CASE b = x
        <4>1. (x <= z /\ z < x + sizes[x]) \/ (y <= z /\ z < y + sizes[y])
          BY <1>3, <1>14, <2>1, <3>2
        <4>2. QED BY <1>4, <4>1, Zenon
      <3>3. QED BY <3>1, <3>2, Zenon
    <2>2. ASSUME NEW z \in Nat, NEW b \in B, b <= z, z < b + sizes[b]
          PROVE  \E c \in C : c <= z /\ z < c + s2[c]
      <3>1. x \in C
        BY <1>4, <1>5, <1>8, Zenon
      <3>2. CASE b # x /\ b # y
        <4>1. b \in C \ {x}
          BY <1>8, <2>2, <3>2, Zenon
        <4>2. QED BY <1>13, <2>2, <4>1, Zenon
      <3>3. CASE b = x \/ b = y
        <4>1. x <= z /\ z < x + s2[x]
          BY <1>3, <1>5, <1>14, <2>2, <3>3
        <4>2. QED BY <3>1, <4>1, Zenon
      <3>4. QED BY <3>2, <3>3, Zenon
    <2>3. QED BY <2>1, <2>2, Zenon DEF Covered
  <1>18. Tidy(n2, s2, used, top)
    BY <1>10, <1>11, <1>12, <1>15, <1>16, Zenon DEF Tidy, C
  <1>19. QED BY <1>17, <1>18, Zenon DEF n2, s2, B, C, Fills

\* The freed block goes into the list after iter.
InsertedNext(next, iter, block) == With(With(next, block, next[iter]), iter, block)

LEMMA InsertFills ==
  ASSUME NEW next, NEW sizes, NEW used, NEW top \in Nat, NEW cover,
         Fills(next, sizes, used, top, cover),
         NEW block \in used, NEW iter \in DOMAIN next, iter < block,
         \A c \in DOMAIN next : c <= iter \/ block < c
  PROVE  /\ Fills(InsertedNext(next, iter, block), sizes, used \ {block}, top, cover)
         /\ HeapLow <= block
         /\ next[iter] = List \/ block < next[iter]
  <1> DEFINE D == DOMAIN next
             E == D \cup {block}
             n2 == InsertedNext(next, iter, block)
             rest == used \ {block}
  <1>1. /\ next \in [D -> D] /\ List \in D /\ D \in SUBSET Nat
        /\ \A a \in D : \/ a < next[a] /\ \A b \in D : a < b => next[a] <= b
                        \/ next[a] = List /\ \A b \in D : b <= a
    BY Zenon DEF Ordered, Tidy, Fills
  <1>2. /\ used \in SUBSET Nat /\ used \cap D = {}
        /\ sizes \in [D \cup used -> Nat] /\ sizes[List] = 0
        /\ \A b \in Blocks(next, used) : HeapLow <= b /\ 1 <= sizes[b] /\ b + sizes[b] <= top
        /\ \A b, c \in Blocks(next, used) : b < c => b + sizes[b] <= c
    BY Zenon DEF Tidy, Fills
  <1>3. block \in Nat /\ block \notin D /\ iter \in Nat /\ iter # block /\ block # List
    BY <1>1, <1>2, Zenon
  <1>4. /\ DOMAIN n2 = E /\ n2[iter] = block /\ n2[block] = next[iter]
        /\ \A a \in D \ {iter} : n2[a] = next[a]
        /\ n2 = [a \in E |-> n2[a]]
    BY <1>3, Zenon DEF InsertedNext, With
  <1>5. block \in Blocks(next, used) /\ HeapLow <= block
    BY <1>2, Zenon DEF Blocks
  <1> HIDE DEF n2
  <1>6. Blocks(n2, rest) = Blocks(next, used)
    BY <1>3, <1>4, Zenon DEF Blocks
  <1>7. next[iter] = List \/ block < next[iter]
    <2>1. next[iter] \in D /\ (iter < next[iter] \/ next[iter] = List)
      BY <1>1, Zenon
    <2>2. next[iter] <= iter \/ block < next[iter]
      BY <2>1, Zenon
    <2>3. next[iter] \in Nat
      BY <1>1, <2>1, Zenon
    <2>4. QED BY <1>3, <2>1, <2>2, <2>3
  <1>8. Ordered(n2)
    <2>1. n2 \in [E -> E] /\ List \in E /\ E \in SUBSET Nat
      <3>1. ASSUME NEW a \in E PROVE n2[a] \in E
        BY <1>1, <1>4, Zenon
      <3>2. QED BY <1>1, <1>3, <1>4, <3>1, Zenon
    <2>2. ASSUME NEW a \in E
          PROVE  \/ a < n2[a] /\ \A b \in E : a < b => n2[a] <= b
                 \/ n2[a] = List /\ \A b \in E : b <= a
      <3>1. CASE a = iter
        <4>1. ASSUME NEW b \in E, iter < b PROVE block <= b
          <5>1. CASE b = block
            BY <1>3, <5>1
          <5>2. CASE b \in D
            <6>1. b \in Nat /\ (b <= iter \/ block < b)
              BY <1>1, <5>2, Zenon
            <6>2. QED BY <1>3, <4>1, <6>1
          <5>3. QED BY <5>1, <5>2, Zenon
        <4>2. QED BY <1>4, <3>1, <4>1, Zenon
      <3>2. CASE a = block
        <4>1. CASE next[iter] = List
          <5>1. ASSUME NEW b \in D PROVE b <= block
            <6>1. b \in Nat /\ (b <= iter \/ block < b) /\ (iter < List \/ b <= iter)
              BY <1>1, <4>1, Zenon
            <6>2. QED BY <1>3, <6>1 DEF List
          <5>2. block <= block
            BY <1>3
          <5>3. QED BY <1>4, <3>2, <4>1, <5>1, <5>2, Zenon
        <4>2. CASE next[iter] # List
          <5>1. block < next[iter]
            BY <1>7, <4>2, Zenon
          <5>2. ASSUME NEW b \in E, block < b PROVE next[iter] <= b
            <6>1. b \in D
              BY <1>3, <5>2
            <6>2. b \in Nat
              BY <1>1, <6>1, Zenon
            <6>3. iter < b
              BY <1>3, <5>2, <6>2
            <6>4. QED BY <1>1, <4>2, <6>1, <6>3, Zenon
          <5>3. QED BY <1>4, <3>2, <5>1, <5>2, Zenon
        <4>3. QED BY <4>1, <4>2, Zenon
      <3>3. CASE a \in D /\ a # iter
        <4>1. a \in Nat /\ n2[a] = next[a] /\ next[a] \in Nat /\ (a <= iter \/ block < a)
          BY <1>1, <1>4, <3>3, Zenon
        <4>2. CASE a < next[a] /\ \A b \in D : a < b => next[a] <= b
          <5>1. ASSUME a < block PROVE next[a] <= block
            <6>1. a < iter
              BY <1>3, <3>3, <4>1, <5>1
            <6>2. next[a] <= iter
              BY <4>2, <6>1, Zenon
            <6>3. QED BY <1>3, <4>1, <6>2
          <5>2. QED BY <4>1, <4>2, <5>1, Zenon
        <4>3. CASE next[a] = List /\ \A b \in D : b <= a
          <5>1. iter <= a
            BY <4>3, Zenon
          <5>2. block <= a
            BY <1>3, <3>3, <4>1, <5>1
          <5>3. QED BY <4>1, <4>3, <5>2, Zenon
        <4>4. QED BY <1>1, <3>3, <4>2, <4>3, Zenon
      <3>4. QED BY <3>1, <3>2, <3>3, Zenon
    <2>3. QED BY <1>4, <2>1, <2>2, Zenon DEF Ordered
  <1>9. /\ rest \in SUBSET Nat /\ rest \cap DOMAIN n2 = {}
        /\ DOMAIN n2 \cup rest = D \cup used
    BY <1>2, <1>4, ZenonT(30)
  <1>10. Tidy(n2, sizes, rest, top)
    BY <1>2, <1>6, <1>8, <1>9, Zenon DEF Tidy
  <1>11. QED BY <1>5, <1>6, <1>7, <1>10, Zenon DEF n2, Fills

\* No free block ends where the next one begins.
Apart(next, sizes, blocks) == \A b \in blocks \ {List} : next[b] # b + sizes[b]

\* What free() has once it looked at the block after, as soon as iter leads to the
\* block.
AfterSound(g, iter, block, f, used, top, cover) ==
    \E m, s :
        /\ g = [next |-> m, len |-> s, first |-> f]
        /\ block \in DOMAIN m /\ iter \in DOMAIN m
        /\ Fills(With(m, iter, block), s, used, top, cover)
        /\ Apart(With(m, iter, block), s, DOMAIN m \ {iter})

\* The block with the one after it: in the list once iter leads to it.
LEMMA AfterFills ==
  ASSUME NEW next, NEW sizes, NEW f, NEW used, NEW top \in Nat, NEW cover,
         Fills(next, sizes, used, top, cover),
         Apart(next, sizes, DOMAIN next),
         NEW block \in used, NEW iter \in DOMAIN next, iter < block,
         \A c \in DOMAIN next : c <= iter \/ block < c
  PROVE  AfterSound(MergeAfter([next |-> next, len |-> sizes, first |-> f], block, next[iter]),
                    iter, block, f, used \ {block}, top, cover)
  <1> DEFINE h == [next |-> next, len |-> sizes, first |-> f]
             n == next[iter]
             ins == InsertedNext(next, iter, block)
             rest == used \ {block}
  <1>1. /\ Fills(ins, sizes, rest, top, cover) /\ DOMAIN ins = DOMAIN next \cup {block}
        /\ ins[iter] = block /\ ins[block] = n
        /\ \A a \in DOMAIN next \ {iter} : ins[a] = next[a]
        /\ n = List \/ block < n
    <2>1. Fills(ins, sizes, rest, top, cover)
      BY InsertFills, Zenon
    <2>2. n = List \/ block < n
      BY InsertFills, Zenon
    <2>3. block \notin DOMAIN next /\ List \in DOMAIN next
      BY Zenon DEF Fills, Tidy, Ordered
    <2>4. /\ DOMAIN ins = DOMAIN next \cup {block} /\ ins[iter] = block /\ ins[block] = n
          /\ \A a \in DOMAIN next \ {iter} : ins[a] = next[a]
      BY <2>3, Zenon DEF InsertedNext, With
    <2>5. QED BY <2>1, <2>2, <2>4, Zenon
  <1>2. block \in Nat /\ iter \in Nat /\ sizes[block] \in Nat /\ 1 <= sizes[block] /\ n \in DOMAIN next
        /\ block \notin DOMAIN next /\ n \in Nat
    <2>1. block \in Nat /\ sizes[block] \in Nat /\ 1 <= sizes[block] /\ block \notin DOMAIN next
      BY Zenon DEF Fills, Tidy, Blocks
    <2>2. DOMAIN next \in SUBSET Nat /\ n \in DOMAIN next
      BY Zenon DEF Fills, Tidy, Ordered
    <2>3. QED BY <2>1, <2>2, Zenon
  <1>3. iter # block /\ block # List
    <2>1. block # List
      BY <1>2, Zenon DEF Fills, Tidy, Ordered
    <2>2. QED BY <1>2, <2>1, Zenon
  <1> HIDE DEF ins, rest
  <1>4. CASE ~Touches(h, block, n)
    <2> DEFINE m == With(next, block, n)
    <2>1. MergeAfter(h, block, n) = [next |-> m, len |-> sizes, first |-> f]
      BY <1>4 DEF MergeAfter
    <2>2. With(m, iter, block) = ins /\ DOMAIN m = DOMAIN next \cup {block}
      BY Zenon DEF ins, InsertedNext, With
    <2>3. Apart(ins, sizes, (DOMAIN next \cup {block}) \ {iter})
      <3>1. n # block + sizes[block]
        <4>1. h.len[block] = sizes[block]
          OBVIOUS
        <4>2. QED BY <1>4, <4>1, Zenon DEF Touches
      <3>2. QED BY <1>1, <3>1, Zenon DEF Apart
    <2> HIDE DEF m
    <2>4. block \in DOMAIN m /\ iter \in DOMAIN m
      BY <2>2, Zenon
    <2>5. /\ Fills(With(m, iter, block), sizes, used \ {block}, top, cover)
          /\ Apart(With(m, iter, block), sizes, DOMAIN m \ {iter})
      BY <1>1, <2>2, <2>3, Zenon DEF rest
    <2>6. AfterSound(MergeAfter(h, block, n), iter, block, f, used \ {block}, top, cover)
      <3> HIDE DEF h, n
      <3>1. QED BY <2>1, <2>4, <2>5, Zenon DEF AfterSound
    <2>7. QED BY <2>6, Zenon
  <1>5. CASE Touches(h, block, n)
    <2> DEFINE m == With(Without(next, {n}), block, next[n])
               s == JoinedSizes(sizes, block, n)
               j == JoinedNext(ins, block, n)
    <2>1. MergeAfter(h, block, n) = [next |-> m, len |-> s, first |-> f]
      BY <1>5, ZenonT(30) DEF MergeAfter, JoinedSizes
    <2>2. block + sizes[block] = n
      <3>1. h.len[block] = sizes[block]
        OBVIOUS
      <3>2. QED BY <1>5, <3>1, Zenon DEF Touches
    <2>3. block < n /\ n # List /\ n # iter /\ n # block
      <3>1. block < n /\ n # iter /\ n # block
        BY <1>2, <2>2
      <3>2. QED BY <1>2, <3>1 DEF List
    <2>4. /\ Fills(j, s, rest, top, cover) /\ DOMAIN j = DOMAIN ins \ {n}
          /\ \A b \in DOMAIN ins \ {block, n} : j[b] = ins[b] /\ s[b] = sizes[b]
          /\ j[block] = ins[n] /\ block + s[block] = n + sizes[n]
      <3>1. block \in DOMAIN ins \ {List} /\ n \in DOMAIN ins \ {List}
        BY <1>1, <1>2, <1>3, <2>3, Zenon
      <3>2. Fills(j, s, rest, top, cover)
        <4>1. Fills(ins, sizes, rest, top, cover) /\ ins[block] = n
          BY <1>1, Zenon
        <4>2. QED BY <2>2, <3>1, <4>1, JoinFills, Zenon
      <3>3. DOMAIN j = DOMAIN ins \ {n} /\ j[block] = ins[n]
            /\ \A b \in DOMAIN ins \ {block, n} : j[b] = ins[b]
        BY <2>3, <3>1, Zenon DEF JoinedNext, With, Without
      <3>4. \A b \in DOMAIN ins \ {block, n} : s[b] = sizes[b]
        BY <1>1, <3>1, Zenon DEF JoinedSizes, With, Without, Tidy, Fills
      <3>5. block + s[block] = n + sizes[n]
        <4>1. s[block] = sizes[block] + sizes[n]
          BY Zenon DEF JoinedSizes, With
        <4>2. sizes[n] \in Nat
          BY <1>2, Zenon DEF Tidy, Fills
        <4>3. QED BY <1>2, <2>2, <4>1, <4>2
      <3>6. QED BY <3>2, <3>3, <3>4, <3>5, Zenon
    <2>5. DOMAIN m = (DOMAIN next \ {n}) \cup {block} /\ m[block] = next[n]
          /\ \A a \in DOMAIN next \ {n} : m[a] = next[a]
      BY <1>2, Zenon DEF With, Without
    <2>6. With(m, iter, block) = j
      <3>1. ins[n] = next[n]
        BY <1>1, <1>2, <2>3, Zenon
      <3>2. DOMAIN With(m, iter, block) = DOMAIN j
        BY <1>1, <1>2, <2>3, <2>4, <2>5, ZenonT(30) DEF With
      <3>3. ASSUME NEW a \in DOMAIN j PROVE With(m, iter, block)[a] = j[a]
        <4>1. a \in DOMAIN m \cup {iter}
          BY <3>2, <3>3, Zenon DEF With
        <4>2. With(m, iter, block)[a] = IF a = iter THEN block ELSE m[a]
          BY <4>1, Zenon DEF With
        <4>3. CASE a = iter
          BY <1>1, <1>3, <2>3, <2>4, <4>2, <4>3, Zenon
        <4>4. CASE a = block
          BY <1>3, <2>4, <2>5, <3>1, <4>2, <4>4, Zenon
        <4>5. CASE a # iter /\ a # block
          <5>1. a \in DOMAIN next \ {n} /\ a \in DOMAIN ins \ {block, n}
            BY <1>1, <2>4, <3>3, <4>5, Zenon
          <5>2. QED BY <1>1, <2>4, <2>5, <4>2, <4>5, <5>1, Zenon
        <4>6. QED BY <4>3, <4>4, <4>5, Zenon
      <3>4. With(m, iter, block) = [a \in DOMAIN j |-> With(m, iter, block)[a]]
            /\ j = [a \in DOMAIN j |-> j[a]]
        <4>1. j = [a \in DOMAIN j |-> j[a]]
          BY <2>4, Zenon DEF Fills, Tidy, Ordered
        <4>2. With(m, iter, block) = [a \in DOMAIN With(m, iter, block) |-> With(m, iter, block)[a]]
          BY Zenon DEF With
        <4>3. QED BY <3>2, <4>1, <4>2, Zenon
      <3>5. QED BY <3>3, <3>4, Zenon
    <2>7. Apart(j, s, DOMAIN m \ {iter})
      <3>1. j[block] = next[n] /\ next[n] # n + sizes[n]
        BY <1>1, <1>2, <2>3, <2>4, Zenon DEF Apart
      <3>2. ASSUME NEW b \in DOMAIN next \ {iter, n, List} PROVE j[b] # b + s[b]
        <4>1. b \in DOMAIN ins \ {block, n} /\ b \in DOMAIN next \ {iter} /\ b # List
          BY <1>1, <1>2, Zenon
        <4>2. j[b] = next[b] /\ s[b] = sizes[b]
          BY <1>1, <2>4, <4>1, Zenon
        <4>3. next[b] # b + sizes[b]
          BY <4>1, Zenon DEF Apart
        <4>4. QED BY <4>2, <4>3, Zenon
      <3>3. QED BY <2>4, <2>5, <3>1, <3>2, Zenon DEF Apart
    <2>8. block \in DOMAIN m /\ iter \in DOMAIN m
      BY <1>3, <2>3, <2>5, Zenon
    <2> HIDE DEF m, s, j
    <2>9. Fills(With(m, iter, block), s, rest, top, cover)
          /\ Apart(With(m, iter, block), s, DOMAIN m \ {iter})
      BY <2>4, <2>6, <2>7, Zenon
    <2>10. AfterSound(MergeAfter(h, block, n), iter, block, f, rest, top, cover)
      <3> HIDE DEF h, n
      <3>1. QED BY <2>1, <2>8, <2>9, Zenon DEF AfterSound
    <2>11. QED BY <2>10, Zenon DEF rest
  <1>6. QED BY <1>4, <1>5, Zenon

\* A heap as malloc() and free() find it.
HeapSound(g, used, top, cover) ==
    \E m, s, f :
        /\ g = [next |-> m, len |-> s, first |-> f]
        /\ f \in DOMAIN m /\ Apart(m, s, DOMAIN m)
        /\ Fills(m, s, used, top, cover)

\* free(): with the one after it and the one before it.  What the blocks make up
\* stays the same.
LEMMA FreeFills ==
  ASSUME NEW next, NEW sizes, NEW f, NEW used, NEW top \in Nat, NEW cover,
         Fills(next, sizes, used, top, cover), Apart(next, sizes, DOMAIN next),
         NEW block \in used, NEW iter \in DOMAIN next, iter < block,
         \A c \in DOMAIN next : c <= iter \/ block < c
  PROVE  HeapSound(FreeAt([next |-> next, len |-> sizes, first |-> f], block, iter),
                   used \ {block}, top, cover)
  <1> DEFINE h == [next |-> next, len |-> sizes, first |-> f]
             rest == used \ {block}
  <1>1. PICK m1, s1 :
          /\ MergeAfter(h, block, next[iter]) = [next |-> m1, len |-> s1, first |-> f]
          /\ block \in DOMAIN m1 /\ iter \in DOMAIN m1
          /\ Fills(With(m1, iter, block), s1, rest, top, cover)
          /\ Apart(With(m1, iter, block), s1, DOMAIN m1 \ {iter})
    <2>1. AfterSound(MergeAfter(h, block, next[iter]), iter, block, f, rest, top, cover)
      BY AfterFills, Zenon
    <2> HIDE DEF h
    <2>2. QED BY <2>1, Zenon DEF AfterSound
  <1> DEFINE h1 == [next |-> m1, len |-> s1, first |-> f]
             w == With(m1, iter, block)
  <1>2. FreeAt(h, block, iter) = [MergeBefore(h1, iter, block) EXCEPT !.first = iter]
    <2>1. h.next[iter] = next[iter]
      OBVIOUS
    <2>2. QED BY <1>1, <2>1, Zenon DEF FreeAt
  <1>3. block \in Nat /\ iter \in Nat /\ block # List /\ iter # block
    <2>1. block \in Nat /\ block \notin DOMAIN next /\ DOMAIN next \in SUBSET Nat /\ List \in DOMAIN next
      BY Zenon DEF Fills, Tidy, Ordered
    <2>2. QED BY <2>1, Zenon
  <1>4. DOMAIN w = DOMAIN m1 /\ w[iter] = block /\ w[block] = m1[block]
        /\ \A a \in DOMAIN m1 \ {iter} : w[a] = m1[a]
    BY <1>1, <1>3, Zenon DEF With
  <1>5. CASE iter + s1[iter] # block
    <2>1. MergeBefore(h1, iter, block) = [next |-> w, len |-> s1, first |-> f]
      BY <1>5 DEF MergeBefore
    <2>2. FreeAt(h, block, iter) = [next |-> w, len |-> s1, first |-> iter]
      BY <1>2, <2>1
    <2>3. iter \in DOMAIN w /\ Fills(w, s1, rest, top, cover)
      BY <1>1, <1>4, Zenon
    <2>4. Apart(w, s1, DOMAIN w)
      BY <1>1, <1>4, <1>5, Zenon DEF Apart
    <2>5. HeapSound(FreeAt(h, block, iter), rest, top, cover)
      <3> HIDE DEF w, h
      <3>1. QED BY <2>2, <2>3, <2>4, Zenon DEF HeapSound
    <2>6. QED BY <2>5, Zenon
  <1>6. CASE iter + s1[iter] = block
    <2> DEFINE m == With(Without(m1, {block}), iter, m1[block])
               s == JoinedSizes(s1, iter, block)
               j == JoinedNext(w, iter, block)
    <2>1. MergeBefore(h1, iter, block) = [next |-> m, len |-> s, first |-> f]
      BY <1>6, ZenonT(30) DEF MergeBefore, JoinedSizes
    <2>2. FreeAt(h, block, iter) = [next |-> m, len |-> s, first |-> iter]
      BY <1>2, <2>1
    <2>3. iter # List
      <3>1. s1[List] = 0
        BY <1>1, Zenon DEF Fills, Tidy
      <3>2. List + 0 = List
        BY DEF List
      <3>3. QED BY <1>3, <1>6, <3>1, <3>2, Zenon
    <2>4. Fills(j, s, rest, top, cover)
      <3>1. iter \in DOMAIN w \ {List} /\ block \in DOMAIN w \ {List} /\ w[iter] = block
        BY <1>1, <1>3, <1>4, <2>3, Zenon
      <3>2. Fills(w, s1, rest, top, cover)
        BY <1>1, Zenon
      <3> HIDE DEF w, rest
      <3>3. QED BY <1>6, <3>1, <3>2, JoinFills, Zenon
    <2>5. m = j
      <3>1. Without(w, {block}) = [a \in DOMAIN m1 \ {block} |-> w[a]] /\ w[block] = m1[block]
        BY <1>4, Zenon DEF Without
      <3>2. j = [a \in DOMAIN m1 \ {block} |-> IF a = iter THEN m1[block] ELSE m1[a]]
        <4>1. (DOMAIN m1 \ {block}) \cup {iter} = DOMAIN m1 \ {block}
          BY <1>1, <1>3, Zenon
        <4>2. j = [a \in DOMAIN m1 \ {block} |-> IF a = iter THEN m1[block] ELSE w[a]]
          BY <3>1, <4>1, Zenon DEF JoinedNext, With
        <4>3. \A a \in DOMAIN m1 \ {block} : a # iter => w[a] = m1[a]
          BY <1>4, Zenon
        <4>4. QED BY <4>2, <4>3, Zenon
      <3>3. m = [a \in DOMAIN m1 \ {block} |-> IF a = iter THEN m1[block] ELSE m1[a]]
        <4>1. (DOMAIN m1 \ {block}) \cup {iter} = DOMAIN m1 \ {block}
          BY <1>1, <1>3, Zenon
        <4>2. QED BY <4>1, Zenon DEF With, Without
      <3>4. QED BY <3>2, <3>3, Zenon
    <2>6. DOMAIN m = DOMAIN m1 \ {block} /\ m[iter] = m1[block]
          /\ \A a \in DOMAIN m1 \ {block, iter} : m[a] = m1[a] /\ s[a] = s1[a]
      <3>1. DOMAIN m = DOMAIN m1 \ {block} /\ m[iter] = m1[block]
            /\ \A a \in DOMAIN m1 \ {block, iter} : m[a] = m1[a]
        BY <1>1, <1>3, Zenon DEF With, Without
      <3>2. DOMAIN m1 \in SUBSET DOMAIN s1
        BY <1>1, <1>4, Zenon DEF Fills, Tidy
      <3>3. \A a \in DOMAIN m1 \ {block, iter} : s[a] = s1[a]
        BY <3>2, Zenon DEF JoinedSizes, With, Without
      <3>4. QED BY <3>1, <3>3, Zenon
    <2>7. iter + s[iter] = block + s1[block]
      <3>1. s[iter] = s1[iter] + s1[block]
        BY Zenon DEF JoinedSizes, With
      <3>2. s1[iter] \in Nat /\ s1[block] \in Nat
        BY <1>1, <1>4, Zenon DEF Fills, Tidy
      <3>3. QED BY <1>3, <1>6, <3>1, <3>2
    <2>8. Apart(m, s, DOMAIN m)
      <3>1. m1[block] # block + s1[block]
        BY <1>1, <1>3, <1>4, Zenon DEF Apart
      <3>2. ASSUME NEW b \in DOMAIN m1 \ {block, iter, List} PROVE m[b] # b + s[b]
        <4>1. w[b] # b + s1[b] /\ w[b] = m1[b]
          BY <1>1, <1>4, Zenon DEF Apart
        <4>2. m[b] = m1[b] /\ s[b] = s1[b]
          BY <2>6, Zenon
        <4>3. QED BY <4>1, <4>2, Zenon
      <3>3. QED BY <2>6, <2>7, <3>1, <3>2, Zenon DEF Apart
    <2>9. iter \in DOMAIN m
      BY <1>1, <1>3, <2>6, Zenon
    <2>10. HeapSound(FreeAt(h, block, iter), rest, top, cover)
      <3>1. Fills(m, s, rest, top, cover)
        BY <2>4, <2>5, Zenon
      <3> HIDE DEF m, s, j, h
      <3>2. QED BY <2>2, <2>8, <2>9, <3>1, Zenon DEF HeapSound
    <2>11. QED BY <2>10, Zenon
  <1>7. QED BY <1>5, <1>6, Zenon

\* malloc(): whoever leads to a block of the list comes before it and is unique.
LEMMA OneBefore ==
  ASSUME NEW h, Ordered(h.next), NEW top \in Nat, \A d \in DOMAIN h.next : d <= top,
         NEW p \in DOMAIN h.next \ {List}
  PROVE  /\ Before(h, p) \in DOMAIN h.next /\ h.next[Before(h, p)] = p /\ Before(h, p) < p
         /\ \A c \in DOMAIN h.next : c <= Before(h, p) \/ p <= c
  <1> DEFINE next == h.next
             D == DOMAIN h.next
  <1>1. /\ next \in [D -> D] /\ List \in D /\ D \in SUBSET Nat
        /\ \A a \in D : \/ a < next[a] /\ \A b \in D : a < b => next[a] <= b
                        \/ next[a] = List /\ \A b \in D : b <= a
    BY Zenon DEF Ordered
  <1>2. p \in Nat /\ List < p /\ p \in D
    BY <1>1 DEF List
  <1>3. Before(h, p) = CHOOSE a \in D : next[a] = p
    BY Zenon DEF Before
  <1>4. \A d \in D : d <= top /\ d \in Nat /\ next[d] \in D
    BY <1>1, Zenon
  <1> HIDE DEF next, D
  <1>5. \E a \in D : next[a] = p
    <2> DEFINE below == {a \in D : a < p}
    <2>1. PICK g \in below : \A a \in below : a <= g
      <3>1. below \in SUBSET Nat /\ below # {} /\ \A s \in below : s <= top
        BY <1>1, <1>2, <1>4, Zenon
      <3> HIDE DEF below
      <3>2. QED BY <3>1, Greatest, Zenon
    <2>2. g \in D /\ g < p /\ g \in Nat /\ next[g] \in D /\ next[g] \in Nat
      BY <1>4, <2>1, Zenon
    <2>3. ~(p <= g)
      BY <1>2, <2>2
    <2>4. g < next[g] /\ next[g] <= p
      BY <1>1, <1>2, <2>2, <2>3, Zenon
    <2>5. ~(next[g] <= g)
      BY <2>2, <2>4
    <2>6. ~(next[g] < p)
      BY <2>1, <2>2, <2>5, Zenon
    <2>7. next[g] = p
      BY <1>2, <2>2, <2>4, <2>6
    <2>8. QED BY <2>2, <2>7, Zenon
  <1>6. PICK a \in D : a = Before(h, p) /\ next[a] = p
    BY <1>3, <1>5, Zenon
  <1>7. a < p /\ \A b \in D : a < b => p <= b
    <2>1. p # List
      BY Zenon
    <2>2. QED BY <1>1, <1>6, <2>1, Zenon
  <1>8. ASSUME NEW c \in D PROVE c <= a \/ p <= c
    <2>1. c \in Nat /\ a \in Nat /\ (a < c => p <= c)
      BY <1>4, <1>7, Zenon
    <2>2. QED BY <2>1
  <1>9. QED BY <1>6, <1>7, <1>8, Zenon DEF next, D

\* What malloc() leaves, the block it returns in use.
TakenSound(g, used, top, cover) ==
    \E m, s, f, blk :
        /\ g = [next |-> m, len |-> s, first |-> f, block |-> blk]
        /\ f \in DOMAIN m /\ Apart(m, s, DOMAIN m)
        /\ Fills(m, s, used \cup {blk}, top, cover)

\* malloc(): a block that is just large enough leaves the list, a larger one loses
\* its end.
LEMMA TakeFills ==
  ASSUME NEW next, NEW sizes, NEW f, NEW used, NEW top \in Nat, NEW cover,
         Fills(next, sizes, used, top, cover), Apart(next, sizes, DOMAIN next),
         NEW size \in Nat \ {0}, NEW p \in DOMAIN next, sizes[p] >= size
  PROVE  TakenSound(Take([next |-> next, len |-> sizes, first |-> f], p, size),
                    used, top, cover)
  <1> DEFINE h == [next |-> next, len |-> sizes, first |-> f]
             D == DOMAIN next
             b == Before(h, p)
             B == Blocks(next, used)
  <1>1. /\ next \in [D -> D] /\ List \in D /\ D \in SUBSET Nat
        /\ \A a \in D : \/ a < next[a] /\ \A c \in D : a < c => next[a] <= c
                        \/ next[a] = List /\ \A c \in D : c <= a
    BY Zenon DEF Ordered, Tidy, Fills
  <1>2. /\ used \in SUBSET Nat /\ used \cap D = {}
        /\ sizes \in [D \cup used -> Nat] /\ sizes[List] = 0
        /\ \A x \in B : HeapLow <= x /\ 1 <= sizes[x] /\ x + sizes[x] <= top
        /\ \A x, y \in B : x < y => x + sizes[x] <= y
        /\ Ordered(next) /\ cover = Covered(sizes, B)
    BY Zenon DEF Tidy, Fills
  <1>3. p \in Nat /\ sizes[p] \in Nat /\ p # List
    <2>1. p \in Nat /\ sizes[p] \in Nat
      BY <1>1, <1>2, Zenon
    <2>2. sizes[p] # 0
      BY <2>1
    <2>3. QED BY <1>2, <2>1, <2>2, Zenon
  <1>4. p \in B /\ p \notin used
    BY <1>2, <1>3, Zenon DEF Blocks
  <1>5. \A x \in B : x \in Nat /\ x \in D \cup used /\ sizes[x] \in Nat
    BY <1>1, <1>2, Zenon DEF Blocks
  <1>6. /\ b \in D /\ next[b] = p /\ b < p
        /\ \A c \in D : c <= b \/ p <= c
    <2>1. h.next = next
      OBVIOUS
    <2>2. ASSUME NEW d \in D PROVE d <= top
      <3>1. CASE d = List
        BY <3>1 DEF List
      <3>2. CASE d # List
        <4>1. d \in B /\ d \in Nat /\ sizes[d] \in Nat /\ d + sizes[d] <= top
          BY <1>2, <1>5, <3>2, Zenon DEF Blocks
        <4>2. QED BY <4>1
      <3>3. QED BY <3>1, <3>2, Zenon
    <2> HIDE DEF h
    <2>3. QED BY <1>2, <1>3, <2>1, <2>2, OneBefore, Zenon
  <1>7. b \in Nat /\ next[p] \in D /\ next[p] \in Nat /\ b # p
    <2>1. b \in Nat /\ next[p] \in D /\ next[p] \in Nat
      BY <1>1, <1>6, Zenon
    <2>2. QED BY <1>3, <1>6, <2>1
  <1> HIDE DEF B, b
  <1>8. CASE sizes[p] = size
    <2> DEFINE m == Without([next EXCEPT ![b] = next[p]], {p})
               E == D \ {p}
    <2>1. Take(h, p, size) = [next |-> m, len |-> sizes, first |-> b, block |-> p]
      BY <1>8 DEF Take, b
    <2>2. /\ DOMAIN m = E /\ m[b] = next[p] /\ \A a \in E \ {b} : m[a] = next[a]
          /\ m = [a \in E |-> m[a]]
      BY <1>1, <1>6, <1>7, Zenon DEF Without
    <2> HIDE DEF m
    <2>3. Blocks(m, used \cup {p}) = B
      BY <1>3, <2>2, Zenon DEF Blocks, B
    <2>4. next[p] # p /\ (next[p] = List \/ p < next[p])
      <3>1. p < next[p] \/ next[p] = List
        BY <1>1, Zenon
      <3>2. QED BY <1>3, <1>7, <3>1
    <2>5. ASSUME NEW a \in E
          PROVE  /\ m[a] \in E
                 /\ \/ a < m[a] /\ \A c \in E : a < c => m[a] <= c
                    \/ m[a] = List /\ \A c \in E : c <= a
      <3>1. CASE a # b
        <4>1. a \in D /\ m[a] = next[a] /\ next[a] \in D /\ a \in Nat
          BY <1>1, <2>2, <3>1, Zenon
        <4>2. next[a] # p
          <5>1. SUFFICES ASSUME next[a] = p PROVE FALSE
            BY Zenon
          <5>2. a < p /\ (a < b => p <= b) /\ (a <= b \/ p <= a)
            BY <1>1, <1>3, <1>6, <4>1, <5>1, Zenon
          <5>3. QED BY <1>3, <1>6, <1>7, <3>1, <4>1, <5>2
        <4>3. QED BY <1>1, <4>1, <4>2, Zenon
      <3>2. CASE a = b /\ next[p] = List
        <4>1. \A c \in D : c <= p
          BY <1>1, <1>3, <3>2 DEF List
        <4>2. ASSUME NEW c \in E PROVE c <= b
          <5>1. c \in Nat /\ c # p /\ c <= p /\ (c <= b \/ p <= c)
            BY <1>1, <1>6, <4>1, Zenon
          <5>2. QED BY <1>3, <1>7, <5>1
        <4>3. QED BY <1>1, <1>3, <2>2, <3>2, <4>2, Zenon
      <3>3. CASE a = b /\ next[p] # List
        <4>1. p < next[p] /\ \A c \in D : p < c => next[p] <= c
          BY <1>1, <3>3, Zenon
        <4>2. b < next[p]
          BY <1>3, <1>6, <1>7, <4>1
        <4>3. ASSUME NEW c \in E, b < c PROVE next[p] <= c
          <5>1. c \in Nat /\ c # p /\ (c <= b \/ p <= c) /\ c \in D
            BY <1>1, <1>6, Zenon
          <5>2. p < c
            BY <1>3, <1>7, <4>3, <5>1
          <5>3. QED BY <4>1, <5>1, <5>2, Zenon
        <4>4. QED BY <1>7, <2>2, <2>4, <3>3, <4>2, <4>3, Zenon
      <3>4. QED BY <3>1, <3>2, <3>3, Zenon
    <2>6. Ordered(m)
      <3>1. List \in E /\ E \in SUBSET Nat /\ m \in [E -> E]
        BY <1>1, <1>3, <2>2, <2>5, Zenon
      <3>2. QED BY <2>2, <2>5, <3>1, Zenon DEF Ordered
    <2>7. /\ used \cup {p} \in SUBSET Nat /\ (used \cup {p}) \cap DOMAIN m = {}
          /\ DOMAIN m \cup (used \cup {p}) = D \cup used
      BY <1>2, <1>3, <2>2, Zenon
    <2>8. Fills(m, sizes, used \cup {p}, top, cover)
      BY <1>2, <2>3, <2>6, <2>7, Zenon DEF Fills, Tidy
    <2>9. Apart(m, sizes, DOMAIN m)
      <3>1. ASSUME b # List PROVE next[p] # b + sizes[b]
        <4>1. b \in B /\ sizes[b] \in Nat /\ b + sizes[b] <= p /\ 1 <= sizes[b]
          BY <1>2, <1>4, <1>5, <1>6, <3>1, Zenon DEF B, Blocks
        <4>2. QED BY <1>3, <1>7, <2>4, <4>1 DEF List
      <3>2. QED BY <2>2, <3>1, Zenon DEF Apart
    <2>10. b \in DOMAIN m
      BY <1>6, <1>7, <2>2, Zenon
    <2>11. TakenSound(Take(h, p, size), used, top, cover)
      <3> HIDE DEF h
      <3>1. QED BY <2>1, <2>8, <2>9, <2>10, Zenon DEF TakenSound
    <2>12. QED BY <2>11, Zenon
  <1>9. CASE sizes[p] # size
    <2> DEFINE blk == p + sizes[p] - size
               s == With([sizes EXCEPT ![p] = @ - size], blk, size)
               C == B \cup {blk}
    <2>1. Take(h, p, size) = [next |-> next, len |-> s, first |-> b, block |-> blk]
      BY <1>9 DEF Take, TakenFrom, b
    <2>2. PICK r \in Nat \ {0} : r = sizes[p] - size
      BY <1>3, <1>9
    <2>3. blk \in Nat /\ blk = p + r /\ p < blk /\ blk + size = p + sizes[p] /\ size \in Nat /\ 1 <= size
      BY <1>3, <2>2
    <2>4. blk \notin B /\ blk \notin D /\ blk # List /\ blk # p
      <3>1. ASSUME NEW x \in B PROVE x # blk
        <4>1. x \in Nat /\ (p < x => p + sizes[p] <= x)
          BY <1>2, <1>4, <1>5, Zenon
        <4>2. QED BY <1>3, <2>3, <4>1
      <3>2. blk # List /\ blk # p
        BY <1>3, <2>3 DEF List
      <3>3. QED BY <3>1, <3>2, Zenon DEF B, Blocks
    <2>5. /\ DOMAIN s = D \cup (used \cup {blk}) /\ s[blk] = size /\ s[p] = r
          /\ \A x \in (D \cup used) \ {p} : s[x] = sizes[x]
          /\ s = [x \in D \cup (used \cup {blk}) |-> s[x]]
      <3>1. DOMAIN [sizes EXCEPT ![p] = @ - size] = D \cup used
        BY <1>2, Zenon
      <3>2. [sizes EXCEPT ![p] = @ - size][p] = r
        BY <1>2, <2>2, Zenon
      <3>3. \A x \in (D \cup used) \ {p} : [sizes EXCEPT ![p] = @ - size][x] = sizes[x]
        BY <1>2, Zenon
      <3>4. (D \cup used) \cup {blk} = D \cup (used \cup {blk}) /\ blk \notin D \cup used
        BY <2>4, Zenon DEF B, Blocks
      <3> DEFINE g == [sizes EXCEPT ![p] = @ - size]
      <3> HIDE DEF blk, g
      <3>5. /\ DOMAIN With(g, blk, size) = D \cup (used \cup {blk})
            /\ With(g, blk, size) = [x \in DOMAIN g \cup {blk} |-> IF x = blk THEN size ELSE g[x]]
        BY <3>1, <3>4, Zenon DEF With, g
      <3>6. With(g, blk, size)[blk] = size /\ \A x \in D \cup used : With(g, blk, size)[x] = g[x]
        BY <3>1, <3>4, <3>5, Zenon DEF g
      <3>7. With(g, blk, size) = [x \in D \cup (used \cup {blk}) |-> With(g, blk, size)[x]]
        BY <3>5, Zenon
      <3>8. s = With(g, blk, size)
        BY Zenon DEF g, blk
      <3> HIDE DEF s
      <3>9. QED BY <3>2, <3>3, <3>5, <3>6, <3>7, <3>8, Zenon DEF g
    <2> HIDE DEF s, blk
    <2>6. Blocks(next, used \cup {blk}) = C
      BY <2>4, Zenon DEF Blocks, B
    <2>7. \A x \in B \ {p} : s[x] = sizes[x] /\ sizes[x] \in Nat
      BY <1>5, <2>5, Zenon
    <2>8. ASSUME NEW x \in C PROVE HeapLow <= x /\ 1 <= s[x] /\ x + s[x] <= top
      <3>1. HeapLow <= p /\ p + sizes[p] <= top
        BY <1>2, <1>4, Zenon
      <3>2. HeapLow \in Nat
        BY HeapAssumption, Zenon
      <3>3. CASE x = blk
        BY <2>3, <2>5, <3>1, <3>2, <3>3, <1>3
      <3>4. CASE x = p
        BY <1>3, <2>2, <2>3, <2>5, <3>1, <3>2, <3>4
      <3>5. CASE x \in B \ {p}
        BY <1>2, <2>7, <3>5, Zenon
      <3>6. QED BY <3>3, <3>4, <3>5, Zenon
    <2>9. ASSUME NEW x \in C, NEW y \in C, x < y PROVE x + s[x] <= y
      <3>1. CASE x \in B \ {p} /\ y \in B
        BY <1>2, <2>7, <2>9, <3>1, Zenon
      <3>2. CASE x \in B \ {p} /\ y = blk
        <4>1. /\ x \in Nat /\ sizes[x] \in Nat /\ x # p /\ s[x] = sizes[x]
              /\ (x < p => x + sizes[x] <= p) /\ (p < x => p + sizes[p] <= x)
          BY <1>2, <1>4, <1>5, <2>7, <3>2, Zenon
        <4>2. QED BY <1>3, <2>3, <2>9, <3>2, <4>1
      <3>3. CASE x = p /\ y \in B
        <4>1. y \in Nat /\ p + sizes[p] <= y
          BY <1>2, <1>4, <1>5, <2>9, <3>3, Zenon
        <4>2. QED BY <1>3, <2>2, <2>3, <2>5, <3>3, <4>1
      <3>4. CASE x = p /\ y = blk
        BY <1>3, <2>3, <2>5, <3>4
      <3>5. CASE x = blk /\ y \in B
        <4>1. y \in Nat /\ (p < y => p + sizes[p] <= y)
          BY <1>2, <1>4, <1>5, <3>5, Zenon
        <4>2. p < y
          BY <1>3, <2>3, <2>9, <3>5, <4>1
        <4>3. QED BY <1>3, <2>3, <2>5, <3>5, <4>1, <4>2
      <3>6. ~(blk < blk)
        BY <2>3
      <3>7. QED BY <2>9, <3>1, <3>2, <3>3, <3>4, <3>5, <3>6, Zenon
    <2>10. Covered(s, C) = Covered(sizes, B)
      <3>1. ASSUME NEW z \in Nat, NEW x \in C, x <= z, z < x + s[x]
            PROVE  \E y \in B : y <= z /\ z < y + sizes[y]
        <4>1. CASE x = blk \/ x = p
          <5>1. p <= z /\ z < p + sizes[p]
            BY <1>3, <2>2, <2>3, <2>5, <3>1, <4>1
          <5>2. QED BY <1>4, <5>1, Zenon
        <4>2. CASE x \in B \ {p}
          BY <2>7, <3>1, <4>2, Zenon
        <4>3. QED BY <4>1, <4>2, Zenon
      <3>2. ASSUME NEW z \in Nat, NEW x \in B, x <= z, z < x + sizes[x]
            PROVE  \E y \in C : y <= z /\ z < y + s[y]
        <4>1. CASE x = p
          <5>1. (p <= z /\ z < p + s[p]) \/ (blk <= z /\ z < blk + s[blk])
            BY <1>3, <2>2, <2>3, <2>5, <3>2, <4>1
          <5>2. QED BY <1>4, <5>1, Zenon
        <4>2. CASE x # p
          BY <2>7, <3>2, <4>2, Zenon
        <4>3. QED BY <4>1, <4>2, Zenon
      <3>3. QED BY <3>1, <3>2, Zenon DEF Covered
    <2>11. s \in [D \cup (used \cup {blk}) -> Nat] /\ s[List] = 0
      <3>1. List \in (D \cup used) \ {p}
        BY <1>1, <1>3, Zenon
      <3>2. \A x \in D \cup used : sizes[x] \in Nat
        BY <1>2, Zenon
      <3>3. ASSUME NEW x \in D \cup (used \cup {blk}) PROVE s[x] \in Nat
        BY <2>2, <2>3, <2>5, <3>2, Zenon
      <3>4. QED BY <1>2, <2>5, <3>1, <3>3, Zenon
    <2>12. used \cup {blk} \in SUBSET Nat /\ (used \cup {blk}) \cap D = {}
      BY <1>2, <2>3, <2>4, Zenon
    <2>13. Fills(next, s, used \cup {blk}, top, cover)
      BY <1>2, <2>6, <2>8, <2>9, <2>10, <2>11, <2>12, Zenon DEF Fills, Tidy
    <2>14. Apart(next, s, D)
      <3>1. next[p] # p + s[p]
        <4>1. next[p] = List \/ (p < next[p] /\ next[p] \in B)
          BY <1>1, <1>3, Zenon DEF B, Blocks
        <4>2. next[p] = List \/ p + sizes[p] <= next[p]
          BY <1>2, <1>4, <4>1, Zenon
        <4>3. QED BY <1>3, <1>7, <2>2, <2>3, <2>5, <4>2 DEF List
      <3>2. QED BY <2>5, <3>1, Zenon DEF Apart
    <2>15. TakenSound(Take(h, p, size), used, top, cover)
      <3> HIDE DEF h
      <3>1. QED BY <1>6, <2>1, <2>13, <2>14, Zenon DEF TakenSound
    <2>16. QED BY <2>15, Zenon
  <1>10. QED BY <1>8, <1>9, Zenon

\* No block is above the top.
LEMMA BelowTop ==
  ASSUME NEW next, NEW sizes, NEW used, NEW top \in Nat, Tidy(next, sizes, used, top)
  PROVE  \A d \in DOMAIN next : d <= top
  <1> SUFFICES ASSUME NEW d \in DOMAIN next PROVE d <= top
    BY Zenon
  <1>1. CASE d = List
    BY <1>1 DEF List
  <1>2. CASE d # List
    <2>1. d \in Nat /\ sizes[d] \in Nat /\ d + sizes[d] <= top
      BY <1>2, Zenon DEF Tidy, Ordered, Blocks
    <2>2. QED BY <2>1
  <1>3. QED BY <1>1, <1>2, Zenon

LEMMA FreeSound ==
  ASSUME NEW h, NEW used, NEW top \in Nat, NEW cover, HeapSound(h, used, top, cover),
         NEW block \in used
  PROVE  /\ Spot(h, block) # {}
         /\ \A iter \in Spot(h, block) :
               HeapSound(FreeAt(h, block, iter), used \ {block}, top, cover)
  <1>1. PICK m, s, f : /\ h = [next |-> m, len |-> s, first |-> f]
                       /\ f \in DOMAIN m /\ Apart(m, s, DOMAIN m)
                       /\ Fills(m, s, used, top, cover)
    BY Zenon DEF HeapSound
  <1>2. h.next = m /\ h.first = f
    BY <1>1
  <1>3. Tidy(m, s, used, top) /\ Ordered(m) /\ block \in Nat \ DOMAIN m
    BY <1>1, Zenon DEF Fills, Tidy
  <1>4. \A d \in DOMAIN m : d <= top
    BY <1>3, BelowTop, Zenon
  <1>5. /\ Spot(h, block) # {}
        /\ \A iter \in Spot(h, block) :
              iter \in DOMAIN m /\ iter < block /\ \A c \in DOMAIN m : c <= iter \/ block < c
    <2>1. Ordered(h.next) /\ h.first \in DOMAIN h.next /\ block \in Nat \ DOMAIN h.next
          /\ \A d \in DOMAIN h.next : d <= top
      BY <1>1, <1>2, <1>3, <1>4, Zenon
    <2>2. /\ Spot(h, block) # {}
          /\ \A iter \in Spot(h, block) :
              iter \in DOMAIN h.next /\ iter < block /\ \A c \in DOMAIN h.next : c <= iter \/ block < c
      BY <2>1, SpotBelow, Zenon
    <2>3. QED BY <1>2, <2>2, Zenon
  <1>6. ASSUME NEW iter \in Spot(h, block)
        PROVE  HeapSound(FreeAt(h, block, iter), used \ {block}, top, cover)
    <2>1. iter \in DOMAIN m /\ iter < block /\ \A c \in DOMAIN m : c <= iter \/ block < c
      BY <1>5, Zenon
    <2>2. HeapSound(FreeAt([next |-> m, len |-> s, first |-> f], block, iter),
                    used \ {block}, top, cover)
      BY <1>1, <2>1, FreeFills, Zenon
    <2>3. QED BY <1>1, <2>2, Zenon
  <1>7. QED BY <1>5, <1>6, Zenon

LEMMA TakeSound ==
  ASSUME NEW h, NEW used, NEW top \in Nat, NEW cover, HeapSound(h, used, top, cover),
         NEW size \in Nat \ {0}, NEW p \in Fits(h, size)
  PROVE  TakenSound(Take(h, p, size), used, top, cover)
  <1>1. PICK m, s, f : /\ h = [next |-> m, len |-> s, first |-> f]
                       /\ f \in DOMAIN m /\ Apart(m, s, DOMAIN m)
                       /\ Fills(m, s, used, top, cover)
    BY Zenon DEF HeapSound
  <1>2. h.next = m /\ h.len = s
    BY <1>1
  <1>3. p \in DOMAIN m /\ s[p] >= size
    BY <1>2, Zenon DEF Fits, Enough
  <1>4. TakenSound(Take([next |-> m, len |-> s, first |-> f], p, size), used, top, cover)
    BY <1>1, <1>3, TakeFills, Zenon
  <1>5. QED BY <1>1, <1>4, Zenon

\* Whole pages are at least what was asked for.
LEMMA RoundUpMore ==
  ASSUME NEW n \in Nat
  PROVE  RoundUp(n) \in Nat /\ n <= RoundUp(n)
  <1>1. PICK u \in Nat \ {0} : u = PageUnits
    BY HeapAssumption, Zenon
  <1>2. PICK k \in Nat : k = n + u - 1
    BY <1>1
  <1>3. PICK q \in Nat : q = k \div u
    BY <1>1, <1>2
  <1>4. k < u * q + u
    BY <1>1, <1>2, <1>3, SMT
  <1>5. q * u \in Nat /\ q * u = u * q
    BY <1>1, <1>3, SMT
  <1>6. RoundUp(n) = q * u
    BY <1>1, <1>2, <1>3 DEF RoundUp
  <1>7. PICK z \in Nat : z = q * u
    BY <1>5, Zenon
  <1>8. n <= z
    BY <1>1, <1>2, <1>4, <1>5, <1>7
  <1>9. QED BY <1>6, <1>7, <1>8, Zenon

\* A higher top leaves the blocks below it.
LEMMA TopUp ==
  ASSUME NEW next, NEW sizes, NEW used, NEW top \in Nat, NEW higher \in Nat, top <= higher,
         NEW cover, Fills(next, sizes, used, top, cover)
  PROVE  Fills(next, sizes, used, higher, cover)
  <1>1. ASSUME NEW b \in Blocks(next, used) PROVE b + sizes[b] <= higher
    <2>1. b + sizes[b] <= top
      BY Zenon DEF Fills, Tidy
    <2>2. b \in Nat /\ sizes[b] \in Nat
      BY Zenon DEF Fills, Tidy, Ordered, Blocks
    <2>3. QED BY <2>1, <2>2
  <1>2. QED BY <1>1, Zenon DEF Fills, Tidy

\* sbrk's new memory is a block in use until it is freed into the list.
LEMMA GrowFills ==
  ASSUME NEW next, NEW sizes, NEW f, NEW used, NEW top \in Nat, HeapLow <= top, NEW cover,
         Fills(next, sizes, used, top, cover), Apart(next, sizes, DOMAIN next),
         f \in DOMAIN next, NEW n \in Nat \ {0}
  PROVE  /\ HeapSound([next |-> next, len |-> With(sizes, top, n), first |-> f],
                      used \cup {top}, top + n, cover \cup (top..(top + n - 1)))
         /\ top \notin used
  <1> DEFINE D == DOMAIN next
             s == With(sizes, top, n)
             B == Blocks(next, used)
             C == B \cup {top}
  <1>1. /\ Ordered(next) /\ used \in SUBSET Nat /\ used \cap D = {}
        /\ sizes \in [D \cup used -> Nat] /\ sizes[List] = 0
        /\ \A b \in B : HeapLow <= b /\ 1 <= sizes[b] /\ b + sizes[b] <= top
        /\ \A b, c \in B : b < c => b + sizes[b] <= c
        /\ cover = Covered(sizes, B)
    BY Zenon DEF Fills, Tidy
  <1>2. D \in SUBSET Nat /\ List \in D
    BY <1>1, Zenon DEF Ordered
  <1>3. \A b \in B : b \in Nat /\ b \in D \cup used /\ sizes[b] \in Nat
    BY <1>1, <1>2, Zenon DEF Blocks
  <1>4. top # List
    BY HeapAssumption DEF List
  <1>5. \A b \in B : b < top
    <2>1. ASSUME NEW b \in B PROVE b < top
      <3>1. b \in Nat /\ sizes[b] \in Nat /\ 1 <= sizes[b] /\ b + sizes[b] <= top
        BY <1>1, <1>3, Zenon
      <3>2. QED BY <3>1
    <2>2. QED BY <2>1, Zenon
  <1>6. top \notin B /\ top \notin D /\ top \notin used
    <2>1. ~(top < top)
      OBVIOUS
    <2>2. QED BY <1>4, <1>5, <2>1, Zenon DEF Blocks
  <1>7. /\ DOMAIN s = D \cup (used \cup {top}) /\ s[top] = n
        /\ \A x \in D \cup used : s[x] = sizes[x]
        /\ s = [x \in D \cup (used \cup {top}) |-> s[x]]
    <2>1. DOMAIN sizes = D \cup used /\ (D \cup used) \cup {top} = D \cup (used \cup {top})
      BY <1>1, Zenon
    <2>2. s = [x \in D \cup (used \cup {top}) |-> IF x = top THEN n ELSE sizes[x]]
      BY <2>1, Zenon DEF With
    <2>3. QED BY <1>6, <2>2, Zenon
  <1>8. Blocks(next, used \cup {top}) = C
    BY <1>6, Zenon DEF Blocks
  <1> HIDE DEF s, B
  <1>9. ASSUME NEW b \in C PROVE HeapLow <= b /\ 1 <= s[b] /\ b + s[b] <= top + n
    <2>1. CASE b = top
      BY <1>7, <2>1
    <2>2. CASE b \in B
      <3>1. b \in Nat /\ sizes[b] \in Nat /\ s[b] = sizes[b] /\ HeapLow <= b /\ 1 <= sizes[b]
            /\ b + sizes[b] <= top
        BY <1>1, <1>3, <1>7, <2>2, Zenon
      <3>2. QED BY <3>1
    <2>3. QED BY <2>1, <2>2, Zenon
  <1>10. ASSUME NEW b \in C, NEW c \in C, b < c PROVE b + s[b] <= c
    <2>1. CASE b \in B /\ c \in B
      BY <1>1, <1>3, <1>7, <1>10, <2>1, Zenon
    <2>2. CASE b \in B /\ c = top
      BY <1>1, <1>3, <1>7, <2>2, Zenon
    <2>3. CASE b = top /\ c \in B
      <3>1. c < top /\ c \in Nat
        BY <1>3, <1>5, <2>3, Zenon
      <3>2. QED BY <1>10, <2>3, <3>1
    <2>4. ~(top < top)
      OBVIOUS
    <2>5. QED BY <1>10, <2>1, <2>2, <2>3, <2>4, Zenon
  <1>11. cover \cup (top..(top + n - 1)) = Covered(s, C)
    <2>1. \A z : z \in top..(top + n - 1) <=> z \in Nat /\ top <= z /\ z < top + n
      OBVIOUS
    <2>2. ASSUME NEW z PROVE z \in cover <=> z \in Nat /\ \E b \in B : b <= z /\ z < b + s[b]
      BY <1>1, <1>3, <1>7, Zenon DEF Covered
    <2>3. ASSUME NEW z
          PROVE  z \in Covered(s, C) <=>
                   z \in Nat /\ ((\E b \in B : b <= z /\ z < b + s[b]) \/ (top <= z /\ z < top + n))
      BY <1>7, Zenon DEF Covered
    <2>4. QED BY <2>1, <2>2, <2>3, Zenon
  <1>12. s \in [D \cup (used \cup {top}) -> Nat] /\ s[List] = 0
    <2>1. \A x \in D \cup (used \cup {top}) : s[x] \in Nat
      BY <1>1, <1>7, Zenon
    <2>2. QED BY <1>1, <1>2, <1>7, <2>1, Zenon
  <1>13. used \cup {top} \in SUBSET Nat /\ (used \cup {top}) \cap D = {}
    BY <1>1, <1>6, Zenon
  <1>14. Fills(next, s, used \cup {top}, top + n, cover \cup (top..(top + n - 1)))
    BY <1>1, <1>8, <1>9, <1>10, <1>11, <1>12, <1>13, Zenon DEF Fills, Tidy
  <1>15. Apart(next, s, D)
    BY <1>7, Zenon DEF Apart
  <1>16. QED BY <1>6, <1>14, <1>15, Zenon DEF HeapSound, s

\* The heap between two calls: what its blocks make up and what was wasted is all
\* of it, and the kernel gives up only when it cannot grow.
Cover == Covered(len, Blocks(chain, inUse))
GivesUpWhenFull ==
    heapPanic => \E size \in 2..MaxSize :
        Fits(Heap, size) = {} /\ current + RoundUp(Asked(size)) > HeapHigh
HeapInv ==
    /\ current \in Nat /\ HeapLow <= current /\ wasted \in Nat
    /\ first \in DOMAIN chain /\ Apart(chain, len, DOMAIN chain)
    /\ Fills(chain, len, inUse, current, Cover)
    /\ Cardinality(Cover) + wasted = current - HeapLow
    /\ GivesUpWhenFull

LEMMA HeapInvInit == HeapInit => HeapInv
  <1> SUFFICES ASSUME HeapInit PROVE HeapInv
    BY Zenon
  <1>1. /\ DOMAIN chain = {List} /\ chain[List] = List /\ chain \in [{List} -> {List}]
        /\ DOMAIN len = {List} /\ len[List] = 0 /\ len \in [{List} -> {0}]
        /\ inUse = {} /\ first = List /\ current = HeapLow /\ wasted = 0 /\ heapPanic = FALSE
    BY Zenon DEF HeapInit
  <1>2. Blocks(chain, inUse) = {}
    BY <1>1, Zenon DEF Blocks
  <1>3. List \in Nat /\ List <= List /\ HeapLow \in Nat /\ HeapLow <= HeapLow /\ 0 \in Nat
        /\ 0 + 0 = HeapLow - HeapLow
    BY HeapAssumption DEF List
  <1>4. Ordered(chain)
    BY <1>1, <1>3, Zenon DEF Ordered
  <1>5. Tidy(chain, len, inUse, current)
    BY <1>1, <1>2, <1>3, <1>4, Zenon DEF Tidy
  <1>6. Cover = {} /\ Cardinality(Cover) = 0
    <2>1. Cover = {}
      BY <1>2, Zenon DEF Cover, Covered
    <2>2. QED BY <2>1, FS_EmptySet, Zenon
  <1>7. Apart(chain, len, DOMAIN chain)
    BY <1>1, Zenon DEF Apart
  <1>8. Fills(chain, len, inUse, current, Cover)
    BY <1>5, Zenon DEF Fills, Cover
  <1>9. QED BY <1>1, <1>3, <1>6, <1>7, <1>8, Zenon DEF HeapInv, GivesUpWhenFull

\* What the blocks make up is below the top, and so finite.
LEMMA CoverFinite ==
  ASSUME NEW next, NEW sizes, NEW used, NEW top \in Nat, NEW cover,
         Fills(next, sizes, used, top, cover)
  PROVE  /\ cover \in SUBSET (HeapLow..(top - 1))
         /\ IsFiniteSet(cover) /\ Cardinality(cover) \in Nat
  <1>1. HeapLow \in Nat
    BY HeapAssumption, Zenon
  <1>2. ASSUME NEW z \in cover PROVE z \in HeapLow..(top - 1)
    <2>1. PICK b \in Blocks(next, used) : z \in Nat /\ b <= z /\ z < b + sizes[b]
      BY Zenon DEF Fills, Covered
    <2>2. HeapLow <= b /\ b + sizes[b] <= top
      BY Zenon DEF Fills, Tidy
    <2>3. b \in Nat /\ sizes[b] \in Nat
      BY Zenon DEF Fills, Tidy, Ordered, Blocks
    <2>4. QED BY <1>1, <2>1, <2>2, <2>3
  <1>3. IsFiniteSet(HeapLow..(top - 1))
    BY <1>1, FS_Interval
  <1>4. cover \in SUBSET (HeapLow..(top - 1))
    BY <1>2, Zenon
  <1>5. QED BY <1>3, <1>4, FS_Subset, FS_CardinalityType, Zenon

\* What a heap that malloc() and free() leave sound makes of the variables.
LEMMA Settled ==
  ASSUME NEW g, NEW used, NEW top \in Nat, NEW cover, HeapSound(g, used, top, cover),
         Becomes(g), inUse' = used, current' \in Nat, top <= current'
  PROVE  /\ first' \in DOMAIN chain' /\ Apart(chain', len', DOMAIN chain')
         /\ Fills(chain', len', inUse', current', Cover') /\ Cover' = cover
  <1>1. PICK m, s, f : /\ g = [next |-> m, len |-> s, first |-> f]
                       /\ f \in DOMAIN m /\ Apart(m, s, DOMAIN m)
                       /\ Fills(m, s, used, top, cover)
    BY Zenon DEF HeapSound
  <1>2. chain' = m /\ len' = s /\ first' = f
    BY <1>1 DEF Becomes
  <1>3. Fills(m, s, used, current', cover)
    BY <1>1, TopUp, Zenon
  <1>4. Cover' = cover
    BY <1>2, <1>3, Zenon DEF Cover, Fills
  <1>5. QED BY <1>1, <1>2, <1>3, <1>4, Zenon

LEMMA TakenSettled ==
  ASSUME NEW g, NEW used, NEW top \in Nat, NEW cover, TakenSound(g, used, top, cover),
         Becomes(g), inUse' = used \cup {g.block}, current' \in Nat, top <= current'
  PROVE  /\ first' \in DOMAIN chain' /\ Apart(chain', len', DOMAIN chain')
         /\ Fills(chain', len', inUse', current', Cover') /\ Cover' = cover
  <1>1. PICK m, s, f, blk : /\ g = [next |-> m, len |-> s, first |-> f, block |-> blk]
                            /\ f \in DOMAIN m /\ Apart(m, s, DOMAIN m)
                            /\ Fills(m, s, used \cup {blk}, top, cover)
    BY Zenon DEF TakenSound
  <1>2. chain' = m /\ len' = s /\ first' = f /\ g.block = blk
    BY <1>1 DEF Becomes
  <1>3. Fills(m, s, used \cup {blk}, current', cover)
    BY <1>1, TopUp, Zenon
  <1>4. Cover' = cover
    BY <1>2, <1>3, Zenon DEF Cover, Fills
  <1>5. QED BY <1>1, <1>2, <1>3, <1>4, Zenon

LEMMA HeapIsSound ==
  ASSUME HeapInv
  PROVE  HeapSound(Heap, inUse, current, Cover)
  BY Zenon DEF HeapInv, Heap, HeapSound

LEMMA MallocInv ==
  ASSUME HeapInv, NEW size \in 2..MaxSize, Malloc(size)
  PROVE  HeapInv'
  <1>1. size \in Nat \ {0} /\ current \in Nat /\ current <= current
    BY HeapAssumption DEF HeapInv
  <1>2. PICK p \in Fits(Heap, size) :
          Becomes(Take(Heap, p, size)) /\ inUse' = inUse \cup {Take(Heap, p, size).block}
    BY Zenon DEF Malloc
  <1>3. TakenSound(Take(Heap, p, size), inUse, current, Cover)
    BY <1>1, HeapIsSound, TakeSound, Zenon
  <1>4. current' = current /\ wasted' = wasted /\ heapPanic' = heapPanic /\ ~heapPanic
    BY Zenon DEF Malloc
  <1>5. current' \in Nat /\ current <= current'
    BY <1>1, <1>4, Zenon
  <1>6. /\ first' \in DOMAIN chain' /\ Apart(chain', len', DOMAIN chain')
        /\ Fills(chain', len', inUse', current', Cover') /\ Cover' = Cover
    BY <1>1, <1>2, <1>3, <1>5, TakenSettled, Zenon
  <1>7. GivesUpWhenFull'
    BY <1>4, Zenon DEF GivesUpWhenFull
  <1>8. QED BY <1>4, <1>6, <1>7, Zenon DEF HeapInv

LEMMA FreeInv ==
  ASSUME HeapInv, NEW block \in inUse, Free(block)
  PROVE  HeapInv'
  <1>1. current \in Nat /\ current <= current
    BY DEF HeapInv
  <1>2. /\ Spot(Heap, block) # {}
        /\ \A iter \in Spot(Heap, block) :
              HeapSound(FreeAt(Heap, block, iter), inUse \ {block}, current, Cover)
    BY <1>1, HeapIsSound, FreeSound, Zenon
  <1>3. PICK iter \in Spot(Heap, block) :
          Becomes(FreeAt(Heap, block, iter)) /\ inUse' = inUse \ {block} /\ UNCHANGED heapPanic
    BY <1>2, Zenon DEF Free
  <1>4. current' = current /\ wasted' = wasted /\ heapPanic' = heapPanic /\ ~heapPanic
    BY <1>3, Zenon DEF Free
  <1>5. current' \in Nat /\ current <= current'
    BY <1>1, <1>4, Zenon
  <1>6. /\ first' \in DOMAIN chain' /\ Apart(chain', len', DOMAIN chain')
        /\ Fills(chain', len', inUse', current', Cover') /\ Cover' = Cover
    BY <1>1, <1>2, <1>3, <1>5, Settled, Zenon
  <1>7. GivesUpWhenFull'
    BY <1>4, Zenon DEF GivesUpWhenFull
  <1>8. QED BY <1>4, <1>6, <1>7, Zenon DEF HeapInv

LEMMA MallocGrowsInv ==
  ASSUME HeapInv, NEW size \in 2..MaxSize, MallocGrows(size)
  PROVE  HeapInv'
  <1> DEFINE grown == [Heap EXCEPT !.len = With(@, current, Asked(size))]
             more == Cover \cup (current..(current + Asked(size) - 1))
  <1>1. /\ size \in Nat \ {0} /\ Asked(size) \in Nat \ {0}
        /\ current \in Nat /\ HeapLow <= current /\ HeapLow \in Nat /\ wasted \in Nat
    <2>1. size \in Nat \ {0} /\ NALLOC \in Nat \ {0} /\ HeapLow \in Nat
      BY HeapAssumption
    <2>2. Asked(size) \in Nat \ {0}
      BY <2>1, Zenon DEF Asked
    <2>3. QED BY <2>1, <2>2, Zenon DEF HeapInv
  <1>2. RoundUp(Asked(size)) \in Nat /\ Asked(size) <= RoundUp(Asked(size))
    BY <1>1, RoundUpMore, Zenon
  <1>3. grown = [next |-> chain, len |-> With(len, current, Asked(size)), first |-> first]
    BY DEF Heap
  <1>4. /\ HeapSound(grown, inUse \cup {current}, current + Asked(size), more)
        /\ current \notin inUse
    <2>1. /\ HeapSound([next |-> chain, len |-> With(len, current, Asked(size)), first |-> first],
                       inUse \cup {current}, current + Asked(size), more)
          /\ current \notin inUse
      BY <1>1, GrowFills, Zenon DEF HeapInv
    <2>2. QED BY <1>3, <2>1, Zenon
  <1>5. current + Asked(size) \in Nat
    BY <1>1
  <1> HIDE DEF more
  <1>6. /\ Spot(grown, current) # {}
        /\ \A iter \in Spot(grown, current) :
              HeapSound(FreeAt(grown, current, iter), inUse, current + Asked(size), more)
    <2>1. current \in inUse \cup {current} /\ (inUse \cup {current}) \ {current} = inUse
      BY <1>4, Zenon
    <2> HIDE DEF grown
    <2>2. /\ Spot(grown, current) # {}
          /\ \A iter \in Spot(grown, current) :
                HeapSound(FreeAt(grown, current, iter), (inUse \cup {current}) \ {current},
                          current + Asked(size), more)
      BY <1>4, <1>5, <2>1, FreeSound, Zenon
    <2>3. QED BY <2>1, <2>2, Zenon
  <1>7. CASE current + RoundUp(Asked(size)) > HeapHigh
    <2>1. UNCHANGED heapVars \/ (heapPanic' = TRUE /\ UNCHANGED <<chain, len, first, inUse, current, wasted>>)
      <3>1. ~(current + RoundUp(Asked(size)) <= HeapHigh)
        BY <1>1, <1>2, <1>7, HeapAssumption
      <3>2. QED BY <3>1, Zenon DEF MallocGrows, Panics
    <2>2. /\ chain' = chain /\ len' = len /\ first' = first /\ inUse' = inUse
          /\ current' = current /\ wasted' = wasted
      BY <2>1, Zenon DEF heapVars
    <2>3. Cover' = Cover /\ Heap' = Heap
      BY <2>2, Zenon DEF Cover, Heap
    <2>4. Fits(Heap, size) = {}
      BY Zenon DEF MallocGrows
    <2>5. GivesUpWhenFull'
      BY <1>7, <2>2, <2>3, <2>4, Zenon DEF GivesUpWhenFull
    <2>6. QED BY <2>2, <2>3, <2>5, Zenon DEF HeapInv
  <1>8. CASE ~(current + RoundUp(Asked(size)) > HeapHigh)
    <2>1. PICK iter \in Spot(grown, current) :
            /\ current' = current + RoundUp(Asked(size))
            /\ wasted' = wasted + RoundUp(Asked(size)) - Asked(size)
            /\ \E p \in Fits(FreeAt(grown, current, iter), size) :
                  /\ Becomes(Take(FreeAt(grown, current, iter), p, size))
                  /\ inUse' = inUse \cup {Take(FreeAt(grown, current, iter), p, size).block}
                  /\ UNCHANGED heapPanic
      BY <1>6, <1>8, Zenon DEF MallocGrows
    <2> HIDE DEF grown
    <2>2. PICK p \in Fits(FreeAt(grown, current, iter), size) :
            /\ Becomes(Take(FreeAt(grown, current, iter), p, size))
            /\ inUse' = inUse \cup {Take(FreeAt(grown, current, iter), p, size).block}
            /\ UNCHANGED heapPanic
      BY <2>1, Zenon
    <2>3. TakenSound(Take(FreeAt(grown, current, iter), p, size), inUse,
                     current + Asked(size), more)
      <3>1. HeapSound(FreeAt(grown, current, iter), inUse, current + Asked(size), more)
        BY <1>6, Zenon
      <3>2. QED BY <1>1, <1>5, <3>1, TakeSound, Zenon
    <2>4. current' \in Nat /\ current + Asked(size) <= current' /\ HeapLow <= current'
          /\ wasted' \in Nat
      BY <1>1, <1>2, <2>1
    <2>5. /\ first' \in DOMAIN chain' /\ Apart(chain', len', DOMAIN chain')
          /\ Fills(chain', len', inUse', current', Cover') /\ Cover' = more
      BY <1>5, <2>2, <2>3, <2>4, TakenSettled, Zenon
    <2>6. Cardinality(more) = Cardinality(Cover) + Asked(size) /\ Cardinality(Cover) \in Nat
      <3>1. PICK n \in Nat \ {0} : n = Asked(size)
        BY <1>1, Zenon
      <3>2. Cover \in SUBSET (HeapLow..(current - 1)) /\ IsFiniteSet(Cover) /\ Cardinality(Cover) \in Nat
        BY <1>1, CoverFinite, Zenon DEF HeapInv
      <3>3. IsFiniteSet(current..(current + n - 1)) /\ Cardinality(current..(current + n - 1)) = n
        <4>1. current \in Int /\ current + n - 1 \in Int /\ ~(current > current + n - 1)
              /\ (current + n - 1) - current + 1 = n
          BY <1>1, <3>1
        <4>2. QED BY <4>1, FS_Interval
      <3>4. Cover \cap (current..(current + n - 1)) = {}
        BY <1>1, <3>2
      <3>5. Cardinality(Cover \cup (current..(current + n - 1)))
              = Cardinality(Cover) + Cardinality(current..(current + n - 1))
                - Cardinality(Cover \cap (current..(current + n - 1)))
        BY <3>2, <3>3, FS_Union, Zenon
      <3>6. Cardinality(Cover \cap (current..(current + n - 1))) = 0
        BY <3>4, FS_EmptySet, Zenon
      <3>7. Cardinality(Cover \cup (current..(current + n - 1))) = Cardinality(Cover) + n
        BY <3>1, <3>2, <3>3, <3>5, <3>6
      <3>8. QED BY <3>1, <3>2, <3>7, Zenon DEF more
    <2>7. Cardinality(Cover') + wasted' = current' - HeapLow
      <3>1. Cardinality(Cover) + wasted = current - HeapLow
        BY Zenon DEF HeapInv
      <3>2. Cardinality(Cover') = Cardinality(Cover) + Asked(size)
        BY <2>5, <2>6, Zenon
      <3>3. QED BY <1>1, <1>2, <2>1, <2>6, <3>1, <3>2
    <2>8. GivesUpWhenFull'
      BY <2>2, Zenon DEF MallocGrows, GivesUpWhenFull
    <2>9. QED BY <2>4, <2>5, <2>7, <2>8, Zenon DEF HeapInv
  <1>9. QED BY <1>7, <1>8, Zenon

LEMMA HeapInvNext == HeapInv /\ [HeapNext]_heapVars => HeapInv'
  <1> SUFFICES ASSUME HeapInv, [HeapNext]_heapVars PROVE HeapInv'
    BY Zenon
  <1>1. CASE UNCHANGED heapVars
    <2>1. /\ chain' = chain /\ len' = len /\ first' = first /\ inUse' = inUse
          /\ current' = current /\ wasted' = wasted /\ heapPanic' = heapPanic
      BY <1>1, Zenon DEF heapVars
    <2>2. Cover' = Cover /\ Heap' = Heap
      BY <2>1, Zenon DEF Cover, Heap
    <2>3. QED BY <2>1, <2>2, Zenon DEF HeapInv, GivesUpWhenFull
  <1>2. QED BY <1>1, MallocInv, MallocGrowsInv, FreeInv, Zenon DEF HeapNext

\* What the invariant says of extents, of the list and of neighbours.
LEMMA HeapInvSuffices == HeapInv => HeapConsistent
  <1> SUFFICES ASSUME HeapInv PROVE HeapConsistent
    BY Zenon
  <1> DEFINE D == DOMAIN chain
             B == Blocks(chain, inUse)
  <1>1. /\ chain \in [D -> D] /\ List \in D /\ D \in SUBSET Nat
        /\ \A a \in D : \/ a < chain[a] /\ \A b \in D : a < b => chain[a] <= b
                        \/ chain[a] = List /\ \A b \in D : b <= a
    BY Zenon DEF HeapInv, Fills, Tidy, Ordered
  <1>2. /\ inUse \in SUBSET Nat /\ inUse \cap D = {}
        /\ len \in [D \cup inUse -> Nat]
        /\ \A b \in B : HeapLow <= b /\ 1 <= len[b] /\ b + len[b] <= current
        /\ \A b, c \in B : b < c => b + len[b] <= c
    BY Zenon DEF HeapInv, Fills, Tidy
  <1>3. \A b \in B : b \in Nat /\ len[b] \in Nat
    BY <1>1, <1>2, Zenon DEF Blocks
  <1>4. inUse \cup FreeBlocks = B /\ FreeBlocks = D \ {List}
    BY Zenon DEF FreeBlocks, Blocks
  <1>5. current \in Nat
    BY Zenon DEF HeapInv
  <1> HIDE DEF B, D
  <1>6. \A b \in B : \A z : z \in Extent(b) <=> z \in Nat /\ b <= z /\ z < b + len[b]
    <2>1. ASSUME NEW b \in B, NEW z
          PROVE  z \in Extent(b) <=> z \in Nat /\ b <= z /\ z < b + len[b]
      <3>1. b \in Nat /\ len[b] \in Nat
        BY <1>3, Zenon
      <3>2. QED BY <3>1 DEF Extent
    <2>2. QED BY <2>1, Zenon
  <1>7. ASSUME NEW b \in B, NEW c \in B, b # c PROVE Extent(b) \cap Extent(c) = {}
    <2>1. SUFFICES ASSUME NEW z \in Extent(b), z \in Extent(c) PROVE FALSE
      BY Zenon
    <2>2. z \in Nat /\ b <= z /\ z < b + len[b] /\ c <= z /\ z < c + len[c]
      BY <1>6, <2>1, Zenon
    <2>3. (b < c => b + len[b] <= c) /\ (c < b => c + len[c] <= b)
      BY <1>2, Zenon
    <2>4. b \in Nat /\ c \in Nat /\ len[b] \in Nat /\ len[c] \in Nat
      BY <1>3, Zenon
    <2>5. QED BY <1>7, <2>2, <2>3, <2>4
  <1>8. UNION {Extent(b) : b \in B} = Cover
    <2>1. \A z : z \in Cover <=> \E b \in B : z \in Nat /\ b <= z /\ z < b + len[b]
      BY Zenon DEF Cover, Covered, B
    <2>2. \A z : z \in UNION {Extent(b) : b \in B} <=> \E b \in B : z \in Extent(b)
      BY Zenon
    <2>3. QED BY <1>6, <2>1, <2>2, Zenon
  <1>9. Cover \subseteq HeapLow..(current - 1)
    BY <1>5, CoverFinite, Zenon DEF HeapInv
  <1>10. inUse \cap FreeBlocks = {}
    BY <1>2, <1>4, Zenon
  <1>11. ASSUME NEW a \in D
         PROVE  \/ chain[a] \in Above(a) /\ \A b \in Above(a) : chain[a] <= b
                \/ chain[a] = List /\ Above(a) = {}
    <2>1. CASE a < chain[a] /\ \A b \in D : a < b => chain[a] <= b
      BY <1>1, <2>1, Zenon DEF Above, D
    <2>2. CASE chain[a] = List /\ \A b \in D : b <= a
      <3>1. ASSUME NEW b \in Above(a) PROVE FALSE
        <4>1. b \in D /\ a < b /\ b <= a
          BY <2>2, Zenon DEF Above, D
        <4>2. a \in Nat /\ b \in Nat
          BY <1>1, <4>1, Zenon
        <4>3. QED BY <4>1, <4>2
      <3>2. QED BY <2>2, <3>1, Zenon
    <2>3. QED BY <1>1, <2>1, <2>2, Zenon
  <1>12. ASSUME NEW b \in FreeBlocks PROVE b + len[b] \notin FreeBlocks
    <2>1. SUFFICES ASSUME b + len[b] \in FreeBlocks PROVE FALSE
      BY Zenon
    <2>2. PICK e \in FreeBlocks : e = b + len[b]
      BY <2>1, Zenon
    <2>3. b \in B /\ b \in D /\ e \in D /\ b \in Nat /\ len[b] \in Nat /\ 1 <= len[b] /\ e \in Nat
          /\ chain[b] \in Nat /\ chain[b] \in D
      BY <1>1, <1>2, <1>3, <1>4, Zenon
    <2>4. b < e /\ ~(e <= b)
      BY <2>2, <2>3
    <2>5. b < chain[b] /\ chain[b] <= e
      BY <1>1, <2>3, <2>4, Zenon
    <2>6. chain[b] # List
      BY <2>3, <2>5 DEF List
    <2>7. b + len[b] <= chain[b]
      BY <1>2, <1>4, <2>3, <2>5, <2>6, Zenon
    <2>8. chain[b] = b + len[b]
      BY <2>2, <2>3, <2>5, <2>7
    <2>9. QED BY <1>4, <2>3, <2>8, Zenon DEF HeapInv, Apart, D
  <1>13. QED BY <1>4, <1>7, <1>8, <1>9, <1>10, <1>11, <1>12, Zenon
             DEF HeapConsistent, HeapInv, GivesUpWhenFull, D

\* In whatever order blocks are allocated and freed, none overlap, nothing is lost,
\* the free list stays in order and merged, its searches end, and the kernel gives
\* up only when the heap cannot grow.
THEOREM HeapStaysConsistent == HeapSpec => []HeapConsistent
  <1>1. HeapSpec => []HeapInv
    BY HeapInvInit, HeapInvNext, PTL DEF HeapSpec
  <1>2. QED BY <1>1, HeapInvSuffices, PTL
===============================================================================
