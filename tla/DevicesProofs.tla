---------------------------- MODULE DevicesProofs ----------------------------
(***************************************************************************)
(* Proofs about a volume and the keyboard, for any number of readers, keys,*)
(* sectors and places in a buffer: the cache gives what the disk holds,    *)
(* keys arrive in order, nobody sleeps on input that is there.  And about  *)
(* the terminal, for any size of buffer and read, any screen of whole rows *)
(* and columns and any font: a read gets what was typed, and the cursor    *)
(* stays on the screen.                                                    *)
(***************************************************************************)
EXTENDS SectorCache, Keyboard, TTYFile, Screen, FiniteSetTheorems,
        WellFoundedInduction, TLAPS

\* A set of numbers has a least one.
LEMMA LeastNatural ==
  ASSUME NEW S \in SUBSET Nat, S # {}
  PROVE  \E m \in S : \A n \in S : m <= n
  <1> DEFINE R == OpToRel(<, Nat)
  <1>1. IsWellFoundedOn(R, Nat)
    BY NatLessThanWellFounded, Zenon
  <1>2. \A x, y \in Nat : <<y, x>> \in R <=> y < x
    BY Zenon DEF OpToRel
  <1> HIDE DEF R
  <1>3. PICK x \in S : \A y \in S : ~ (<<y, x>> \in R)
    BY <1>1, WFMin, Zenon
  <1>4. \A y \in S : y \in Nat /\ x \in Nat
    BY Zenon
  <1>5. \A y \in S : ~ (y < x)
    BY <1>2, <1>3, <1>4, Zenon
  <1>6. \A y \in S : x <= y
    BY <1>4, <1>5
  <1>7. QED BY <1>6, Zenon

(***************************************************************************)
(* Some entries of a list.                                                 *)
(***************************************************************************)

\* The indices of a list, and those up to one of them, are finitely many.
LEMMA UpToFinite ==
  ASSUME NEW n \in Nat, NEW keep \in SUBSET (1..n), NEW i
  PROVE  /\ IsFiniteSet(keep) /\ Cardinality(keep) \in Nat
         /\ IsFiniteSet(UpTo(keep, i)) /\ Cardinality(UpTo(keep, i)) \in Nat
         /\ Cardinality(UpTo(keep, i)) <= Cardinality(keep)
  <1>1. IsFiniteSet(1..n)
    BY FS_Interval
  <1>2. IsFiniteSet(keep)
    BY <1>1, FS_Subset, Zenon
  <1>3. UpTo(keep, i) \subseteq keep
    BY Zenon DEF UpTo
  <1>4. QED BY <1>2, <1>3, FS_Subset, FS_CardinalityType, Zenon

\* Every number up to the size of the set is the rank of one of its members.
LEMMA NthIn ==
  ASSUME NEW n \in Nat, NEW keep \in SUBSET (1..n), NEW k \in 1..Cardinality(keep)
  PROVE  Nth(keep, k) \in keep /\ Cardinality(UpTo(keep, Nth(keep, k))) = k
  <1> DEFINE S == {i \in 0..n : Cardinality(UpTo(keep, i)) >= k}
  <1>0. \A j \in keep : j \in Int /\ 1 <= j /\ j <= n
    OBVIOUS
  <1>1. \A i : Cardinality(UpTo(keep, i)) \in Nat /\ IsFiniteSet(UpTo(keep, i))
    BY UpToFinite, Zenon
  <1>2. Cardinality(keep) \in Nat /\ k \in Nat /\ k >= 1 /\ k <= Cardinality(keep)
    <2>1. Cardinality(keep) \in Nat
      BY UpToFinite, Zenon
    <2>2. QED BY <2>1
  <1>3. n \in S
    <2>1. UpTo(keep, n) = keep
      BY <1>0, Zenon DEF UpTo
    <2>2. QED BY <1>2, <2>1
  <1>4. PICK m \in S : \A i \in S : m <= i
    <2>1. S \in SUBSET Nat /\ S # {}
      BY <1>3
    <2> HIDE DEF S
    <2>2. QED BY <2>1, LeastNatural, Zenon
  <1>5. m \in 0..n /\ Cardinality(UpTo(keep, m)) >= k
    BY <1>4, Zenon
  <1>6. m # 0
    <2>1. UpTo(keep, 0) = {}
      <3>1. \A j \in keep : ~(j <= 0)
        BY <1>0
      <3>2. QED BY <3>1, Zenon DEF UpTo
    <2>2. Cardinality(UpTo(keep, 0)) = 0
      BY <2>1, FS_EmptySet, Zenon
    <2>3. QED BY <1>2, <1>5, <2>2
  <1>7. m - 1 \in 0..n /\ m - 1 \notin S
    BY <1>4, <1>5, <1>6
  <1>8. Cardinality(UpTo(keep, m - 1)) < k
    BY <1>1, <1>2, <1>7
  <1> HIDE DEF S
  <1>9. m \in keep
    <2>1. ASSUME m \notin keep PROVE UpTo(keep, m) = UpTo(keep, m - 1)
      <3>1. \A j \in keep : j <= m <=> j <= m - 1
        BY <1>0, <1>5, <2>1
      <3>2. QED BY <3>1, Zenon DEF UpTo
    <2>2. QED BY <1>1, <1>2, <1>5, <1>8, <2>1
  <1>10. UpTo(keep, m) = UpTo(keep, m - 1) \cup {m} /\ m \notin UpTo(keep, m - 1)
    <2>1. (\A j \in keep : j <= m <=> j <= m - 1 \/ j = m) /\ m <= m /\ ~(m <= m - 1)
      BY <1>0, <1>5, <1>9
    <2>2. QED BY <1>9, <2>1, Zenon DEF UpTo
  <1>11. Cardinality(UpTo(keep, m)) = Cardinality(UpTo(keep, m - 1)) + 1
    BY <1>1, <1>10, FS_AddElement, Zenon
  <1>12. Cardinality(UpTo(keep, m)) = k
    BY <1>1, <1>2, <1>5, <1>8, <1>11
  <1>13. QED BY <1>9, <1>12, Zenon DEF Nth

\* Every member is the one of its rank.
LEMMA NthAll ==
  ASSUME NEW n \in Nat, NEW keep \in SUBSET (1..n), NEW i \in keep
  PROVE  /\ Cardinality(UpTo(keep, i)) \in 1..Cardinality(keep)
         /\ Nth(keep, Cardinality(UpTo(keep, i))) = i
  <1> DEFINE k == Cardinality(UpTo(keep, i))
             m == Nth(keep, k)
  <1>1. \A j : /\ Cardinality(UpTo(keep, j)) \in Nat /\ IsFiniteSet(UpTo(keep, j))
               /\ Cardinality(UpTo(keep, j)) <= Cardinality(keep) /\ Cardinality(keep) \in Nat
    BY UpToFinite, Zenon
  <1>2. k # 0
    <2>1. i \in UpTo(keep, i)
      BY DEF UpTo
    <2>2. QED BY <1>1, <2>1, FS_EmptySet, Zenon
  <1>3. k \in 1..Cardinality(keep)
    BY <1>1, <1>2
  <1>4. m \in keep /\ Cardinality(UpTo(keep, m)) = k
    BY <1>3, NthIn, Zenon
  <1> HIDE DEF m
  <1>5. ASSUME NEW x \in keep, NEW y \in keep, x < y
        PROVE  Cardinality(UpTo(keep, x)) # Cardinality(UpTo(keep, y))
    <2>0. \A j \in keep : j \in Int
      OBVIOUS
    <2>1. UpTo(keep, x) \subseteq UpTo(keep, y) /\ y \in UpTo(keep, y) /\ y \notin UpTo(keep, x)
      <3>1. (\A j \in keep : j <= x => j <= y) /\ y <= y /\ ~(y <= x)
        BY <1>5, <2>0
      <3>2. QED BY <3>1, Zenon DEF UpTo
    <2>2. UpTo(keep, x) # UpTo(keep, y)
      BY <2>1, Zenon
    <2>3. QED BY <1>1, <2>1, <2>2, FS_Subset, Zenon
  <1>6. ~(m < i) /\ ~(i < m)
    BY <1>4, <1>5, Zenon
  <1>7. m \in 1..n /\ i \in 1..n
    BY <1>4, Zenon
  <1>8. m = i
    BY <1>6, <1>7
  <1>9. QED BY <1>3, <1>8, Zenon DEF m

\* Selecting keeps the type of a list.
LEMMA SelectedSeq ==
  ASSUME NEW S, NEW n \in Nat, NEW list, \A i \in 1..n : list[i] \in S, NEW keep \in SUBSET (1..n)
  PROVE  Selected(list, keep) \in Seq(S)
  <1>1. Cardinality(keep) \in Nat
    BY UpToFinite, Zenon
  <1>2. \A k \in 1..Cardinality(keep) : list[Nth(keep, k)] \in S
    BY NthIn, Zenon
  <1>3. QED BY <1>1, <1>2 DEF Selected

(***************************************************************************)
(* The cache of a volume.                                                  *)
(***************************************************************************)
\* No entry is in the list twice.
Distinct(list) == \A i, j \in DOMAIN list : list[i] = list[j] => i = j

\* The entries of a list are of its type.
LEMMA EntriesInRange ==
  ASSUME NEW S, NEW list \in Seq(S)
  PROVE  Range(list) \subseteq S
  <1>1. \A i \in DOMAIN list : list[i] \in S
    OBVIOUS
  <1>2. QED BY <1>1, Zenon DEF Range

\* A list without its last entry.
AllButLast(list) == SubSeq(list, 1, Len(list) - 1)

LEMMA AllButLastKeeps ==
  ASSUME NEW S, NEW list \in Seq(S), Len(list) # 0
  PROVE  /\ AllButLast(list) \in Seq(S)
         /\ Len(AllButLast(list)) = Len(list) - 1
         /\ DOMAIN AllButLast(list) = 1..(Len(list) - 1)
         /\ \A i \in 1..(Len(list) - 1) : AllButLast(list)[i] = list[i]
  <1>0. Len(list) - 1 \in Nat /\ Len(list) - 1 <= Len(list)
    <2>1. Len(list) \in Nat
      OBVIOUS
    <2>2. QED BY <2>1
  <1>1. PICK n \in Nat : n = Len(list) - 1 /\ n <= Len(list)
    BY <1>0, Zenon
  <1>2. /\ SubSeq(list, 1, n) \in Seq(S) /\ Len(SubSeq(list, 1, n)) = n
        /\ DOMAIN SubSeq(list, 1, n) = 1..n
        /\ \A i \in 1..n : SubSeq(list, 1, n)[i] = list[i]
    <2>1. SubSeq(list, 1, n) \in Seq(S)
      BY <1>1
    <2>2. Len(SubSeq(list, 1, n)) = n /\ DOMAIN SubSeq(list, 1, n) = 1..n
      BY <1>1
    <2>3. \A i \in 1..n : SubSeq(list, 1, n)[i] = list[i]
      BY <1>1
    <2>4. QED BY <2>1, <2>2, <2>3, Zenon
  <1>3. AllButLast(list) = SubSeq(list, 1, n)
    BY <1>1, Zenon DEF AllButLast
  <1>4. QED BY <1>1, <1>2, <1>3, Zenon

\* How many numbers 1..n are.
LEMMA IntervalCount ==
  ASSUME NEW n \in Nat
  PROVE  IsFiniteSet(1..n) /\ Cardinality(1..n) = n
  BY FS_Interval

\* Taking a sector out of the list leaves the others, each once.
LEMMA RemoveAllKeeps ==
  ASSUME NEW S, NEW list \in Seq(S), Distinct(list), NEW s
  PROVE  /\ RemoveAll(s, list) \in Seq(S) /\ Distinct(RemoveAll(s, list))
         /\ Range(RemoveAll(s, list)) = Range(list) \ {s}
         /\ Len(RemoveAll(s, list)) = Len(list) - (IF s \in Range(list) THEN 1 ELSE 0)
  <1> DEFINE rest == RemoveAll(s, list)
  <1>1. PICK n \in Nat : n = Len(list) /\ DOMAIN list = 1..n /\ \A i \in 1..n : list[i] \in S
    OBVIOUS
  <1>2. PICK keep \in SUBSET (1..n) : keep = {i \in DOMAIN list : list[i] # s}
    BY <1>1, Zenon
  <1>3. rest = Selected(list, keep)
    BY <1>2, Zenon DEF RemoveAll
  <1> HIDE DEF rest
  <1>4. rest \in Seq(S) /\ Len(rest) = Cardinality(keep)
    <2>1. \A i \in 1..n : list[i] \in S
      BY <1>1, Zenon
    <2>2. Selected(list, keep) \in Seq(S)
      BY <2>1, SelectedSeq, Zenon
    <2>3. Cardinality(keep) \in Nat
      BY UpToFinite, Zenon
    <2>4. Len(Selected(list, keep)) = Cardinality(keep)
      BY <2>3 DEF Selected
    <2>5. QED BY <1>3, <2>2, <2>4, Zenon
  <1>5. DOMAIN rest = 1..Cardinality(keep)
    BY <1>3, Zenon DEF Selected
  <1>6. \A k \in DOMAIN rest : rest[k] = list[Nth(keep, k)]
    BY <1>3, <1>5, Zenon DEF Selected
  <1>7. \A k \in DOMAIN rest : Nth(keep, k) \in keep /\ Cardinality(UpTo(keep, Nth(keep, k))) = k
    BY <1>5, NthIn, Zenon
  <1>8. Distinct(rest)
    <2> SUFFICES ASSUME NEW i \in DOMAIN rest, NEW j \in DOMAIN rest, rest[i] = rest[j] PROVE i = j
      BY Zenon DEF Distinct
    <2>1. Nth(keep, i) \in DOMAIN list /\ Nth(keep, j) \in DOMAIN list
      BY <1>2, <1>7, Zenon
    <2>2. Nth(keep, i) = Nth(keep, j)
      BY <1>6, <2>1, Zenon DEF Distinct
    <2>3. QED BY <1>7, <2>2, Zenon
  <1>9. Range(rest) = Range(list) \ {s}
    <2>1. ASSUME NEW k \in DOMAIN rest PROVE rest[k] \in Range(list) \ {s}
      BY <1>2, <1>6, <1>7, Zenon DEF Range
    <2>2. ASSUME NEW i \in DOMAIN list, list[i] # s PROVE list[i] \in Range(rest)
      <3>1. i \in keep
        BY <1>2, <2>2, Zenon
      <3>2. PICK k \in DOMAIN rest : Nth(keep, k) = i
        BY <1>5, <3>1, NthAll, Zenon
      <3>3. QED BY <1>6, <3>2, Zenon DEF Range
    <2>3. QED BY <2>1, <2>2, Zenon DEF Range
  <1>10. Cardinality(keep) = n - (IF s \in Range(list) THEN 1 ELSE 0)
    <2>1. IsFiniteSet(1..n) /\ Cardinality(1..n) = n
      BY IntervalCount, Zenon
    <2>2. CASE s \notin Range(list)
      <3>1. keep = 1..n
        BY <1>1, <1>2, <2>2, Zenon DEF Range
      <3>2. QED BY <2>1, <2>2, <3>1
    <2>3. CASE s \in Range(list)
      <3>1. PICK at \in 1..n : list[at] = s
        BY <1>1, <2>3, Zenon DEF Range
      <3>2. keep = (1..n) \ {at}
        BY <1>1, <1>2, <3>1, Zenon DEF Distinct
      <3>3. Cardinality((1..n) \ {at}) = n - 1
        BY <2>1, FS_RemoveElement, Zenon
      <3>4. QED BY <2>3, <3>2, <3>3, Zenon
    <2>4. QED BY <2>2, <2>3, Zenon
  <1>11. QED BY <1>1, <1>4, <1>8, <1>9, <1>10, Zenon DEF rest

\* LRUCache moves a sector to the front of the list: it is there once, what else

\* was in the list still is, and the list grows only by a sector it did not have.
LEMMA ToFrontKeeps ==
  ASSUME NEW S, NEW list \in Seq(S), Distinct(list), NEW s \in S
  PROVE  /\ ToFront(s, list) \in Seq(S) /\ Distinct(ToFront(s, list))
         /\ Range(ToFront(s, list)) = Range(list) \cup {s}
         /\ Len(ToFront(s, list)) = Len(list) + (IF s \in Range(list) THEN 0 ELSE 1)
  <1> DEFINE rest == RemoveAll(s, list)
             new == <<s>> \o rest
  <1>1. Len(list) \in Nat /\ DOMAIN list = 1..Len(list) /\ \A i \in DOMAIN list : list[i] \in S
    OBVIOUS
  <1>2. /\ rest \in Seq(S) /\ Distinct(rest) /\ Range(rest) = Range(list) \ {s}
        /\ Len(rest) = Len(list) - (IF s \in Range(list) THEN 1 ELSE 0)
    BY RemoveAllKeeps, Zenon
  <1> HIDE DEF rest
  <1>3. /\ new \in Seq(S) /\ Len(new) = Len(rest) + 1 /\ new[1] = s
        /\ DOMAIN new = 1..(Len(rest) + 1) /\ Len(rest) \in Nat
        /\ \A k \in 2..(Len(rest) + 1) : new[k] = rest[k - 1] /\ k - 1 \in DOMAIN rest
        /\ \A k \in DOMAIN rest : k + 1 \in DOMAIN new /\ new[k + 1] = rest[k]
    BY <1>2
  <1>4. ToFront(s, list) = new
    BY Zenon DEF ToFront, rest
  <1> HIDE DEF new
  <1>5. ASSUME NEW k \in DOMAIN new, new[k] = s PROVE k = 1
    <2>1. \A i \in DOMAIN rest : rest[i] # s
      BY <1>2, Zenon DEF Range
    <2>2. ASSUME k # 1 PROVE FALSE
      <3>1. k \in 2..(Len(rest) + 1)
        BY <1>3, <2>2
      <3>2. QED BY <1>3, <1>5, <2>1, <3>1
    <2>3. QED BY <2>2, Zenon
  <1>6. Distinct(new)
    <2>1. ASSUME NEW i \in DOMAIN new, NEW j \in DOMAIN new, new[i] = new[j] PROVE i = j
      <3>1. CASE i = 1 \/ j = 1
        BY <1>3, <1>5, <2>1, <3>1, Zenon
      <3>2. CASE i # 1 /\ j # 1
        <4>1. i \in 2..(Len(rest) + 1) /\ j \in 2..(Len(rest) + 1)
          BY <1>3, <3>2
        <4>2. rest[i - 1] = rest[j - 1] /\ i - 1 \in DOMAIN rest /\ j - 1 \in DOMAIN rest
          BY <1>3, <2>1, <4>1, Zenon
        <4>3. i - 1 = j - 1
          BY <1>2, <4>2, Zenon DEF Distinct
        <4>4. QED BY <4>1, <4>3
      <3>3. QED BY <3>1, <3>2, Zenon
    <2>2. QED BY <2>1, Zenon DEF Distinct
  <1>7. Range(new) = Range(rest) \cup {s}
    <2>1. ASSUME NEW k \in DOMAIN new PROVE new[k] \in Range(rest) \cup {s}
      <3>1. CASE k = 1
        BY <1>3, <3>1, Zenon
      <3>2. CASE k # 1
        <4>1. k \in 2..(Len(rest) + 1)
          BY <1>3, <3>2
        <4>2. QED BY <1>3, <4>1, Zenon DEF Range
      <3>3. QED BY <3>1, <3>2, Zenon
    <2>2. ASSUME NEW k \in DOMAIN rest PROVE rest[k] \in Range(new)
      <3>1. k + 1 \in DOMAIN new /\ new[k + 1] = rest[k]
        BY <1>3, Zenon
      <3>2. QED BY <3>1, Zenon DEF Range
    <2>3. 1 \in DOMAIN new /\ new[1] = s
      BY <1>3
    <2>4. QED BY <2>1, <2>2, <2>3, Zenon DEF Range
  <1>8. /\ Range(new) = Range(list) \cup {s}
        /\ Len(new) = Len(list) + (IF s \in Range(list) THEN 0 ELSE 1)
    <2>1. Range(new) = Range(list) \cup {s}
      BY <1>2, <1>7, Zenon
    <2>2. CASE s \in Range(list)
      <3>1. Len(rest) = Len(list) - 1
        BY <1>2, <2>2, Zenon
      <3>2. QED BY <1>1, <1>3, <2>1, <2>2, <3>1
    <2>3. CASE s \notin Range(list)
      <3>1. Len(rest) = Len(list) - 0
        BY <1>2, <2>3, Zenon
      <3>2. QED BY <1>1, <1>3, <2>1, <2>3, <3>1
    <2>4. QED BY <2>2, <2>3, Zenon
  <1>9. QED BY <1>3, <1>4, <1>6, <1>8, Zenon

\* What a volume holds on its disk, in its list and in its hash.
DiskInv ==
    /\ disk \in [0..(NumSectors - 1) -> Data]
    /\ order \in Seq(0..(NumSectors - 1)) /\ Distinct(order)
    /\ Range(order) = DOMAIN cache /\ Len(order) <= CacheSize
    /\ \A s \in DOMAIN cache : cache[s] = disk[s] \/ s \in torn
    /\ result.ok => result.data = disk[result.sector] \/ result.sector \in torn

\* LRUCache::insert: with room or without, the list names what the hash holds and

\* neither grows past the size of the cache.
LEMMA InsertKeeps ==
  ASSUME DiskInv, NEW s \in 0..(NumSectors - 1), NEW d, Insert(s, d)
  PROVE  /\ order' \in Seq(0..(NumSectors - 1)) /\ Distinct(order')
         /\ Range(order') = DOMAIN cache' /\ Len(order') <= CacheSize
         /\ cache'[s] = d /\ DOMAIN cache' \subseteq DOMAIN cache \cup {s}
         /\ \A x \in DOMAIN cache' \ {s} : cache'[x] = cache[x]
  <1> DEFINE S == 0..(NumSectors - 1)
             left == IF IsFull THEN SubSeq(order, 1, Len(order) - 1) ELSE order
             kept == DOMAIN cache \ Dropped
  <1>1. /\ order \in Seq(S) /\ Distinct(order) /\ Range(order) = DOMAIN cache
        /\ Len(order) <= CacheSize /\ CacheSize \in Nat /\ CacheSize > 0
        /\ Len(order) \in Nat /\ DOMAIN order = 1..Len(order)
    BY SectorCacheAssumption DEF DiskInv
  <1>2. left \in Seq(S) /\ Distinct(left) /\ Range(left) = kept /\ Len(left) < CacheSize
    <2>1. CASE ~IsFull
      BY <1>1, <2>1 DEF IsFull, Dropped
    <2>2. CASE IsFull
      <3> DEFINE n == Len(order)
      <3>1. /\ n \in Nat /\ n = CacheSize /\ n >= 1
            /\ Dropped = {order[n]} /\ left = SubSeq(order, 1, n - 1)
        <4>1. n \in Nat /\ n = CacheSize /\ n >= 1
          <5>1. Len(order) \in Nat /\ Len(order) <= CacheSize /\ CacheSize \in Nat /\ CacheSize > 0
            BY <1>1, Zenon
          <5>2. Len(order) >= CacheSize
            BY <2>2, Zenon DEF IsFull
          <5>3. QED BY <5>1, <5>2
        <4>2. Dropped = {order[n]} /\ left = SubSeq(order, 1, n - 1)
          BY <2>2, Zenon DEF Dropped
        <4>3. QED BY <4>1, <4>2, Zenon
      <3>2. /\ left \in Seq(S) /\ Len(left) = n - 1 /\ DOMAIN left = 1..(n - 1)
            /\ \A i \in 1..(n - 1) : left[i] = order[i]
        <4>1. order \in Seq(S) /\ Len(order) # 0
          BY <1>1, <3>1
        <4>2. left = AllButLast(order)
          BY <3>1, Zenon DEF AllButLast
        <4>3. /\ AllButLast(order) \in Seq(S)
              /\ Len(AllButLast(order)) = Len(order) - 1
              /\ DOMAIN AllButLast(order) = 1..(Len(order) - 1)
              /\ \A i \in 1..(Len(order) - 1) : AllButLast(order)[i] = order[i]
          BY <4>1, AllButLastKeeps, Zenon
        <4>4. QED BY <4>2, <4>3, Zenon
      <3> HIDE DEF left
      <3>3. Distinct(left)
        <4>1. \A i \in 1..(n - 1) : i \in DOMAIN order
          BY <1>1, <3>1
        <4>2. SUFFICES ASSUME NEW i \in 1..(n - 1), NEW j \in 1..(n - 1), left[i] = left[j]
                       PROVE  i = j
          BY <3>2, Zenon DEF Distinct
        <4>3. order[i] = order[j]
          BY <3>2, <4>2, Zenon
        <4>4. QED BY <1>1, <4>1, <4>3, Zenon DEF Distinct
      <3>4. Range(left) = Range(order) \ {order[n]}
        <4>1. ASSUME NEW i \in 1..(n - 1) PROVE left[i] \in Range(order) \ {order[n]}
          <5>1. i \in DOMAIN order /\ n \in DOMAIN order /\ i # n
            BY <1>1, <3>1
          <5>2. order[i] # order[n]
            BY <1>1, <5>1, Zenon DEF Distinct
          <5>3. QED BY <3>2, <5>1, <5>2, Zenon DEF Range
        <4>2. ASSUME NEW i \in 1..n, order[i] # order[n] PROVE order[i] \in Range(left)
          <5>1. i \in 1..(n - 1)
            BY <3>1, <4>2
          <5>2. QED BY <3>2, <5>1, Zenon DEF Range
        <4>3. QED BY <1>1, <3>2, <4>1, <4>2 DEF Range
      <3>5. QED BY <1>1, <3>1, <3>2, <3>3, <3>4
    <2>3. QED BY <2>1, <2>2, Zenon
  <1>3. /\ order' = ToFront(s, left)
        /\ cache' = [x \in kept \cup {s} |-> IF x = s THEN d ELSE cache[x]]
    BY Zenon DEF Insert
  <1> HIDE DEF left
  <1>4. /\ order' \in Seq(S) /\ Distinct(order') /\ Range(order') = Range(left) \cup {s}
        /\ Len(order') = Len(left) + (IF s \in Range(left) THEN 0 ELSE 1)
    BY <1>2, <1>3, ToFrontKeeps, ZenonT(30)
  <1>5. Len(order') <= CacheSize
    <2>1. Len(left) \in Nat
      BY <1>2
    <2>2. Len(order') = Len(left) \/ Len(order') = Len(left) + 1
      BY <1>4, <2>1
    <2>3. QED BY <1>1, <1>2, <2>1, <2>2
  <1>6. QED BY <1>2, <1>3, <1>4, <1>5, Zenon

\* Reads, writes and their failures (Volume::tryReadSector, tryWriteSector) keep

\* the cache coherent.
LEMMA DiskStep == DiskInv /\ [DiskNext]_diskVars => DiskInv'
  <1> SUFFICES ASSUME DiskInv, [DiskNext]_diskVars PROVE DiskInv'
    BY Zenon
  <1> DEFINE S == 0..(NumSectors - 1)
  <1>1. ASSUME NEW s \in Sector, ReadHit(s) PROVE DiskInv'
    <2>1. s \in Range(order) /\ order \in Seq(S)
      BY <1>1, Zenon DEF DiskInv, ReadHit
    <2>2. s \in S
      BY <2>1, EntriesInRange, Zenon
    <2>3. /\ order' \in Seq(S) /\ Distinct(order') /\ Range(order') = Range(order) \cup {s}
          /\ Len(order') = Len(order) + (IF s \in Range(order) THEN 0 ELSE 1)
      BY <1>1, <2>1, <2>2, ToFrontKeeps, Zenon DEF DiskInv, ReadHit
    <2>4. Range(order') = Range(order)
      BY <2>1, <2>3, Zenon
    <2>5. Len(order') = Len(order) + 0 /\ Len(order) \in Nat
      BY <2>1, <2>3
    <2>6. result' = [ok |-> TRUE, sector |-> s, data |-> cache[s]] /\ UNCHANGED <<disk, cache, torn>>
      BY <1>1, Zenon DEF ReadHit, Return
    <2>7. cache[s] = disk[s] \/ s \in torn
      BY <2>1, Zenon DEF DiskInv
    <2>8. Len(order') <= CacheSize
      BY <2>5, SectorCacheAssumption DEF DiskInv
    <2>9. result'.data = disk'[result'.sector] \/ result'.sector \in torn'
      BY <2>6, <2>7, Zenon
    <2>10. QED BY <2>3, <2>4, <2>6, <2>8, <2>9, Zenon DEF DiskInv
  <1>2. ASSUME NEW s \in Sector, ReadMiss(s) PROVE DiskInv'
    <2>1. s \in S /\ Insert(s, disk[s]) /\ UNCHANGED <<disk, torn>>
      BY <1>2, SectorCacheAssumption DEF ReadMiss, Sector
    <2>2. /\ order' \in Seq(S) /\ Distinct(order')
          /\ Range(order') = DOMAIN cache' /\ Len(order') <= CacheSize
          /\ cache'[s] = disk[s] /\ DOMAIN cache' \subseteq DOMAIN cache \cup {s}
          /\ \A x \in DOMAIN cache' \ {s} : cache'[x] = cache[x]
      BY <2>1, InsertKeeps, Zenon
    <2>3. result' = [ok |-> TRUE, sector |-> s, data |-> disk[s]]
      BY <1>2, Zenon DEF ReadMiss, Return
    <2>4. \A x \in DOMAIN cache' : cache'[x] = disk'[x] \/ x \in torn'
      BY <2>1, <2>2, Zenon DEF DiskInv
    <2>5. QED BY <2>1, <2>2, <2>3, <2>4, Zenon DEF DiskInv
  <1>3. ASSUME NEW s \in Sector, NEW d \in Data, WriteSector(s, d) PROVE DiskInv'
    <2>1. /\ s \in S /\ Insert(s, d) /\ disk' = [disk EXCEPT ![s] = d] /\ torn' = torn \ {s}
      BY <1>3, SectorCacheAssumption DEF WriteSector, Sector, UpdateCache
    <2>2. /\ order' \in Seq(S) /\ Distinct(order')
          /\ Range(order') = DOMAIN cache' /\ Len(order') <= CacheSize
          /\ cache'[s] = d /\ DOMAIN cache' \subseteq DOMAIN cache \cup {s}
          /\ \A x \in DOMAIN cache' \ {s} : cache'[x] = cache[x]
      BY <2>1, InsertKeeps, Zenon
    <2>3. result' = [ok |-> TRUE, sector |-> s, data |-> d]
      BY <1>3, Zenon DEF WriteSector, Return
    <2>4. disk' \in [S -> Data] /\ disk'[s] = d /\ \A x \in S \ {s} : disk'[x] = disk[x]
      BY <2>1, Zenon DEF DiskInv
    <2>5. DOMAIN cache' \subseteq S
      BY <2>2, EntriesInRange, Zenon
    <2>6. \A x \in DOMAIN cache' : cache'[x] = disk'[x] \/ x \in torn'
      BY <2>1, <2>2, <2>4, <2>5, Zenon DEF DiskInv
    <2>7. QED BY <2>2, <2>3, <2>4, <2>6, Zenon DEF DiskInv
  <1>4. ASSUME NEW s \in Sector, ReadFails(s) PROVE DiskInv'
    BY <1>4, Zenon DEF ReadFails, Return, DiskInv, Distinct
  <1>5. ASSUME NEW s \in Sector, NEW d \in Data, WriteFails(s, d) PROVE DiskInv'
    <2>1. /\ UNCHANGED <<order, cache>> /\ result' = [ok |-> FALSE, sector |-> s, data |-> NoData]
      BY <1>5, Zenon DEF WriteFails, Return
    <2>2. CASE UNCHANGED <<disk, torn>>
      BY <2>1, <2>2, Zenon DEF DiskInv, Distinct
    <2>3. CASE s < NumSectors /\ disk' = [disk EXCEPT ![s] = d] /\ torn' = torn \cup {s}
      <3>1. s \in S /\ DOMAIN cache \subseteq S
        BY <2>3, EntriesInRange, SectorCacheAssumption DEF Sector, DiskInv
      <3>2. disk' \in [S -> Data] /\ \A x \in S \ {s} : disk'[x] = disk[x]
        BY <2>3, <3>1, Zenon DEF DiskInv
      <3>3. \A x \in DOMAIN cache' : cache'[x] = disk'[x] \/ x \in torn'
        BY <2>1, <2>3, <3>1, <3>2, Zenon DEF DiskInv
      <3>4. QED BY <2>1, <3>2, <3>3, Zenon DEF DiskInv, Distinct
    <2>4. QED BY <1>5, <2>2, <2>3, Zenon DEF WriteFails
  <1>6. CASE UNCHANGED diskVars
    BY <1>6, Zenon DEF diskVars, DiskInv, Distinct
  <1>7. QED BY <1>1, <1>2, <1>3, <1>4, <1>5, <1>6, Zenon DEF DiskNext

\* A read gives what the disk holds, from the cache or not, after any reads,

\* writes, evictions and failures, unless a failed write reached the disk; and the
\* list that decides what to drop names exactly the sectors in the cache.
THEOREM CacheAlwaysCoherent == DiskSpec => []CacheCoherent
  <1>1. DiskInit => DiskInv
    BY SectorCacheAssumption DEF DiskInit, DiskInv, Distinct, Range
  <1>2. DiskInv => CacheCoherent
    BY Zenon DEF DiskInv, CacheCoherent
  <1>3. QED BY <1>1, DiskStep, <1>2, PTL DEF DiskSpec

(***************************************************************************)
(* A circular buffer of n places holds a list from place r on; the next    *)
(* entry goes to place w.                                                  *)
(***************************************************************************)
\* The i-th place from r on.
Spot(r, i, n) == (r + i - 1) % n

Holds(cells, r, w, n, list) ==
    /\ list \in Seq(Event) /\ Len(list) < n
    /\ w = Spot(r, Len(list) + 1, n)
    /\ \A i \in 1..Len(list) : cells[Spot(r, i, n)] = list[i]

\* It goes around at most once.
LEMMA SpotIs ==
  ASSUME NEW n \in Nat \ {0}, NEW r \in 0..(n - 1), NEW i \in 1..n
  PROVE  /\ Spot(r, i, n) = IF r + i - 1 < n THEN r + i - 1 ELSE r + i - 1 - n
         /\ Spot(r, i, n) \in 0..(n - 1)
  <1>1. \A a \in Nat : a < n + n => a % n = IF a < n THEN a ELSE a - n
    OBVIOUS
  <1>2. PICK a \in Nat : a = r + i - 1 /\ a < n + n
    OBVIOUS
  <1>3. a % n = IF a < n THEN a ELSE a - n
    BY <1>1, <1>2, Zenon
  <1>4. Spot(r, i, n) = a % n
    BY <1>2, Zenon DEF Spot
  <1>5. QED BY <1>2, <1>3, <1>4

\* What the buffer holds can be read from it.
LEMMA HeldIsRead ==
  ASSUME NEW n \in Nat \ {0}, NEW r \in 0..(n - 1), NEW w, NEW cells, NEW list,
         Holds(cells, r, w, n, list)
  PROVE  [i \in 1..((w - r + n) % n) |-> cells[(r + i - 1) % n]] = list
  <1>1. list \in Seq(Event) /\ Len(list) \in Nat /\ Len(list) < n /\ Len(list) + 1 \in 1..n
    BY DEF Holds
  <1>2. (w - r + n) % n = Len(list)
    <2>1. /\ w \in 0..(n - 1)
          /\ w = IF r + (Len(list) + 1) - 1 < n THEN r + (Len(list) + 1) - 1
                 ELSE r + (Len(list) + 1) - 1 - n
      BY <1>1, SpotIs, Zenon DEF Holds
    <2>2. PICK a \in Nat : a = w - r + n /\ (a = Len(list) \/ a = Len(list) + n)
      BY <1>1, <2>1
    <2>3. \A k \in Nat : k < n => k % n = k /\ (k + n) % n = k
      OBVIOUS
    <2>4. a % n = Len(list)
      BY <1>1, <2>2, <2>3, Zenon
    <2>5. QED BY <2>2, <2>4, Zenon
  <1>3. list = [i \in 1..Len(list) |-> cells[Spot(r, i, n)]]
    BY <1>1 DEF Holds
  <1>4. QED BY <1>2, <1>3, Zenon DEF Spot

\* An entry goes behind the others while there is room.
LEMMA PutHeld ==
  ASSUME NEW n \in Nat \ {0}, NEW r \in 0..(n - 1), NEW w, NEW cells \in [0..(n - 1) -> Event],
         NEW list, Holds(cells, r, w, n, list), NEW e \in Event, Len(list) + 1 < n
  PROVE  Holds([cells EXCEPT ![w] = e], r, Spot(w, 2, n), n, Append(list, e))
  <1> DEFINE new == Append(list, e)
             c == [cells EXCEPT ![w] = e]
  <1>1. /\ list \in Seq(Event) /\ Len(list) \in Nat /\ Len(list) + 1 \in 1..n
        /\ Len(list) + 2 \in 1..n /\ 2 \in 1..n
    BY DEF Holds
  <1>2. /\ w \in 0..(n - 1)
        /\ w = IF r + (Len(list) + 1) - 1 < n THEN r + (Len(list) + 1) - 1
               ELSE r + (Len(list) + 1) - 1 - n
    BY <1>1, SpotIs, Zenon DEF Holds
  <1>3. /\ new \in Seq(Event) /\ Len(new) = Len(list) + 1 /\ new[Len(list) + 1] = e
        /\ \A i \in 1..Len(list) : new[i] = list[i]
    BY <1>1
  <1>4. Spot(w, 2, n) = Spot(r, Len(new) + 1, n)
    <2>1. Spot(w, 2, n) = IF w + 2 - 1 < n THEN w + 2 - 1 ELSE w + 2 - 1 - n
      BY <1>1, <1>2, SpotIs, Zenon
    <2>2. Spot(r, Len(list) + 2, n) = IF r + (Len(list) + 2) - 1 < n THEN r + (Len(list) + 2) - 1
                                      ELSE r + (Len(list) + 2) - 1 - n
      BY <1>1, SpotIs, Zenon
    <2>3. Len(new) + 1 = Len(list) + 2
      BY <1>1, <1>3
    <2>4. Spot(w, 2, n) = Spot(r, Len(list) + 2, n)
      BY <1>1, <1>2, <2>1, <2>2
    <2>5. QED BY <2>3, <2>4, Zenon
  <1>5. ASSUME NEW i \in 1..Len(new) PROVE c[Spot(r, i, n)] = new[i]
    <2>1. i \in 1..(Len(list) + 1) /\ i \in 1..n
      BY <1>1, <1>3
    <2>2. /\ Spot(r, i, n) \in 0..(n - 1)
          /\ Spot(r, i, n) = IF r + i - 1 < n THEN r + i - 1 ELSE r + i - 1 - n
      BY <2>1, SpotIs, Zenon
    <2>3. CASE i = Len(list) + 1
      <3>1. c[w] = e
        BY <1>2, Zenon
      <3>2. QED BY <1>3, <2>3, <3>1, Zenon DEF Holds
    <2>4. CASE i # Len(list) + 1
      <3>1. i \in 1..Len(list)
        BY <1>1, <2>1, <2>4
      <3>2. Spot(r, i, n) # w
        BY <1>1, <1>2, <2>2, <3>1
      <3>3. c[Spot(r, i, n)] = cells[Spot(r, i, n)]
        BY <2>2, <3>2, Zenon
      <3>4. QED BY <1>3, <3>1, <3>3, Zenon DEF Holds
    <2>5. QED BY <2>3, <2>4, Zenon
  <1>6. Len(new) < n
    BY <1>3, Zenon
  <1> HIDE DEF new, c
  <1>7. Holds(c, r, Spot(w, 2, n), n, new)
    BY <1>3, <1>4, <1>5, <1>6, Zenon DEF Holds
  <1>8. QED BY <1>7, Zenon DEF c, new

\* The oldest entry is taken.
LEMMA TakeHeld ==
  ASSUME NEW n \in Nat \ {0}, NEW r \in 0..(n - 1), NEW w, NEW cells, NEW list,
         Holds(cells, r, w, n, list), w # r
  PROVE  Holds(cells, Spot(r, 2, n), w, n, Tail(list))
  <1> DEFINE new == Tail(list)
             s == Spot(r, 2, n)
  <1>1. list \in Seq(Event) /\ Len(list) \in Nat /\ Len(list) < n /\ Len(list) + 1 \in 1..n
    BY DEF Holds
  <1>2. w = IF r + (Len(list) + 1) - 1 < n THEN r + (Len(list) + 1) - 1
            ELSE r + (Len(list) + 1) - 1 - n
    BY <1>1, SpotIs, Zenon DEF Holds
  <1>3. Len(list) # 0 /\ 2 \in 1..n
    BY <1>1, <1>2
  <1>4. /\ new \in Seq(Event) /\ Len(new) = Len(list) - 1
        /\ \A i \in 1..(Len(list) - 1) : new[i] = list[i + 1]
    BY <1>1, <1>3
  <1>5. s \in 0..(n - 1) /\ s = IF r + 2 - 1 < n THEN r + 2 - 1 ELSE r + 2 - 1 - n
    BY <1>3, SpotIs, Zenon
  <1> HIDE DEF s
  <1>6. ASSUME NEW i \in 1..Len(list) PROVE Spot(s, i, n) = Spot(r, i + 1, n)
    <2>1. i \in 1..n /\ i + 1 \in 1..n
      BY <1>1
    <2>2. Spot(s, i, n) = IF s + i - 1 < n THEN s + i - 1 ELSE s + i - 1 - n
      BY <1>5, <2>1, SpotIs, Zenon
    <2>3. Spot(r, i + 1, n) = IF r + (i + 1) - 1 < n THEN r + (i + 1) - 1 ELSE r + (i + 1) - 1 - n
      BY <2>1, SpotIs, Zenon
    <2>4. QED BY <1>1, <1>5, <2>2, <2>3
  <1>7. ASSUME NEW i \in 1..Len(new) PROVE cells[Spot(s, i, n)] = new[i]
    <2>1. i \in 1..(Len(list) - 1) /\ i + 1 \in 1..Len(list) /\ i \in 1..Len(list)
      BY <1>1, <1>4
    <2>2. cells[Spot(r, i + 1, n)] = list[i + 1]
      BY <2>1, Zenon DEF Holds
    <2>3. QED BY <1>4, <1>6, <2>1, <2>2, Zenon
  <1>8. w = Spot(s, Len(new) + 1, n)
    <2>1. Len(list) \in 1..Len(list) /\ Len(new) + 1 = Len(list)
      BY <1>1, <1>3, <1>4
    <2>2. QED BY <1>6, <2>1, Zenon DEF Holds
  <1>9. Len(new) < n
    BY <1>1, <1>4
  <1> HIDE DEF new
  <1>10. Holds(cells, s, w, n, new)
    BY <1>4, <1>7, <1>8, <1>9, Zenon DEF Holds
  <1>11. QED BY <1>10, Zenon DEF s, new

\* No place comes twice.
LEMMA SpotsApart ==
  ASSUME NEW n \in Nat \ {0}, NEW r \in 0..(n - 1), NEW i \in 1..n, NEW j \in 1..n,
         Spot(r, i, n) = Spot(r, j, n)
  PROVE  i = j
  <1>1. Spot(r, i, n) = IF r + i - 1 < n THEN r + i - 1 ELSE r + i - 1 - n
    BY SpotIs, Zenon
  <1>2. Spot(r, j, n) = IF r + j - 1 < n THEN r + j - 1 ELSE r + j - 1 - n
    BY SpotIs, Zenon
  <1>3. (IF r + i - 1 < n THEN r + i - 1 ELSE r + i - 1 - n) =
           (IF r + j - 1 < n THEN r + j - 1 ELSE r + j - 1 - n)
    BY <1>1, <1>2, Zenon
  <1>4. QED BY <1>3

\* c is cells with the events in more put from w on.
Placed(c, cells, w, n, more) ==
    \A i \in DOMAIN cells :
        /\ (\A k \in 1..Len(more) : Spot(w, k, n) # i) => c[i] = cells[i]
        /\ \A k \in 1..Len(more) :
              (\A j \in 1..Len(more) : Spot(w, j, n) = i <=> j = k) => c[i] = more[k]

\* Several entries go behind the others while there is room.
LEMMA StoreHeld ==
  ASSUME NEW n \in Nat \ {0}, NEW r \in 0..(n - 1), NEW w, NEW cells, DOMAIN cells = 0..(n - 1),
         NEW list, Holds(cells, r, w, n, list), NEW more \in Seq(Event), Len(list) + Len(more) < n,
         NEW c, Placed(c, cells, w, n, more)
  PROVE  Holds(c, r, Spot(w, Len(more) + 1, n), n, list \o more)
  <1> DEFINE new == list \o more
  <1>1. /\ list \in Seq(Event) /\ Len(list) \in Nat /\ Len(list) + 1 \in 1..n /\ Len(more) \in Nat
    BY DEF Holds
  <1>2. /\ w \in 0..(n - 1)
        /\ w = IF r + (Len(list) + 1) - 1 < n THEN r + (Len(list) + 1) - 1
               ELSE r + (Len(list) + 1) - 1 - n
    BY <1>1, SpotIs, Zenon DEF Holds
  <1>3. /\ new \in Seq(Event) /\ Len(new) = Len(list) + Len(more)
        /\ \A i \in 1..Len(list) : new[i] = list[i]
        /\ \A k \in 1..Len(more) : new[Len(list) + k] = more[k]
    BY <1>1
  <1> HIDE DEF new
  <1>4. ASSUME NEW k \in 1..(Len(more) + 1) PROVE Spot(w, k, n) = Spot(r, Len(list) + k, n)
    <2>1. k \in 1..n /\ Len(list) + k \in 1..n
      BY <1>1
    <2>2. Spot(w, k, n) = IF w + k - 1 < n THEN w + k - 1 ELSE w + k - 1 - n
      BY <1>2, <2>1, SpotIs, Zenon
    <2>3. Spot(r, Len(list) + k, n) = IF r + (Len(list) + k) - 1 < n THEN r + (Len(list) + k) - 1
                                      ELSE r + (Len(list) + k) - 1 - n
      BY <2>1, SpotIs, Zenon
    <2>4. ASSUME NEW m \in Nat, NEW v \in 0..(n - 1), k \in 1..n, m + k \in 1..n,
                 v = IF r + (m + 1) - 1 < n THEN r + (m + 1) - 1 ELSE r + (m + 1) - 1 - n
          PROVE  (IF v + k - 1 < n THEN v + k - 1 ELSE v + k - 1 - n)
                   = IF r + (m + k) - 1 < n THEN r + (m + k) - 1 ELSE r + (m + k) - 1 - n
      BY <2>4
    <2>5. QED BY <1>1, <1>2, <2>1, <2>2, <2>3, <2>4, Zenon
  <1>5. ASSUME NEW i \in 1..n, NEW j \in 1..n, Spot(r, i, n) = Spot(r, j, n) PROVE i = j
    BY <1>5, SpotsApart, Zenon
  <1>6. \A k \in 1..Len(more) : k \in 1..(Len(more) + 1) /\ Len(list) + k \in 1..n
    BY <1>1
  <1>7. \A i \in 1..n : Spot(r, i, n) \in DOMAIN cells
    BY SpotIs, Zenon
  <1>8. ASSUME NEW i \in 1..Len(list) PROVE c[Spot(r, i, n)] = new[i]
    <2>1. i \in 1..n /\ \A k \in 1..Len(more) : Len(list) + k # i
      BY <1>1
    <2>2. \A k \in 1..Len(more) : Spot(w, k, n) # Spot(r, i, n)
      BY <1>4, <1>5, <1>6, <2>1, Zenon
    <2>3. c[Spot(r, i, n)] = cells[Spot(r, i, n)]
      BY <1>7, <2>1, <2>2, Zenon DEF Placed
    <2>4. QED BY <1>3, <2>3, Zenon DEF Holds
  <1>9. ASSUME NEW k \in 1..Len(more) PROVE c[Spot(r, Len(list) + k, n)] = new[Len(list) + k]
    <2>1. \A j \in 1..Len(more) : Len(list) + j = Len(list) + k => j = k
      BY <1>1
    <2>2. \A j \in 1..Len(more) : Spot(w, j, n) = Spot(r, Len(list) + k, n) <=> j = k
      BY <1>4, <1>5, <1>6, <2>1, Zenon
    <2>3. c[Spot(r, Len(list) + k, n)] = more[k]
      BY <1>6, <1>7, <2>2, Zenon DEF Placed
    <2>4. QED BY <1>3, <2>3, Zenon
  <1>10. ASSUME NEW i \in 1..Len(new) PROVE c[Spot(r, i, n)] = new[i]
    <2>1. CASE i \in 1..Len(list)
      BY <1>8, <2>1, Zenon
    <2>2. CASE i \notin 1..Len(list)
      <3>1. PICK k \in 1..Len(more) : i = Len(list) + k
        <4>1. i - Len(list) \in 1..Len(more) /\ i = Len(list) + (i - Len(list))
          BY <1>1, <1>3, <2>2
        <4>2. QED BY <4>1, Zenon
      <3>2. QED BY <1>9, <3>1, Zenon
    <2>3. QED BY <2>1, <2>2, Zenon
  <1>11. Spot(w, Len(more) + 1, n) = Spot(r, Len(new) + 1, n)
    <2>1. Len(more) + 1 \in 1..(Len(more) + 1) /\ Len(list) + (Len(more) + 1) = Len(new) + 1
      BY <1>1, <1>3
    <2>2. QED BY <1>4, <2>1, Zenon
  <1>12. Len(new) < n
    BY <1>3, Zenon
  <1>13. Holds(c, r, Spot(w, Len(more) + 1, n), n, new)
    BY <1>3, <1>10, <1>11, <1>12, Zenon DEF Holds
  <1>14. QED BY <1>13, Zenon DEF new

(***************************************************************************)
(* The way of the keys.                                                    *)
(***************************************************************************)
\* The ring and the queue hold what came and was not taken, until one of them is
\* overrun.
KeysInv ==
    /\ ring \in [0..(RingSize - 1) -> Event] /\ DOMAIN queue = 0..(QueueSize - 1)
    /\ ringRead \in 0..(RingSize - 1) /\ ringWrite \in 0..(RingSize - 1)
    /\ queueRead \in 0..(QueueSize - 1)
    /\ isBreakCode \in BOOLEAN /\ modifiersDown \in BOOLEAN /\ overrun \in BOOLEAN
    /\ ~overrun => /\ Holds(ring, ringRead, ringWrite, RingSize, arrived)
                   /\ Holds(queue, queueRead, queueWrite, QueueSize, queued)

\* A buffer with nothing in it.
LEMMA EmptyHeld ==
  ASSUME NEW n \in Nat \ {0}, NEW r \in 0..(n - 1), NEW cells
  PROVE  Holds(cells, r, r, n, <<>>)
  <1>1. Spot(r, 1, n) = r /\ Len(<<>>) = 0 /\ <<>> \in Seq(Event)
    <2>1. 1 \in 1..n
      OBVIOUS
    <2>2. Spot(r, 1, n) = IF r + 1 - 1 < n THEN r + 1 - 1 ELSE r + 1 - 1 - n
      BY <2>1, SpotIs, Zenon
    <2>3. QED BY <2>2
  <1>2. QED BY <1>1 DEF Holds

\* The kernel starts with both empty.
LEMMA KeysStart == KeyInit => KeysInv
  <1> SUFFICES ASSUME KeyInit PROVE KeysInv
    BY Zenon
  <1>1. 0 \in 0..(RingSize - 1) /\ 0 \in 0..(QueueSize - 1) /\ NoEvent \in Event
    BY KeyboardAssumption DEF NoEvent, Event, Key
  <1>2. /\ ring \in [0..(RingSize - 1) -> Event] /\ DOMAIN queue = 0..(QueueSize - 1)
        /\ ringRead = 0 /\ ringWrite = 0 /\ queueRead = 0 /\ queueWrite = 0
        /\ isBreakCode = FALSE /\ modifiersDown = FALSE /\ overrun = FALSE
        /\ arrived = <<>> /\ queued = <<>>
    BY <1>1, Zenon DEF KeyInit
  <1>3. /\ Holds(ring, 0, 0, RingSize, <<>>) /\ Holds(queue, 0, 0, QueueSize, <<>>)
    BY <1>1, KeyboardAssumption, EmptyHeld, Zenon
  <1>4. QED BY <1>1, <1>2, <1>3, Zenon DEF KeysInv

\* An interrupt puts its event into the ring.
LEMMA KeyIRQInOrder ==
  ASSUME KeysInv, NEW b \in Key \cup {Break}, KeyIRQ(b)
  PROVE  KeysInv'
  <1> DEFINE event == [key |-> b, down |-> ~isBreakCode, chord |-> modifiersDown]
  <1>1. /\ UNCHANGED <<queue, queueRead, queueWrite, queued>>
        /\ RingSize \in Nat \ {0}
    BY KeyboardAssumption, Zenon DEF KeyIRQ, queueVars
  <1>2. CASE isBreakCode' = TRUE /\ UNCHANGED <<modifiersDown, ringVars, arrived, overrun>>
    BY <1>1, <1>2, Zenon DEF KeysInv, ringVars
  <1>3. CASE /\ b \in Key
             /\ ring' = [ring EXCEPT ![ringWrite] = event]
             /\ ringWrite' = RingNext(ringWrite)
             /\ arrived' = Append(arrived, event)
             /\ overrun' = (overrun \/ Len(arrived) + 1 = RingSize)
             /\ modifiersDown' = IF b = "modifiers" THEN ~isBreakCode ELSE modifiersDown
             /\ isBreakCode' = FALSE
             /\ UNCHANGED ringRead
    <2>1. event \in Event
      BY <1>3, Zenon DEF KeysInv, Event
    <2> HIDE DEF event
    <2>2. ring' \in [0..(RingSize - 1) -> Event]
      BY <1>3, <2>1, Zenon DEF KeysInv
    <2>3. ringWrite' \in 0..(RingSize - 1)
      BY <1>1, <1>3 DEF KeysInv, RingNext
    <2>4. modifiersDown' \in BOOLEAN /\ isBreakCode' \in BOOLEAN /\ overrun' \in BOOLEAN
      BY <1>3, Zenon DEF KeysInv
    <2>5. ASSUME ~overrun' PROVE Holds(ring', ringRead', ringWrite', RingSize, arrived')
      <3>1. ~overrun /\ Len(arrived) + 1 # RingSize
        BY <1>3, <2>5, Zenon
      <3>2. Holds(ring, ringRead, ringWrite, RingSize, arrived)
        BY <3>1, Zenon DEF KeysInv
      <3>3. Len(arrived) + 1 < RingSize
        BY <1>1, <3>1, <3>2 DEF Holds
      <3>4. Spot(ringWrite, 2, RingSize) = RingNext(ringWrite)
        <4>1. 2 \in 1..RingSize /\ ringWrite \in 0..(RingSize - 1)
          BY <1>1, <3>2, <3>3 DEF Holds, KeysInv
        <4>2. Spot(ringWrite, 2, RingSize) =
                 IF ringWrite + 2 - 1 < RingSize THEN ringWrite + 2 - 1 ELSE ringWrite + 2 - 1 - RingSize
          BY <1>1, <4>1, SpotIs, Zenon
        <4>3. QED BY <1>1, <4>1, <4>2 DEF RingNext
      <3>5. Holds([ring EXCEPT ![ringWrite] = event], ringRead, Spot(ringWrite, 2, RingSize), RingSize,
                  Append(arrived, event))
        BY <1>1, <2>1, <3>2, <3>3, PutHeld, Zenon DEF KeysInv
      <3>6. QED BY <1>3, <3>4, <3>5, Zenon
    <2>6. ~overrun' => Holds(queue', queueRead', queueWrite', QueueSize, queued')
      BY <1>1, <1>3, Zenon DEF KeysInv
    <2>7. QED BY <1>1, <1>3, <2>2, <2>3, <2>4, <2>5, <2>6, Zenon DEF KeysInv
  <1>4. QED BY <1>2, <1>3, Zenon DEF KeyIRQ

\* The task queues events.
LEMMA NoAttentionSeq ==
  ASSUME KeysInv
  PROVE  NoAttention \in Seq(Event)
  <1>1. /\ RingSize \in Nat \ {0} /\ ringRead \in 0..(RingSize - 1) /\ ringWrite \in 0..(RingSize - 1)
        /\ ring \in [0..(RingSize - 1) -> Event]
    BY KeyboardAssumption, Zenon DEF KeysInv
  <1>2. \A a \in Nat : a % RingSize \in 0..(RingSize - 1)
    BY <1>1
  <1>3. RingCount \in Nat
    <2>1. ringWrite - ringRead + RingSize \in Nat
      BY <1>1
    <2>2. (ringWrite - ringRead + RingSize) % RingSize \in 0..(RingSize - 1)
      BY <1>2, <2>1, Zenon
    <2>3. QED BY <1>1, <2>2 DEF RingCount
  <1>4. \A i \in 1..RingCount : InRing[i] \in Event
    <2> SUFFICES ASSUME NEW i \in 1..RingCount PROVE InRing[i] \in Event
      BY Zenon
    <2>1. PICK a \in Nat : a = ringRead + i - 1
      BY <1>1, <1>3
    <2>2. ring[a % RingSize] \in Event
      BY <1>1, <1>2, Zenon
    <2>3. InRing[i] = ring[(ringRead + i - 1) % RingSize]
      BY Zenon DEF InRing
    <2>4. QED BY <2>1, <2>2, <2>3, Zenon
  <1>5. PICK keep : keep = {i \in 1..RingCount : ~IsAttention(InRing[i])}
    BY Zenon
  <1>6. keep \in SUBSET (1..RingCount)
    BY <1>5, Zenon
  <1>7. Selected(InRing, keep) \in Seq(Event)
    BY <1>3, <1>4, <1>6, SelectedSeq, Zenon
  <1>8. QED BY <1>5, <1>7, Zenon DEF NoAttention

\* Where the task puts them.
LEMMA StoredPlaces ==
  ASSUME NEW more, Len(more) \in Nat
  PROVE  /\ DOMAIN Stored(more) = DOMAIN queue
         /\ Placed(Stored(more), queue, queueWrite, QueueSize, more)
  <1>1. DOMAIN Stored(more) = DOMAIN queue
    BY Zenon DEF Stored
  <1>2. ASSUME NEW i \in DOMAIN queue, \A k \in 1..Len(more) : Spot(queueWrite, k, QueueSize) # i
        PROVE  Stored(more)[i] = queue[i]
    <2>1. {k \in 1..Len(more) : (queueWrite + k - 1) % QueueSize = i} = {}
      BY <1>2, Zenon DEF Spot
    <2>2. QED BY <2>1, Zenon DEF Stored
  <1>3. ASSUME NEW i \in DOMAIN queue, NEW k \in 1..Len(more),
               \A j \in 1..Len(more) : Spot(queueWrite, j, QueueSize) = i <=> j = k
        PROVE  Stored(more)[i] = more[k]
    <2> DEFINE at == {j \in 1..Len(more) : (queueWrite + j - 1) % QueueSize = i}
    <2>1. at = {k}
      BY <1>3, Zenon DEF Spot
    <2>2. Stored(more)[i] = IF at = {} THEN queue[i]
                            ELSE more[CHOOSE m \in at : \A j \in at : j <= m]
      BY Zenon DEF Stored
    <2>3. k <= k
      OBVIOUS
    <2> HIDE DEF at
    <2>4. (CHOOSE m \in at : \A j \in at : j <= m) = k
      BY <2>1, <2>3, Zenon
    <2>5. QED BY <2>1, <2>2, <2>4, Zenon
  <1>4. QED BY <1>1, <1>2, <1>3, Zenon DEF Placed

LEMMA DrainInOrder ==
  ASSUME KeysInv, Drain
  PROVE  KeysInv'
  <1>1. PICK more : more = NoAttention /\ more \in Seq(Event)
    BY NoAttentionSeq, Zenon
  <1>2. /\ ringRead' = ringWrite /\ arrived' = <<>> /\ queue' = Stored(more)
        /\ queueWrite' = (queueWrite + Len(more)) % QueueSize
        /\ queued' = queued \o more
        /\ overrun' = (overrun \/ Len(queued) + Len(more) >= QueueSize)
        /\ UNCHANGED <<isBreakCode, modifiersDown, ring, ringWrite, queueRead>>
    BY <1>1, Zenon DEF Drain
  <1>3. Len(more) \in Nat /\ RingSize \in Nat \ {0} /\ QueueSize \in Nat \ {0}
    BY <1>1, KeyboardAssumption
  <1>4. DOMAIN queue' = DOMAIN queue /\ Placed(queue', queue, queueWrite, QueueSize, more)
    BY <1>2, <1>3, StoredPlaces, Zenon
  <1>5. Holds(ring', ringRead', ringWrite', RingSize, arrived')
    BY <1>2, <1>3, EmptyHeld, Zenon DEF KeysInv
  <1>6. ASSUME ~overrun' PROVE Holds(queue', queueRead', queueWrite', QueueSize, queued')
    <2>1. ~overrun /\ ~(Len(queued) + Len(more) >= QueueSize)
      BY <1>2, <1>6, Zenon
    <2>2. Holds(queue, queueRead, queueWrite, QueueSize, queued)
      BY <2>1, Zenon DEF KeysInv
    <2>3. Len(queued) \in Nat /\ queueWrite \in 0..(QueueSize - 1)
      <3>1. queued \in Seq(Event) /\ Len(queued) \in Nat /\ Len(queued) + 1 \in 1..QueueSize
        BY <1>3, <2>2 DEF Holds
      <3>2. queueWrite = Spot(queueRead, Len(queued) + 1, QueueSize)
        BY <2>2, Zenon DEF Holds
      <3>3. queueRead \in 0..(QueueSize - 1)
        BY Zenon DEF KeysInv
      <3>4. QED BY <1>3, <3>1, <3>2, <3>3, SpotIs, Zenon
    <2>4. Len(queued) + Len(more) < QueueSize
      BY <1>3, <2>1, <2>3
    <2>5. Holds(queue', queueRead, Spot(queueWrite, Len(more) + 1, QueueSize), QueueSize, queued \o more)
      BY <1>1, <1>3, <1>4, <2>2, <2>4, StoreHeld, Zenon DEF KeysInv
    <2>6. Spot(queueWrite, Len(more) + 1, QueueSize) = (queueWrite + Len(more)) % QueueSize
      <3>1. queueWrite + (Len(more) + 1) - 1 = queueWrite + Len(more)
        BY <1>3, <2>3
      <3>2. QED BY <3>1, Zenon DEF Spot
    <2>7. QED BY <1>2, <2>5, <2>6, Zenon
  <1>7. overrun' \in BOOLEAN
    BY <1>2, Zenon
  <1>8. QED BY <1>2, <1>4, <1>5, <1>6, <1>7, Zenon DEF KeysInv

\* A reader takes the oldest event of the queue.
LEMMA ReadKeyInOrder ==
  ASSUME KeysInv, NEW p \in Reader, ReadKey(p),
         UNCHANGED <<isBreakCode, modifiersDown, ringVars, queue, queueWrite, arrived, overrun>>
  PROVE  KeysInv'
  <1>1. QueueSize \in Nat \ {0}
    BY KeyboardAssumption, Zenon
  <1>2. CASE UNCHANGED <<queueRead, queued>>
    BY <1>2, Zenon DEF KeysInv, ringVars
  <1>3. CASE /\ queueRead # queueWrite /\ queued' = Tail(queued)
             /\ queueRead' = (queueRead + 1) % QueueSize
    <2>1. queueRead' \in 0..(QueueSize - 1)
      BY <1>1, <1>3 DEF KeysInv
    <2>2. Spot(queueRead, 2, QueueSize) = queueRead'
      <3>1. queueRead + 2 - 1 = queueRead + 1
        BY <1>1 DEF KeysInv
      <3>2. QED BY <1>3, <3>1, Zenon DEF Spot
    <2>3. ASSUME ~overrun' PROVE Holds(queue', queueRead', queueWrite', QueueSize, queued')
      <3>1. Holds(queue, queueRead, queueWrite, QueueSize, queued) /\ queueRead \in 0..(QueueSize - 1)
        BY <2>3, Zenon DEF KeysInv
      <3>2. Holds(queue, Spot(queueRead, 2, QueueSize), queueWrite, QueueSize, Tail(queued))
        BY <1>1, <1>3, <3>1, TakeHeld, Zenon
      <3>3. QED BY <1>3, <2>2, <3>2, Zenon
    <2>4. QED BY <2>1, <2>3, Zenon DEF KeysInv, ringVars
  <1>4. QED BY <1>2, <1>3, Zenon DEF ReadKey

\* Every step keeps the order.
LEMMA KeysStep == KeysInv /\ [KeyNext]_keyVars => KeysInv'
  <1> SUFFICES ASSUME KeysInv, [KeyNext]_keyVars PROVE KeysInv'
    BY Zenon
  <1>1. ASSUME UNCHANGED <<isBreakCode, modifiersDown, ringVars, queueVars, arrived, queued, overrun>>
        PROVE  KeysInv'
    BY <1>1, Zenon DEF KeysInv, ringVars, queueVars
  <1>2. ASSUME NEW p \in Reader, ReadKeyEvent(p) PROVE KeysInv'
    <2>1. UNCHANGED <<isBreakCode, modifiersDown, ringVars, queue, queueWrite, arrived, overrun>>
      BY <1>2, Zenon DEF ReadKeyEvent
    <2>2. ReadKey(p) \/ UNCHANGED <<queueRead, queued>>
      BY <1>2, Zenon DEF ReadKeyEvent
    <2>3. QED BY <1>1, <2>1, <2>2, ReadKeyInOrder, Zenon DEF queueVars
  <1>3. ASSUME NEW p \in Reader, PopFg(p) \/ ExitReader(p) PROVE KeysInv'
    BY <1>1, <1>3, Zenon DEF PopFg, ExitReader
  <1>4. ASSUME NEW p \in Reader, NEW q \in Reader, PushFg(p, q) PROVE KeysInv'
    BY <1>1, <1>4, Zenon DEF PushFg
  <1>5. CASE Leave
    BY <1>1, <1>5, Zenon DEF Leave
  <1>6. CASE UNCHANGED keyVars
    BY <1>1, <1>6, Zenon DEF keyVars
  <1>7. QED
    BY <1>2, <1>3, <1>4, <1>5, <1>6, KeyIRQInOrder, DrainInOrder, Zenon DEF KeyNext

\* Events reach the readers in the order of their interrupts, none twice and none
\* lost, until a buffer is overrun: for any sizes of the ring and the queue and any
\* number of readers that come, go and are killed.
THEOREM KeysAlwaysInOrder == KeySpec => []KeysInOrder
  <1>1. KeysInv => KeysInOrder
    <2> SUFFICES ASSUME KeysInv, ~overrun PROVE InRing = arrived /\ InQueue = queued
      BY Zenon DEF KeysInOrder
    <2>1. /\ RingSize \in Nat \ {0} /\ QueueSize \in Nat \ {0}
          /\ ringRead \in 0..(RingSize - 1) /\ queueRead \in 0..(QueueSize - 1)
          /\ Holds(ring, ringRead, ringWrite, RingSize, arrived)
          /\ Holds(queue, queueRead, queueWrite, QueueSize, queued)
      BY KeyboardAssumption, Zenon DEF KeysInv
    <2>2. InRing = arrived
      <3>1. [i \in 1..((ringWrite - ringRead + RingSize) % RingSize) |->
                ring[(ringRead + i - 1) % RingSize]] = arrived
        BY <2>1, HeldIsRead
      <3>2. QED BY <3>1, Zenon DEF InRing, RingCount
    <2>3. InQueue = queued
      BY <2>1, HeldIsRead DEF InQueue
    <2>4. QED BY <2>2, <2>3, Zenon
  <1>2. QED BY <1>1, KeysStart, KeysStep, PTL DEF KeySpec

(***************************************************************************)
(* Nobody sleeps on input that is there.  NoMissedInput is not inductive:  *)
(* what the sleeping task may miss came between its last look at the ring  *)
(* and its sleep, so the invariant covers the way to sleep as well.  A queue*)
(* that is overrun may look empty, but nobody waits on it then.            *)
(***************************************************************************)
InputInv ==
    /\ ringRead \in 0..(RingSize - 1) /\ ringWrite \in 0..(RingSize - 1)
    /\ queueRead \in 0..(QueueSize - 1)
    /\ reader \in [Reader -> {"idle", "fgwait", "keywait", "keyready", "dead"}]
    /\ \A p \in Reader : reader[p] = "keywait" => queueRead = queueWrite
    /\ \A p \in Reader : reader[p] = "fgwait" => ~InForeground(p)
    /\ task \in {"leaving", "asleep"} /\ ringRead # ringWrite => unseen
    /\ task \in {"drain", "leaving", "asleep"} /\ unseen \in BOOLEAN

\* A ring or queue whose two places are the same holds nothing.
LEMMA SamePlaceEmpty ==
    ASSUME InputInv
    PROVE  /\ ringRead = ringWrite => InRing = <<>>
           /\ queueRead = queueWrite => InQueue = <<>>
<1> USE KeyboardAssumption
<1>1. ASSUME NEW n \in Nat \ {0}, NEW i \in 0..(n - 1) PROVE (i - i + n) % n = 0
  BY <1>1
<1>2. ASSUME ringRead = ringWrite PROVE InRing = <<>>
  <2>1. RingCount = 0
    BY <1>1, <1>2, Zenon DEF RingCount, InputInv
  <2>2. QED
    BY <2>1 DEF InRing
<1>3. ASSUME queueRead = queueWrite PROVE InQueue = <<>>
  <2>1. (queueWrite - queueRead + QueueSize) % QueueSize = 0
    BY <1>1, <1>3, Zenon DEF InputInv
  <2>2. QED
    BY <2>1 DEF InQueue
<1>4. QED
  BY <1>2, <1>3, Zenon

\* Waking the waiters for the foreground leaves nobody in its queue, and those who
\* wait for keys where they are.
LEMMA ForegroundWakesAll ==
    ASSUME InputInv
    PROVE  /\ ForegroundWakes(reader) \in [Reader -> {"idle", "keywait", "keyready", "dead"}]
           /\ \A p \in Reader : ForegroundWakes(reader)[p] = "keywait" => reader[p] = "keywait"
BY Zenon DEF InputInv, ForegroundWakes

\* A process reads a key or goes to wait for one.
LEMMA ReadKeyKeeps ==
    ASSUME InputInv, NEW p \in Reader, ReadKey(p),
           UNCHANGED <<ringVars, task, queueWrite, foreground, unseen>>
    PROVE  InputInv'
<1> USE KeyboardAssumption
<1>1. CASE queueRead = queueWrite
  BY <1>1, Zenon DEF InputInv, ReadKey, ringVars, InForeground
<1>2. CASE queueRead # queueWrite
  <2>1. queueRead' \in 0..(QueueSize - 1)
    BY <1>2 DEF InputInv, ReadKey
  <2>2. \A q \in Reader : reader'[q] # "keywait"
    BY <1>2, Zenon DEF InputInv, ReadKey
  <2>3. \A q \in Reader : reader'[q] = "fgwait" => reader[q] = "fgwait"
    BY <1>2, Zenon DEF InputInv, ReadKey
  <2>4. reader' \in [Reader -> {"idle", "fgwait", "keywait", "keyready", "dead"}]
    BY <1>2, Zenon DEF InputInv, ReadKey
  <2>5. QED
    BY <2>1, <2>2, <2>3, <2>4, Zenon DEF InputInv, ringVars, InForeground
<1>3. QED
  BY <1>1, <1>2, Zenon

\* The task empties the ring, and wakes the readers if it queued anything.
LEMMA DrainKeeps ==
    ASSUME InputInv, Drain
    PROVE  InputInv'
<1> USE KeyboardAssumption
<1> DEFINE events == NoAttention
<1>1. /\ ringRead' = ringWrite /\ ringWrite' = ringWrite /\ queueRead' = queueRead
      /\ queueWrite' = (queueWrite + Len(events)) % QueueSize
      /\ reader' = (IF events # <<>> THEN Woken ELSE reader)
      /\ foreground' = foreground /\ task' = "leaving" /\ unseen' = FALSE
  BY Zenon DEF Drain
<1> HIDE DEF events
<1>2. CASE events = <<>>
  <2>1. queueRead = queueWrite => queueWrite' = queueWrite
    BY <1>1, <1>2 DEF InputInv
  <2>2. QED
    BY <1>1, <1>2, <2>1, Zenon DEF InputInv, InForeground
<1>3. CASE events # <<>>
  BY <1>1, <1>3, Zenon DEF InputInv, InForeground, Woken
<1>4. QED
  BY <1>2, <1>3, Zenon

\* Every step keeps the invariant.
LEMMA InputStep ==
    ASSUME InputInv, [KeyNext]_keyVars
    PROVE  InputInv'
<1> USE KeyboardAssumption
<1>1. ASSUME NEW b \in Key \cup {Break}, KeyIRQ(b) PROVE InputInv'
  <2>1. UNCHANGED <<queueRead, queueWrite, foreground, reader, ringRead>>
    BY <1>1, Zenon DEF KeyIRQ, queueVars, readerVars, ringVars
  <2>2. ringWrite' \in 0..(RingSize - 1)
    BY <1>1 DEF KeyIRQ, InputInv, RingNext, ringVars
  <2>3. \/ UNCHANGED <<ringWrite, task, unseen>>
        \/ /\ task' = (IF task = "asleep" THEN "drain" ELSE task)
           /\ unseen' = (unseen \/ task = "leaving")
    BY <1>1, Zenon DEF KeyIRQ, ringVars
  <2>4. unseen' \in BOOLEAN /\ task' \in {"drain", "leaving", "asleep"}
    BY <2>3, Zenon DEF InputInv
  <2>5. task' \in {"leaving", "asleep"} /\ ringRead' # ringWrite' => unseen'
    BY <2>1, <2>3, <2>4, Zenon DEF InputInv
  <2>6. QED
    BY <2>1, <2>2, <2>4, <2>5, Zenon DEF InputInv, InForeground
<1>2. CASE Drain
  BY <1>2, DrainKeeps, Zenon
<1>3. CASE Leave
  BY <1>3, Zenon DEF Leave, InputInv, InForeground, ringVars, queueVars, readerVars
<1>4. ASSUME NEW p \in Reader, ReadKeyEvent(p) PROVE InputInv'
  <2>1. UNCHANGED <<ringVars, task, queueWrite, foreground, unseen>>
    BY <1>4, Zenon DEF ReadKeyEvent
  <2>2. CASE ReadKey(p)
    BY <2>1, <2>2, ReadKeyKeeps, Zenon
  <2>3. CASE /\ reader[p] = "idle" /\ ~InForeground(p)
             /\ reader' = [reader EXCEPT ![p] = "fgwait"] /\ UNCHANGED queueRead
    BY <2>1, <2>3, Zenon DEF InputInv, InForeground, ringVars
  <2>4. QED
    BY <1>4, <2>2, <2>3, Zenon DEF ReadKeyEvent
<1>5. ASSUME UNCHANGED <<ringVars, task, queueVars, unseen>>,
             reader' \in [Reader -> {"idle", "keywait", "keyready", "dead"}],
             \A p \in Reader : reader'[p] = "keywait" => reader[p] = "keywait"
      PROVE  InputInv'
  BY <1>5, Zenon DEF InputInv, ringVars, queueVars
<1>6. ASSUME NEW p \in Reader, PopFg(p) PROVE InputInv'
  BY <1>5, <1>6, ForegroundWakesAll, Zenon DEF PopFg
<1>7. ASSUME NEW p \in Reader, ExitReader(p) PROVE InputInv'
  BY <1>5, <1>7, ForegroundWakesAll, Zenon DEF ExitReader
<1>8. ASSUME NEW p \in Reader, NEW q \in Reader, PushFg(p, q) PROVE InputInv'
  BY <1>5, <1>8, ForegroundWakesAll, Zenon DEF PushFg
<1>9. CASE UNCHANGED keyVars
  BY <1>9, Zenon DEF keyVars, InputInv, InForeground, ringVars, queueVars, readerVars
<1>10. QED
  BY <1>1, <1>2, <1>3, <1>4, <1>6, <1>7, <1>8, <1>9, Zenon DEF KeyNext

\* A process that waits for keys has none to read, one that waits for the
\* foreground is not in it, and the task sleeps on events only if an interrupt came
\* while it went to wait.
THEOREM InputNeverMissed == KeySpec => []NoMissedInput
<1>1. KeyInit => InputInv
  <2> SUFFICES ASSUME KeyInit PROVE InputInv
    BY Zenon
  <2>1. /\ reader \in [Reader -> {"idle", "fgwait", "keywait", "keyready", "dead"}]
        /\ \A p \in Reader : reader[p] = "idle"
    BY Zenon DEF KeyInit
  <2>2. /\ ringRead = ringWrite /\ ringRead \in 0..(RingSize - 1)
        /\ queueRead \in 0..(QueueSize - 1)
        /\ task = "drain" /\ unseen = FALSE
    BY KeyboardAssumption DEF KeyInit
  <2>3. QED
    BY <2>1, <2>2, Zenon DEF InputInv
<1>2. InputInv => NoMissedInput
  <2> SUFFICES ASSUME InputInv PROVE NoMissedInput
    BY Zenon
  <2>1. \A p \in Reader : reader[p] = "keywait" => InQueue = <<>>
    BY SamePlaceEmpty, Zenon DEF InputInv
  <2>2. \A p \in Reader : reader[p] = "fgwait" => ~InForeground(p)
    BY Zenon DEF InputInv
  <2>3. task = "asleep" /\ InRing # <<>> => unseen
    BY SamePlaceEmpty, Zenon DEF InputInv
  <2>4. QED
    BY <2>1, <2>2, <2>3, Zenon DEF NoMissedInput
<1>3. QED
  BY <1>1, <1>2, InputStep, PTL DEF KeySpec

(***************************************************************************)
(* The line a terminal hands to a reader.  InputAsTyped is not inductive:  *)
(* it needs that the buffer between the indices is what was typed, and in  *)
(* which mode there is something to hand out.                              *)
(***************************************************************************)
\* What the buffer may hold: a key, a control character, or nothing yet.
Char == TypedKey \cup {"control", "none"}
Mode == {"READ_FROM_IRQ", "CONSUME_BUFFER", "ONLY_EOF"}

InputState == [b : [0..(BufSize - 1) -> Char], w : 0..BufSize, r : 0..BufSize, mode : Mode,
               p : Seq(Char), erased : BOOLEAN, refused : BOOLEAN, spent : BOOLEAN]

\* The characters between the indices are the ones that were typed.
Matches(s) ==
    /\ s.r <= s.w /\ Len(s.p) = s.w - s.r
    /\ \A i \in 1..Len(s.p) : s.p[i] = s.b[s.r + i - 1]

\* Until a call takes the last byte there is, keys go into a buffer read from its
\* start, and there is something to hand out in a buffer that is handed out.
Sane(s) ==
    /\ s \in InputState
    /\ s.erased \/ s.refused => s.spent
    /\ ~s.erased => Matches(s)
    /\ ~s.spent => /\ s.mode = "READ_FROM_IRQ" => s.r = 0
                   /\ s.mode = "CONSUME_BUFFER" => s.r < s.w

\* A key changes the buffer only while read waits for one.
LineInv ==
    /\ Sane(Input)
    /\ want \in Nat
    /\ want > 0 => mMode = "READ_FROM_IRQ"

\* A character is put behind the others.
LEMMA AppendFields ==
  ASSUME NEW s \in InputState, NEW c \in Char, s.w # BufSize
  PROVE  /\ AppendOne(s, c) \in InputState
         /\ AppendOne(s, c).b = [s.b EXCEPT ![s.w] = c]
         /\ AppendOne(s, c).w = s.w + 1 /\ AppendOne(s, c).r = s.r
         /\ AppendOne(s, c).p = Append(s.p, c)
         /\ AppendOne(s, c).mode = s.mode /\ AppendOne(s, c).spent = s.spent
         /\ AppendOne(s, c).erased = s.erased /\ AppendOne(s, c).refused = s.refused
  <1>1. /\ s.w + 1 \in 0..BufSize /\ s.w \in 0..(BufSize - 1)
        /\ [s.b EXCEPT ![s.w] = c] \in [0..(BufSize - 1) -> Char] /\ Append(s.p, c) \in Seq(Char)
    BY TTYFileAssumption DEF InputState
  <1>2. AppendOne(s, c) = [s EXCEPT !.b = [s.b EXCEPT ![s.w] = c], !.w = s.w + 1, !.p = Append(s.p, c)]
    BY Zenon DEF AppendOne, InputState
  <1>3. QED BY <1>1, <1>2, Zenon DEF InputState

LEMMA AppendKeeps ==
  ASSUME NEW s, Sane(s), s.mode = "READ_FROM_IRQ", NEW c \in Char
  PROVE  /\ Sane(AppendOne(s, c)) /\ AppendOne(s, c).mode = "READ_FROM_IRQ"
         /\ AppendOne(s, c).w > 0
  <1> DEFINE t == AppendOne(s, c)
  <1>0. /\ s \in InputState /\ s.w \in 0..BufSize /\ s.r \in 0..BufSize /\ s.p \in Seq(Char)
        /\ BufSize \in Nat /\ BufSize > 0 /\ Len(s.p) \in Nat
        /\ s.erased \in BOOLEAN /\ s.refused \in BOOLEAN /\ s.spent \in BOOLEAN
    BY TTYFileAssumption DEF Sane, InputState
  <1>1. CASE s.w = BufSize
    <2>1. t = [s EXCEPT !.refused = s.refused \/ Len(s.p) < BufSize]
      BY <1>1, Zenon DEF AppendOne, Sane, InputState
    <2>2. /\ t \in InputState /\ t.refused = (s.refused \/ Len(s.p) < BufSize)
          /\ t.b = s.b /\ t.w = s.w /\ t.r = s.r /\ t.p = s.p /\ t.mode = s.mode
          /\ t.erased = s.erased /\ t.spent = s.spent
      BY <1>0, <2>1, Zenon DEF InputState
    <2> HIDE DEF t
    <2>3. ~s.spent => ~t.refused
      <3>1. ASSUME ~s.spent PROVE Len(s.p) = BufSize /\ ~s.refused
        BY <1>0, <1>1, <3>1 DEF Sane, Matches
      <3>2. QED BY <1>0, <2>2, <3>1
    <2>4. ~t.erased => Matches(t)
      BY <2>2, Zenon DEF Sane, Matches
    <2>5. ~t.spent => t.r = 0
      BY <2>2, Zenon DEF Sane
    <2>6. t.erased => t.spent
      BY <2>2, Zenon DEF Sane
    <2>7. t.mode = "READ_FROM_IRQ" /\ t.w > 0
      BY <1>0, <1>1, <2>2, Zenon
    <2>8. "READ_FROM_IRQ" # "CONSUME_BUFFER"
      BY Zenon
    <2>9. Sane(t)
      BY <2>2, <2>3, <2>4, <2>5, <2>6, <2>7, <2>8, Zenon DEF Sane
    <2>10. QED BY <2>7, <2>9, Zenon DEF t
  <1>2. CASE s.w # BufSize
    <2>1. /\ t \in InputState
          /\ t.b = [s.b EXCEPT ![s.w] = c] /\ t.w = s.w + 1 /\ t.r = s.r
          /\ t.p = Append(s.p, c) /\ t.mode = s.mode /\ t.spent = s.spent
          /\ t.erased = s.erased /\ t.refused = s.refused
      BY <1>0, <1>2, AppendFields, Zenon
    <2> HIDE DEF t
    <2>2. ASSUME ~t.erased PROVE Matches(t)
      <3>1. Matches(s)
        BY <2>1, <2>2, Zenon DEF Sane
      <3>2. t.r <= t.w /\ Len(t.p) = t.w - t.r /\ Len(t.p) = Len(s.p) + 1
        BY <1>0, <2>1, <3>1 DEF Matches
      <3>5. /\ \A j \in 1..Len(s.p) : t.p[j] = s.p[j]
            /\ t.p[Len(s.p) + 1] = c
            /\ s.r <= s.w /\ Len(s.p) = s.w - s.r
        BY <1>0, <2>1, <3>1 DEF Matches
      <3>3. ASSUME NEW i \in 1..Len(t.p) PROVE t.p[i] = t.b[t.r + i - 1]
        <4>1. CASE i = Len(t.p)
          <5>1. t.p[i] = c /\ t.r + i - 1 = s.w
            BY <1>0, <2>1, <3>5, <3>2, <4>1
          <5>2. t.b[s.w] = c
            BY <1>0, <1>2, <2>1 DEF InputState
          <5>3. QED BY <5>1, <5>2, Zenon
        <4>2. CASE i # Len(t.p)
          <5>1. i \in 1..Len(s.p)
            BY <1>0, <3>2, <4>2
          <5>2. s.r + i - 1 \in 0..(BufSize - 1) /\ s.r + i - 1 # s.w
            <6>1. /\ s.r \in Nat /\ s.w \in Nat /\ s.w <= BufSize /\ s.r <= s.w
                  /\ Len(s.p) \in Nat /\ Len(s.p) = s.w - s.r
              BY <1>0, <3>5
            <6>2. PICK r \in Nat : r = s.r
              BY <6>1, Zenon
            <6>3. PICK w \in Nat : w = s.w
              BY <6>1, Zenon
            <6>4. PICK l \in Nat : l = Len(s.p)
              BY <6>1, Zenon
            <6>5. i \in 1..l /\ BufSize \in Nat /\ w <= BufSize /\ r <= w /\ l = w - r
              BY <1>0, <5>1, <6>1, <6>2, <6>3, <6>4, Zenon
            <6>6. r + i - 1 \in 0..(BufSize - 1) /\ r + i - 1 # w
              BY ONLY <6>5, SMT
            <6>7. QED BY <6>2, <6>3, <6>6, Zenon
          <5>3. t.b[s.r + i - 1] = s.b[s.r + i - 1]
            BY <1>0, <2>1, <5>2, Zenon DEF InputState
          <5>4. QED BY <2>1, <3>1, <3>5, <5>1, <5>3, Zenon DEF Matches
        <4>3. QED BY <4>1, <4>2, Zenon
      <3>4. QED BY <3>2, <3>3, Zenon DEF Matches
    <2>3. (t.erased \/ t.refused => t.spent) /\ (~t.spent => t.r = 0)
      BY <2>1, Zenon DEF Sane
    <2>4. t.mode = "READ_FROM_IRQ" /\ t.w > 0
      BY <1>0, <2>1
    <2>5. "READ_FROM_IRQ" # "CONSUME_BUFFER"
      BY Zenon
    <2>6. Sane(t)
      BY <2>1, <2>2, <2>3, <2>4, <2>5, Zenon DEF Sane
    <2>7. QED BY <2>4, <2>6, Zenon DEF t
  <1>3. QED BY <1>1, <1>2, Zenon

\* A character is taken back.
LEMMA UndoKeeps ==
  ASSUME NEW s, Sane(s), s.mode = "READ_FROM_IRQ"
  PROVE  Sane(UndoAppend(s)) /\ UndoAppend(s).mode = "READ_FROM_IRQ"
  <1> DEFINE t == UndoAppend(s)
  <1>1. /\ s \in InputState /\ s.w \in 0..BufSize /\ s.r \in 0..BufSize /\ s.p \in Seq(Char)
        /\ BufSize \in Nat /\ Len(s.p) \in Nat
        /\ s.erased \in BOOLEAN /\ s.refused \in BOOLEAN /\ s.spent \in BOOLEAN
    BY TTYFileAssumption DEF Sane, InputState
  <1>2. CASE s.w = 0
    BY <1>2, Zenon DEF UndoAppend
  <1>3. CASE s.w # 0
    <2> DEFINE left == IF s.p = <<>> THEN s.p ELSE SubSeq(s.p, 1, Len(s.p) - 1)
    <2>1. left \in Seq(Char) /\ s.w - 1 \in 0..BufSize
      BY <1>1, <1>3
    <2>2. t = [s EXCEPT !.w = s.w - 1, !.p = left, !.erased = s.erased \/ s.p = <<>>]
      BY <1>1, <1>3, Zenon DEF UndoAppend, InputState
    <2> HIDE DEF left
    <2>3. /\ t \in InputState
          /\ t.b = s.b /\ t.w = s.w - 1 /\ t.r = s.r /\ t.p = left /\ t.mode = s.mode
          /\ t.erased = (s.erased \/ s.p = <<>>) /\ t.refused = s.refused /\ t.spent = s.spent
      BY <1>1, <2>1, <2>2, Zenon DEF InputState
    <2> HIDE DEF t
    <2>4. ~s.spent => ~t.erased
      <3>1. ASSUME ~s.spent PROVE ~s.erased /\ Len(s.p) = s.w
        BY <1>1, <3>1 DEF Sane, Matches
      <3>2. ~s.spent => s.p # <<>>
        BY <1>1, <1>3, <3>1, Zenon
      <3>3. QED BY <2>3, <3>1, <3>2, Zenon
    <2>5. ASSUME ~t.erased PROVE Matches(t)
      <3>1. Matches(s) /\ s.p # <<>>
        BY <2>3, <2>5, Zenon DEF Sane
      <3>2. /\ Len(s.p) > 0 /\ left = SubSeq(s.p, 1, Len(s.p) - 1) /\ Len(s.p) - 1 \in Nat
        BY <1>1, <3>1 DEF left
      <3>3. /\ Len(left) = Len(s.p) - 1
            /\ \A i \in 1..(Len(s.p) - 1) : left[i] = s.p[i]
        BY <1>1, <3>2
      <3>4. t.r <= t.w /\ Len(t.p) = t.w - t.r
        BY <1>1, <2>3, <3>1, <3>2, <3>3 DEF Matches
      <3>5. ASSUME NEW i \in 1..Len(t.p) PROVE t.p[i] = t.b[t.r + i - 1]
        <4>1. i \in 1..(Len(s.p) - 1) /\ i \in 1..Len(s.p)
          BY <1>1, <2>3, <3>3
        <4>2. QED BY <2>3, <3>1, <3>3, <4>1, Zenon DEF Matches
      <3>6. QED BY <3>4, <3>5, Zenon DEF Matches
    <2>6. t.refused => t.spent
      BY <2>3, Zenon DEF Sane
    <2>7. t.erased => t.spent
      BY <2>3, <2>4, Zenon DEF Sane
    <2>8. (~t.spent => t.r = 0) /\ t.mode = "READ_FROM_IRQ" /\ t.mode # "CONSUME_BUFFER"
      BY <2>3, Zenon DEF Sane
    <2>9. Sane(t)
      BY <2>3, <2>5, <2>6, <2>7, <2>8, Zenon DEF Sane
    <2>10. QED BY <2>8, <2>9, Zenon DEF t
  <1>4. QED BY <1>2, <1>3, Zenon

\* The buffer is handed out once there is something in it.
LEMMA ConsumeKeeps ==
  ASSUME NEW s, Sane(s), s.mode = "READ_FROM_IRQ", s.w > 0
  PROVE  Sane(Consume(s)) /\ Consume(s).mode = "CONSUME_BUFFER"
  <1> DEFINE t == Consume(s)
  <1>1. s \in InputState /\ s.w \in 0..BufSize /\ BufSize \in Nat
    BY TTYFileAssumption, Zenon DEF Sane, InputState
  <1>2. /\ t \in InputState
        /\ t.b = s.b /\ t.w = s.w /\ t.r = s.r /\ t.p = s.p /\ t.mode = "CONSUME_BUFFER"
        /\ t.erased = s.erased /\ t.refused = s.refused /\ t.spent = s.spent
    BY <1>1, Zenon DEF InputState, Consume, Mode
  <1> HIDE DEF t
  <1>3. ~t.erased => Matches(t)
    BY <1>2, Zenon DEF Sane, Matches
  <1>4. ASSUME ~t.spent PROVE t.r < t.w
    BY <1>1, <1>2, <1>4, Zenon DEF Sane
  <1>5. t.mode # "READ_FROM_IRQ"
    BY <1>2, Zenon
  <1>6. t.erased \/ t.refused => t.spent
    BY <1>2, Zenon DEF Sane
  <1>7. Sane(t)
    BY <1>2, <1>3, <1>4, <1>5, <1>6, Zenon DEF Sane
  <1>8. QED BY <1>2, <1>7, Zenon DEF t

\* What a key does in either discipline.
LEMMA KeyKeeps ==
  ASSUME NEW s, Sane(s), s.mode = "READ_FROM_IRQ", NEW k \in TypedKey
  PROVE  /\ Sane(Canonical(s, k)) /\ Canonical(s, k).mode \in {"READ_FROM_IRQ", "CONSUME_BUFFER"}
         /\ Sane(Raw(s, k)) /\ Raw(s, k).mode \in {"READ_FROM_IRQ", "CONSUME_BUFFER"}
  <1>1. k \in Char /\ "control" \in Char
    BY Zenon DEF Char
  <1>2. /\ Sane(AppendOne(s, k)) /\ AppendOne(s, k).mode = "READ_FROM_IRQ"
        /\ Sane(Consume(AppendOne(s, k))) /\ Consume(AppendOne(s, k)).mode = "CONSUME_BUFFER"
    BY <1>1, AppendKeeps, ConsumeKeeps, Zenon
  <1>3. Sane(UndoAppend(s)) /\ UndoAppend(s).mode = "READ_FROM_IRQ"
    BY UndoKeeps, Zenon
  <1>4. Canonical(s, k) \in {UndoAppend(s), Consume(AppendOne(s, k)), s, AppendOne(s, k)}
    BY Zenon DEF Canonical
  <1>5. ASSUME NEW c \in {k, "control"}
        PROVE  Sane(Consume(AppendOne(s, c))) /\ Consume(AppendOne(s, c)).mode = "CONSUME_BUFFER"
    BY <1>1, AppendKeeps, ConsumeKeeps, Zenon
  <1>6. /\ Sane(Consume(AppendOne(AppendOne(AppendOne(s, k), k), k)))
        /\ Consume(AppendOne(AppendOne(AppendOne(s, k), k), k)).mode = "CONSUME_BUFFER"
    <2>1. Sane(AppendOne(AppendOne(s, k), k)) /\ AppendOne(AppendOne(s, k), k).mode = "READ_FROM_IRQ"
      BY <1>1, <1>2, AppendKeeps, Zenon
    <2>2. QED BY <1>1, <2>1, AppendKeeps, ConsumeKeeps, Zenon
  <1>7. Raw(s, k) \in {Consume(AppendOne(AppendOne(AppendOne(s, k), k), k)),
                       Consume(AppendOne(s, k)), Consume(AppendOne(s, "control"))}
    BY Zenon DEF Raw
  <1>8. QED BY <1>2, <1>3, <1>4, <1>5, <1>6, <1>7, Zenon

\* An end of file is next after what read may take.
AtMark(s) ==
    /\ s.r + Available(s) < BufSize /\ s.b[s.r + Available(s)] = "eof"
    /\ s.r + Available(s) # s.w

\* What read may take is inside of the buffer, and in front of the write index;
\* it is everything, or an end of file is next.
LEMMA AvailableInside ==
  ASSUME NEW s \in InputState
  PROVE  /\ Available(s) \in Nat /\ s.r + Available(s) <= BufSize
         /\ s.r <= s.w => /\ s.r + Available(s) <= s.w
                          /\ AtMark(s) => s.r + Available(s) < s.w
                          /\ ~AtMark(s) => s.r + Available(s) = s.w
  <1> DEFINE marks == {i \in s.r..(BufSize - 1) : s.b[i] = "eof" /\ (i < s.w \/ s.w < s.r)}
             end == IF s.r <= s.w THEN s.w ELSE BufSize
             least == CHOOSE i \in marks : \A j \in marks : i <= j
  <1>1. s.r \in Nat /\ s.w \in Nat /\ BufSize \in Nat /\ s.r <= BufSize /\ s.w <= BufSize
    BY TTYFileAssumption DEF InputState
  <1>2. CASE marks = {}
    <2>1. Available(s) = end - s.r
      BY <1>2, Zenon DEF Available
    <2>2. QED BY <1>1, <2>1 DEF AtMark
  <1>3. CASE marks # {}
    <2>1. Available(s) = least - s.r
      BY <1>3, Zenon DEF Available
    <2>2. marks \in SUBSET Nat
      BY <1>1
    <2> HIDE DEF marks
    <2>3. least \in marks
      BY <1>3, <2>2, LeastNatural, Zenon
    <2> HIDE DEF least
    <2>4. /\ least \in Nat /\ s.r <= least /\ least < BufSize
          /\ s.b[least] = "eof" /\ (least < s.w \/ s.w < s.r)
      <3>1. PICK i \in marks : i = least
        BY <2>3, Zenon
      <3>2. i \in s.r..(BufSize - 1) /\ s.b[i] = "eof" /\ (i < s.w \/ s.w < s.r)
        BY <3>1, Zenon DEF marks
      <3>3. i \in Nat /\ s.r <= i /\ i < BufSize
        BY <1>1, <3>2
      <3>4. QED BY <3>1, <3>2, <3>3, Zenon
    <2>5. s.r + Available(s) = least
      BY <1>1, <2>1, <2>4
    <2>6. Available(s) \in Nat
      BY <1>1, <2>1, <2>4
    <2>7. s.r <= s.w => least < s.w
      BY <1>1, <2>4
    <2>8. AtMark(s) <=> least # s.w
      BY <2>4, <2>5, Zenon DEF AtMark
    <2>9. QED BY <1>1, <2>4, <2>5, <2>6, <2>7, <2>8
  <1>4. QED BY <1>2, <1>3, Zenon

\* Handing out k of the characters.
Taken(s, k) == [s EXCEPT !.r = s.r + k, !.p = Drop(k, s.p)]

LEMMA TakenFields ==
  ASSUME NEW s \in InputState, NEW k \in Nat, s.r + k <= BufSize
  PROVE  /\ Taken(s, k) \in InputState
         /\ Taken(s, k).b = s.b /\ Taken(s, k).w = s.w /\ Taken(s, k).r = s.r + k
         /\ Taken(s, k).p = Drop(k, s.p) /\ Taken(s, k).mode = s.mode
         /\ Taken(s, k).erased = s.erased /\ Taken(s, k).refused = s.refused
         /\ Taken(s, k).spent = s.spent
  <1>1. s.r + k \in 0..BufSize /\ s.p \in Seq(Char) /\ Len(s.p) \in Nat
    BY TTYFileAssumption DEF InputState
  <1>2. Drop(k, s.p) \in Seq(Char)
    BY <1>1 DEF Drop
  <1>3. QED BY <1>1, <1>2, Zenon DEF Taken, InputState

\* What is left is what was typed after it.
LEMMA TakenMatches ==
  ASSUME NEW s \in InputState, NEW k \in Nat, Matches(s), s.r + k <= s.w,
         NEW t \in InputState, t.b = s.b, t.w = s.w, t.r = s.r + k, t.p = Drop(k, s.p)
  PROVE  Matches(t)
  <1>1. /\ s.p \in Seq(Char) /\ Len(s.p) \in Nat /\ s.r \in Nat /\ s.w \in Nat
        /\ s.w - s.r = Len(s.p) /\ s.r <= s.w
    BY TTYFileAssumption DEF InputState, Matches
  <1>2. k <= Len(s.p)
    BY <1>1
  <1>3. Len(Drop(k, s.p)) = Len(s.p) - k /\ \A i \in 1..(Len(s.p) - k) : Drop(k, s.p)[i] = s.p[i + k]
    BY <1>1, <1>2 DEF Drop
  <1>4. t.r <= t.w /\ Len(t.p) = t.w - t.r
    BY <1>1, <1>3
  <1>5. ASSUME NEW i \in 1..Len(t.p) PROVE t.p[i] = t.b[t.r + i - 1]
    <2>1. i \in 1..(Len(s.p) - k) /\ i + k \in 1..Len(s.p) /\ s.r + (i + k) - 1 = t.r + i - 1
      BY <1>1, <1>3
    <2>2. s.p[i + k] = s.b[s.r + (i + k) - 1]
      BY <2>1, Zenon DEF Matches
    <2>3. QED BY <1>3, <2>1, <2>2, Zenon
  <1>6. QED BY <1>4, <1>5, Zenon DEF Matches

\* How a call of read ends.
LEMMA HandOutCases ==
  ASSUME NEW s \in InputState, NEW n \in Nat, n > 0
  PROVE  \/ /\ Available(s) >= n /\ HandOut(s, n).done
            /\ HandOut(s, n).in =
                  [Taken(s, n) EXCEPT !.spent = @ \/ (Available(s) = n /\ ~AtMark(s))]
         \/ /\ Available(s) < n /\ Available(s) > 0 /\ AtMark(s) /\ HandOut(s, n).done
            /\ HandOut(s, n).in = Taken(s, Available(s))
         \/ /\ Available(s) = 0 /\ AtMark(s) /\ HandOut(s, n).done
            /\ HandOut(s, n).in = [Taken(s, 1) EXCEPT !.mode = "ONLY_EOF"]
         \/ /\ Available(s) < n /\ Available(s) > 0 /\ ~AtMark(s) /\ HandOut(s, n).done
            /\ HandOut(s, n).in = [Clear(Taken(s, Available(s))) EXCEPT !.mode = "READ_FROM_IRQ"]
         \/ /\ Available(s) = 0 /\ ~AtMark(s)
            /\ HandOut(s, n).in = [s EXCEPT !.mode = "READ_FROM_IRQ"]
            /\ ~HandOut(s, n).done
  <1>1. Available(s) \in Nat
    BY AvailableInside, Zenon
  <1>2. PICK a \in Nat, atEOF \in BOOLEAN : a = Available(s) /\ atEOF = AtMark(s)
    BY <1>1, Zenon DEF AtMark
  <1>3. PICK all, some, eof, rest, none :
        /\ all = [Taken(s, n) EXCEPT !.spent = @ \/ (a = n /\ ~atEOF)]
        /\ some = Taken(s, a)
        /\ eof = [Taken(s, 1) EXCEPT !.mode = "ONLY_EOF"]
        /\ rest = [Clear(Taken(s, a)) EXCEPT !.mode = "READ_FROM_IRQ"]
        /\ none = [s EXCEPT !.mode = "READ_FROM_IRQ"]
    BY Zenon
  <1>4. PICK out : out = HandOut(s, n)
    BY Zenon
  <1>5. out = CASE a >= n -> [in |-> all, done |-> TRUE]
                [] a < n /\ a > 0 /\ atEOF -> [in |-> some, done |-> TRUE]
                [] a = 0 /\ atEOF -> [in |-> eof, done |-> TRUE]
                [] a < n /\ a > 0 /\ ~atEOF -> [in |-> rest, done |-> TRUE]
                [] OTHER -> [in |-> none, done |-> FALSE]
    BY <1>2, <1>3, <1>4, Zenon DEF HandOut, Taken, AtMark
  <1>6. \/ a >= n /\ out.done /\ out.in = all
        \/ a < n /\ a > 0 /\ atEOF /\ out.done /\ out.in = some
        \/ a = 0 /\ atEOF /\ out.done /\ out.in = eof
        \/ a < n /\ a > 0 /\ ~atEOF /\ out.done /\ out.in = rest
        \/ a = 0 /\ ~atEOF /\ out.in = none /\ ~out.done
    BY <1>5
  <1>7. QED BY <1>2, <1>3, <1>4, <1>6, Zenon

\* What is handed out was typed, in order; the buffer is cleared only when it is
\* empty, and is left empty otherwise only by a call that took the last byte.
LEMMA HandOutKeeps ==
  ASSUME NEW s, Sane(s), s.mode = "CONSUME_BUFFER", NEW n \in Nat, n > 0
  PROVE  /\ Sane(HandOut(s, n).in)
         /\ HandOut(s, n).done \/ HandOut(s, n).in.mode = "READ_FROM_IRQ"
  <1> DEFINE a == Available(s)
             t == HandOut(s, n).in
  <1>1. /\ s \in InputState /\ s.w \in Nat /\ s.r \in Nat /\ s.p \in Seq(Char) /\ Len(s.p) \in Nat
        /\ s.erased \in BOOLEAN /\ s.refused \in BOOLEAN /\ s.spent \in BOOLEAN
        /\ BufSize \in Nat /\ BufSize > 0
    BY TTYFileAssumption DEF Sane, InputState
  <1>2. /\ a \in Nat /\ s.r + a <= BufSize
        /\ s.r <= s.w => /\ s.r + a <= s.w
                         /\ AtMark(s) => s.r + a < s.w
                         /\ ~AtMark(s) => s.r + a = s.w
    BY <1>1, AvailableInside, Zenon
  <1>3. AtMark(s) => s.r + a < BufSize
    BY Zenon DEF AtMark
  <1>4. /\ ~s.erased => Matches(s) /\ s.r <= s.w
        /\ s.erased \/ s.refused => s.spent
        /\ ~s.spent => s.r < s.w
    BY Zenon DEF Sane, Matches
  <1>5. CASE /\ a >= n /\ HandOut(s, n).done
             /\ t = [Taken(s, n) EXCEPT !.spent = @ \/ (a = n /\ ~AtMark(s))]
    <2>1. s.r + n <= BufSize /\ (s.r <= s.w => s.r + n <= s.w)
      BY <1>1, <1>2, <1>5
    <2>2. /\ Taken(s, n) \in InputState
          /\ Taken(s, n).b = s.b /\ Taken(s, n).w = s.w /\ Taken(s, n).r = s.r + n
          /\ Taken(s, n).p = Drop(n, s.p) /\ Taken(s, n).mode = s.mode
          /\ Taken(s, n).erased = s.erased /\ Taken(s, n).refused = s.refused
          /\ Taken(s, n).spent = s.spent
      BY <1>1, <2>1, TakenFields, Zenon
    <2>3. /\ t \in InputState
          /\ t.b = s.b /\ t.w = s.w /\ t.r = s.r + n /\ t.p = Drop(n, s.p) /\ t.mode = s.mode
          /\ t.erased = s.erased /\ t.refused = s.refused
          /\ t.spent = (s.spent \/ (a = n /\ ~AtMark(s)))
      BY <1>5, <2>2, Zenon DEF InputState
    <2> HIDE DEF t
    <2>4. ~t.erased => Matches(t)
      BY <1>1, <1>4, <2>1, <2>3, TakenMatches, Zenon
    <2>5. t.erased \/ t.refused => t.spent
      BY <1>4, <2>3, Zenon
    <2>6. ASSUME ~t.spent PROVE t.r < t.w
      <3>1. ~s.spent /\ (a # n \/ AtMark(s))
        BY <1>1, <2>3, <2>6, Zenon
      <3>2. s.r < s.w
        BY <1>4, <3>1, Zenon
      <3>3. s.r + n < s.w
        <4>1. s.r <= s.w
          BY <1>1, <3>2
        <4>2. s.r + a <= s.w /\ (AtMark(s) => s.r + a < s.w)
          BY <1>2, <4>1, Zenon
        <4>3. CASE AtMark(s)
          BY <1>1, <1>2, <1>5, <4>2, <4>3
        <4>4. CASE a # n
          BY <1>1, <1>2, <1>5, <4>2, <4>4
        <4>5. QED BY <3>1, <4>3, <4>4, Zenon
      <3>4. QED BY <2>3, <3>3, Zenon
    <2>7. t.mode # "READ_FROM_IRQ"
      BY <2>3, Zenon
    <2>8. QED BY <1>5, <2>3, <2>4, <2>5, <2>6, <2>7, Zenon DEF Sane, t
  <1>6. CASE a < n /\ a > 0 /\ AtMark(s) /\ HandOut(s, n).done /\ t = Taken(s, a)
    <2>1. /\ t \in InputState
          /\ t.b = s.b /\ t.w = s.w /\ t.r = s.r + a /\ t.p = Drop(a, s.p) /\ t.mode = s.mode
          /\ t.erased = s.erased /\ t.refused = s.refused /\ t.spent = s.spent
      <3> HIDE DEF t, a
      <3>1. /\ Taken(s, a) \in InputState
            /\ Taken(s, a).b = s.b /\ Taken(s, a).w = s.w /\ Taken(s, a).r = s.r + a
            /\ Taken(s, a).p = Drop(a, s.p) /\ Taken(s, a).mode = s.mode
            /\ Taken(s, a).erased = s.erased /\ Taken(s, a).refused = s.refused
            /\ Taken(s, a).spent = s.spent
        BY <1>1, <1>2, TakenFields, Zenon
      <3>2. QED BY <1>6, <3>1, Zenon
    <2> HIDE DEF t, a
    <2>2. ~t.erased => Matches(t)
      BY <1>1, <1>2, <1>4, <2>1, TakenMatches, Zenon
    <2>3. t.erased \/ t.refused => t.spent
      BY <1>4, <2>1, Zenon
    <2>4. ASSUME ~t.spent PROVE t.r < t.w
      BY <1>1, <1>2, <1>4, <1>6, <2>1, <2>4, Zenon
    <2>5. t.mode # "READ_FROM_IRQ"
      BY <2>1, Zenon
    <2>6. QED BY <1>6, <2>1, <2>2, <2>3, <2>4, <2>5, Zenon DEF Sane, t
  <1>7. CASE /\ a = 0 /\ AtMark(s) /\ HandOut(s, n).done
             /\ t = [Taken(s, 1) EXCEPT !.mode = "ONLY_EOF"]
    <2>1. 1 \in Nat /\ s.r + 1 <= BufSize /\ (s.r <= s.w => s.r + 1 <= s.w)
      BY <1>1, <1>2, <1>3, <1>7
    <2>2. /\ Taken(s, 1) \in InputState
          /\ Taken(s, 1).b = s.b /\ Taken(s, 1).w = s.w /\ Taken(s, 1).r = s.r + 1
          /\ Taken(s, 1).p = Drop(1, s.p)
          /\ Taken(s, 1).erased = s.erased /\ Taken(s, 1).refused = s.refused
          /\ Taken(s, 1).spent = s.spent
      BY <1>1, <2>1, TakenFields, Zenon
    <2>3. /\ t \in InputState
          /\ t.b = s.b /\ t.w = s.w /\ t.r = s.r + 1 /\ t.p = Drop(1, s.p) /\ t.mode = "ONLY_EOF"
          /\ t.erased = s.erased /\ t.refused = s.refused /\ t.spent = s.spent
      BY <1>7, <2>2 DEF InputState, Mode
    <2> HIDE DEF t
    <2>4. ~t.erased => Matches(t)
      BY <1>1, <1>4, <2>1, <2>3, TakenMatches, Zenon
    <2>5. t.erased \/ t.refused => t.spent
      BY <1>4, <2>3, Zenon
    <2>6. t.mode # "READ_FROM_IRQ" /\ t.mode # "CONSUME_BUFFER"
      BY <2>3, Zenon
    <2>7. QED BY <1>7, <2>3, <2>4, <2>5, <2>6, Zenon DEF Sane, t
  <1>8. CASE /\ a < n /\ a > 0 /\ ~AtMark(s) /\ HandOut(s, n).done
             /\ t = [Clear(Taken(s, a)) EXCEPT !.mode = "READ_FROM_IRQ"]
    <2>1. /\ Taken(s, a) \in InputState /\ Taken(s, a).p = Drop(a, s.p)
          /\ Taken(s, a).erased = s.erased /\ Taken(s, a).refused = s.refused
          /\ Taken(s, a).spent = s.spent
      BY <1>1, <1>2, TakenFields, Zenon
    <2>2. /\ t \in InputState /\ t.w = 0 /\ t.r = 0 /\ t.p = Drop(a, s.p)
          /\ t.mode = "READ_FROM_IRQ"
          /\ t.erased = s.erased /\ t.refused = s.refused /\ t.spent = s.spent
      <3> DEFINE c == [Taken(s, a) EXCEPT !.b = [i \in DOMAIN Taken(s, a).b |-> "none"],
                                          !.w = 0, !.r = 0]
      <3>1. c = Clear(Taken(s, a))
        BY Zenon DEF Clear
      <3>2. [i \in DOMAIN Taken(s, a).b |-> "none"] \in [0..(BufSize - 1) -> Char]
        BY <2>1, Zenon DEF InputState, Char
      <3>3. 0 \in 0..BufSize
        BY <1>1
      <3>4. /\ c \in InputState /\ c.w = 0 /\ c.r = 0 /\ c.p = Drop(a, s.p)
            /\ c.erased = s.erased /\ c.refused = s.refused /\ c.spent = s.spent
        BY <2>1, <3>2, <3>3, Zenon DEF InputState
      <3>5. t = [c EXCEPT !.mode = "READ_FROM_IRQ"]
        BY <1>8, <3>1, Zenon
      <3> HIDE DEF c, t, a
      <3>6. QED BY <3>4, <3>5, Zenon DEF InputState, Mode
    <2> HIDE DEF t
    <2>3. ASSUME ~t.erased PROVE Matches(t)
      <3>1. Matches(s) /\ s.r + a = s.w
        BY <1>2, <1>4, <1>8, <2>2, <2>3, Zenon
      <3>2. a = Len(s.p)
        BY <1>1, <1>2, <3>1 DEF Matches
      <3>3. Drop(Len(s.p), s.p) = <<>>
        BY <1>1 DEF Drop
      <3>4. t.p = <<>>
        BY <2>2, <3>2, <3>3, Zenon
      <3>5. QED BY <2>2, <3>4 DEF Matches
    <2>4. t.erased \/ t.refused => t.spent
      BY <1>4, <2>2, Zenon
    <2>5. t.mode # "CONSUME_BUFFER"
      BY <2>2, Zenon
    <2>6. QED BY <2>2, <2>3, <2>4, <2>5, Zenon DEF Sane, t
  <1>9. CASE /\ a = 0 /\ ~AtMark(s) /\ ~HandOut(s, n).done
             /\ t = [s EXCEPT !.mode = "READ_FROM_IRQ"]
    <2>1. /\ t \in InputState
          /\ t.b = s.b /\ t.w = s.w /\ t.r = s.r /\ t.p = s.p /\ t.mode = "READ_FROM_IRQ"
          /\ t.erased = s.erased /\ t.refused = s.refused /\ t.spent = s.spent
      BY <1>1, <1>9, Zenon DEF InputState, Mode
    <2> HIDE DEF t
    <2>2. ~t.erased => Matches(t)
      BY <1>4, <2>1, Zenon DEF Matches
    <2>3. t.erased \/ t.refused => t.spent
      BY <1>4, <2>1, Zenon
    <2>4. t.spent
      BY <1>1, <1>2, <1>4, <1>9, <2>1
    <2>5. QED BY <2>1, <2>2, <2>3, <2>4, Zenon DEF Sane, t
  <1>10. QED BY <1>1, <1>5, <1>6, <1>7, <1>8, <1>9, HandOutCases, Zenon

\* What is put into the variables is the state of the input.
LEMMA SetInputIs ==
  ASSUME NEW s \in InputState, SetInput(s)
  PROVE  Input' = s /\ mMode' = s.mode
BY Zenon DEF SetInput, Input, InputState

\* From a key, or from the entry of read, to the next wait or the return.
LEMMA ProceedKeeps ==
  ASSUME NEW s, Sane(s), NEW n \in Nat, n > 0, Proceed(s, n)
  PROVE  LineInv'
  <1>1. s \in InputState /\ 0 \in Nat
    BY Zenon DEF Sane
  <1>2. CASE s.mode = "READ_FROM_IRQ" /\ SetInput(s) /\ want' = n
    <2>1. Input' = s /\ mMode' = s.mode
      BY <1>1, <1>2, SetInputIs, Zenon
    <2>2. Sane(Input)'
      BY <2>1, Zenon DEF Sane, Matches
    <2>3. QED BY <1>2, <2>1, <2>2, Zenon DEF LineInv
  <1>3. CASE s.mode = "ONLY_EOF" /\ SetInput(s) /\ want' = 0
    <2>1. Input' = s
      BY <1>1, <1>3, SetInputIs, Zenon
    <2>2. Sane(Input)'
      BY <2>1, Zenon DEF Sane, Matches
    <2>3. ~(want' > 0)
      BY <1>3
    <2>4. QED BY <1>1, <1>3, <2>2, <2>3, Zenon DEF LineInv
  <1>4. CASE /\ s.mode = "CONSUME_BUFFER"
             /\ SetInput(HandOut(s, n).in) /\ want' = IF HandOut(s, n).done THEN 0 ELSE n
    <2>1. PICK t : t = HandOut(s, n).in /\ Sane(t) /\ (HandOut(s, n).done \/ t.mode = "READ_FROM_IRQ")
      BY <1>4, HandOutKeeps, Zenon
    <2>2. Input' = t /\ mMode' = t.mode
      BY <1>4, <2>1, SetInputIs, Zenon DEF Sane
    <2>3. Sane(Input)'
      BY <2>1, <2>2, Zenon DEF Sane, Matches
    <2>4. want' \in Nat /\ (want' > 0 => ~HandOut(s, n).done)
      BY <1>4
    <2>5. QED BY <2>1, <2>2, <2>3, <2>4, Zenon DEF LineInv
  <1>5. QED BY <1>2, <1>3, <1>4, Zenon DEF Proceed

\* The terminal starts with an empty buffer.
LEMMA LineStarts == TTYInit => LineInv
  <1> SUFFICES ASSUME TTYInit PROVE LineInv
    BY Zenon
  <1>1. /\ [i \in 0..(BufSize - 1) |-> "none"] \in [0..(BufSize - 1) -> Char]
        /\ 0 \in 0..BufSize /\ "READ_FROM_IRQ" \in Mode /\ <<>> \in Seq(Char)
    BY TTYFileAssumption DEF Char, Mode
  <1>2. /\ Input \in InputState /\ ~Input.erased /\ ~Input.refused
        /\ Input.r = 0 /\ Input.w = 0 /\ Input.p = <<>> /\ Input.mode = "READ_FROM_IRQ"
    BY <1>1, Zenon DEF TTYInit, Input, InputState
  <1>3. Matches(Input)
    BY <1>2 DEF Matches
  <1>4. Sane(Input)
    BY <1>2, <1>3, Zenon DEF Sane
  <1>5. want \in Nat /\ ~(want > 0)
    BY DEF TTYInit
  <1>6. QED BY <1>4, <1>5, Zenon DEF LineInv

\* Every step keeps the invariant.
LEMMA LineStep == LineInv /\ [TTYNext]_ttyVars => LineInv'
  <1> SUFFICES ASSUME LineInv, [TTYNext]_ttyVars PROVE LineInv'
    BY Zenon
  <1>1. ASSUME NEW n \in 1..MaxRead, Read(n) PROVE LineInv'
    <2>1. n \in Nat /\ n > 0
      BY TTYFileAssumption
    <2>2. QED BY <1>1, <2>1, ProceedKeeps, Zenon DEF Read, LineInv
  <1>2. ASSUME NEW k \in TypedKey, TypeKey(k) PROVE LineInv'
    <2>1. want \in Nat /\ want > 0 /\ Sane(Input) /\ Input.mode = "READ_FROM_IRQ"
      BY <1>2, Zenon DEF TypeKey, LineInv, Input
    <2>2. Sane(Canonical(Input, k)) /\ Sane(Raw(Input, k))
      BY <2>1, KeyKeeps, Zenon
    <2>3. QED BY <1>2, <2>1, <2>2, ProceedKeeps, Zenon DEF TypeKey
  <1>3. ASSUME UNCHANGED <<inputVars, mMode, want, pending, erasedRead, refused, spent>>
        PROVE LineInv'
    <2>1. Input' = Input /\ want' = want /\ mMode' = mMode
      BY <1>3, Zenon DEF Input, inputVars
    <2>2. QED BY <2>1, Zenon DEF LineInv, Sane, Matches
  <1>4. ASSUME NEW d \in {"CANONICAL", "RAW"}, SetDiscipline(d) PROVE LineInv'
    BY <1>3, <1>4, Zenon DEF SetDiscipline
  <1>5. CASE UNCHANGED ttyVars
    BY <1>3, <1>5, Zenon DEF ttyVars
  <1>6. QED BY <1>1, <1>2, <1>4, <1>5, Zenon DEF TTYNext

\* The invariant of the terminal's input holds throughout: what is between the
\* indices of the buffer is what was typed, and it is read from its start until a
\* call takes the last byte there is.
THEOREM LineInvHolds == TTYSpec => []LineInv
  <1>1. QED BY LineStarts, LineStep, PTL DEF TTYSpec

\* A reader gets what was typed and not erased, in order, for any size of the
\* buffer and of the reads, in both disciplines; only a call that takes the last
\* byte of the buffer may spoil it.
THEOREM InputAlwaysAsTyped == TTYSpec => []InputAsTyped
  <1>1. LineInv => InputAsTyped
    <2> SUFFICES ASSUME LineInv PROVE InputAsTyped
      BY Zenon
    <2>1. /\ Input \in InputState
          /\ Input.r = mNextRead /\ Input.w = mNextWrite /\ Input.p = pending /\ Input.b = buf
          /\ Input.erased = erasedRead /\ Input.refused = refused /\ Input.spent = spent
      BY Zenon DEF LineInv, Sane, Input
    <2>2. erasedRead \/ refused => spent
      BY <2>1, Zenon DEF LineInv, Sane
    <2>3. ASSUME ~erasedRead PROVE mNextRead <= mNextWrite /\ Unread = pending
      <3>1. Matches(Input)
        BY <2>1, <2>3, Zenon DEF LineInv, Sane
      <3>2. /\ mNextRead <= mNextWrite /\ Len(pending) = mNextWrite - mNextRead
            /\ \A i \in 1..Len(pending) : pending[i] = buf[mNextRead + i - 1]
        BY <2>1, <3>1, Zenon DEF Matches
      <3>3. pending \in Seq(Char)
        BY <2>1, Zenon DEF InputState
      <3>4. pending = [i \in 1..Len(pending) |-> buf[mNextRead + i - 1]]
        BY <3>2, <3>3
      <3>5. QED BY <3>2, <3>4, Zenon DEF Unread
    <2>4. QED BY <2>2, <2>3, Zenon DEF InputAsTyped
  <1>2. QED BY <1>1, LineInvHolds, PTL

(***************************************************************************)
(* The cursor stays on the screen.  CursorOnScreen is not inductive: a     *)
(* backspace takes a row or a column off a position above 0, which stays at*)
(* or above 0 only because the cursor is always at whole rows and columns. *)
(***************************************************************************)
\* The cursor is at a whole row and column; the inputs are numbers.
AtRow(x) == \E i \in 0..Rows : x = i * FontHeight
AtColumn(y) == \E j \in 0..Columns : y = j * FontWidth

CursorInGrid ==
    /\ AtRow(mX) /\ AtColumn(mY)
    /\ current \in 0..(NumInputs - 1)
    /\ inputs \in [0..(NumInputs - 1) -> Nat]
    /\ moved \in [down : BOOLEAN, right : BOOLEAN]

ScreenInv ==
    /\ CursorInGrid
    /\ mX + FontHeight > Height => moved.down
    /\ mY + FontWidth > Width => moved.right

\* Rows and columns are natural numbers.
LEMMA GridIsNat == Rows \in Nat /\ Columns \in Nat
BY ScreenAssumption DEF Rows, Columns

\* Positions in a grid of n steps of size s: what is between 0 and n * s, and the
\* positions one step away from it.
LEMMA GridSteps ==
    ASSUME NEW n \in Nat, NEW s \in Nat \ {0}, NEW i \in 0..n
    PROVE  /\ i * s \in Nat
           /\ i * s <= n * s
           /\ i * s > 0 => i > 0
           /\ (i - 1) * s = i * s - s
           /\ (i + 1) * s = i * s + s
           /\ i < n => i * s + s <= n * s
<1>1. i * s \in Nat
  OBVIOUS
<1>2. (i - 1) * s = i * s - s /\ (i + 1) * s = i * s + s
  OBVIOUS
<1>3. i * s <= n * s
  OBVIOUS
<1>4. i * s > 0 => i > 0
  OBVIOUS
<1>5. ASSUME i < n PROVE i * s + s <= n * s
  <2>1. (i + 1) * s <= n * s
    BY <1>5
  <2>2. QED
    BY <2>1, <1>2, Zenon
<1>6. QED
  BY <1>1, <1>2, <1>3, <1>4, <1>5, Zenon

\* setRow and setCol end at a position of the grid.
LEMMA PixelInGrid ==
    ASSUME NEW n \in Nat, NEW s \in Nat \ {0}, NEW c \in Nat
    PROVE  \E k \in 0..n : (IF c * s > n * s THEN n * s ELSE c * s) = k * s
<1>1. CASE c > n
  <2>1. c * s >= (n + 1) * s
    BY <1>1
  <2>2. (n + 1) * s = n * s + s
    OBVIOUS
  <2>3. c * s > n * s
    BY <2>1, <2>2
  <2>4. QED
    BY <2>3
<1>2. CASE c <= n
  <2>1. c \in 0..n
    BY <1>2
  <2>2. ~(c * s > n * s)
    BY <2>1, GridSteps
  <2>3. QED
    BY <2>1, <2>2, Zenon
<1>3. QED
  BY <1>1, <1>2

\* Where the cursor is: the numbers of its row and column, and the bounds of both.
LEMMA CursorBounds ==
    ASSUME CursorInGrid
    PROVE  /\ mX \in 0..Height /\ mY \in 0..Width
           /\ Row \in Nat /\ Column \in Nat
<1> USE ScreenAssumption, GridIsNat
<1>1. PICK i \in 0..Rows : mX = i * FontHeight
  BY Zenon DEF CursorInGrid, AtRow, AtColumn
<1>2. mX \in Nat /\ mX <= Height
  <2>1. i * FontHeight \in Nat /\ i * FontHeight <= Rows * FontHeight
    BY GridSteps, Zenon
  <2>2. QED
    BY <1>1, <2>1, Zenon
<1>3. PICK j \in 0..Columns : mY = j * FontWidth
  BY Zenon DEF CursorInGrid, AtRow, AtColumn
<1>4. mY \in Nat /\ mY <= Width
  <2>1. j * FontWidth \in Nat /\ j * FontWidth <= Columns * FontWidth
    BY GridSteps, Zenon
  <2>2. QED
    BY <1>3, <2>1, Zenon
<1>5. Row \in Nat /\ Column \in Nat
  BY <1>2, <1>4 DEF Row, Column
<1>6. QED
  BY <1>2, <1>4, <1>5

\* A move of the cursor ends in the grid, and at the far edge only with a note.
LEMMA SetPositionInGrid ==
    ASSUME ScreenInv, NEW r \in Nat, NEW c \in Nat, SetPosition(r, c),
           current' \in 0..(NumInputs - 1), inputs' \in [0..(NumInputs - 1) -> Nat]
    PROVE  ScreenInv'
<1> USE ScreenAssumption, GridIsNat
<1>1. \E k \in 0..Rows : RowPixel(r) = k * FontHeight
  <2>1. FontHeight \in Nat \ {0} /\ Height = Rows * FontHeight
    BY Zenon
  <2>2. \E k \in 0..Rows : (IF r * FontHeight > Rows * FontHeight THEN Rows * FontHeight ELSE r * FontHeight)
                               = k * FontHeight
    BY ONLY <2>1, GridIsNat, r \in Nat, PixelInGrid
  <2>3. QED
    BY ONLY <2>1, <2>2, Zenon DEF RowPixel
<1>2. \E k \in 0..Columns : ColPixel(c) = k * FontWidth
  <2>1. FontWidth \in Nat \ {0} /\ Width = Columns * FontWidth
    BY Zenon
  <2>2. \E k \in 0..Columns : (IF c * FontWidth > Columns * FontWidth THEN Columns * FontWidth ELSE c * FontWidth)
                               = k * FontWidth
    BY ONLY <2>1, GridIsNat, c \in Nat, PixelInGrid
  <2>3. QED
    BY ONLY <2>1, <2>2, Zenon DEF ColPixel
<1>3. CursorInGrid'
  <2>1. RowPixel(r) \in Int /\ ColPixel(c) \in Int
    BY <1>1, <1>2
  <2>2. moved' \in [down : BOOLEAN, right : BOOLEAN]
    <3> DEFINE down == RowPixel(r) + FontHeight > Height
               right == ColPixel(c) + FontWidth > Width
    <3>1. down \in BOOLEAN /\ right \in BOOLEAN
      BY <2>1
    <3>2. moved' = [down |-> down, right |-> right]
      BY Zenon DEF SetPosition
    <3> HIDE DEF down, right
    <3>3. QED
      BY <3>1, <3>2, Zenon
  <2>3. mX' = RowPixel(r) /\ mY' = ColPixel(c)
    BY Zenon DEF SetPosition
  <2>4. QED
    BY <1>1, <1>2, <2>2, <2>3, Zenon DEF CursorInGrid, AtRow, AtColumn
<1>4. QED
  BY <1>3, Zenon DEF ScreenInv, SetPosition

\* So does a new line, which scrolls at the last row.
LEMMA NewLineInGrid ==
    ASSUME ScreenInv, NewLine,
           current' \in 0..(NumInputs - 1), inputs' \in [0..(NumInputs - 1) -> Nat]
    PROVE  ScreenInv'
<1> USE ScreenAssumption, GridIsNat
<1>1. mY' = 0 /\ \E j \in 0..Columns : mY' = j * FontWidth
  <2>1. 0 * FontWidth = 0 /\ 0 \in 0..Columns
    OBVIOUS
  <2>2. QED
    BY <2>1, Zenon DEF NewLine
<1>2. mY' + FontWidth <= Width
  <2>1. 0 * FontWidth + FontWidth <= Columns * FontWidth
    BY GridSteps, 0 \in 0..Columns, 0 < Columns, Zenon
  <2>2. QED
    BY <1>1, <2>1
<1>3. (\E i \in 0..Rows : mX' = i * FontHeight) /\ mX' + FontHeight <= Height
  <2>1. CASE Scrolls(mX + FontHeight)
    <3>1. mX' = FontHeight * (Rows - 1) /\ Rows - 1 \in 0..Rows
      BY <2>1 DEF NewLine
    <3>2. FontHeight * (Rows - 1) = (Rows - 1) * FontHeight
      OBVIOUS
    <3>3. (Rows - 1) * FontHeight + FontHeight <= Rows * FontHeight
      BY <3>1, GridSteps
    <3>4. QED
      BY <3>1, <3>2, <3>3, Zenon
  <2>2. CASE ~Scrolls(mX + FontHeight)
    <3>1. PICK i \in 0..Rows : mX = i * FontHeight
      BY Zenon DEF ScreenInv, CursorInGrid, AtRow, AtColumn
    <3>2. i * FontHeight \in Nat /\ (i + 1) * FontHeight = i * FontHeight + FontHeight
      BY GridSteps
    <3>3. mX' = mX + FontHeight /\ mX' + FontHeight <= Height
      BY <2>2, <3>1, <3>2 DEF NewLine, Scrolls
    <3>4. i # Rows
      BY <3>1, <3>3, <3>2
    <3>5. i + 1 \in 0..Rows
      BY <3>4
    <3>6. QED
      BY <3>1, <3>2, <3>3, <3>5, Zenon
  <2>3. QED
    BY <2>1, <2>2, Zenon
<1>4. moved' \in [down : BOOLEAN, right : BOOLEAN]
  BY Zenon DEF NewLine
<1>5. CursorInGrid'
  BY <1>1, <1>3, <1>4, Zenon DEF CursorInGrid, AtRow, AtColumn
<1>6. mX' \in Nat
  BY <1>5, CursorBounds, <1>3, GridSteps
<1>7. QED
  BY <1>2, <1>3, <1>5, <1>1, <1>6 DEF ScreenInv

\* A byte that is no part of an escape sequence.
LEMMA WritePlainInGrid ==
    ASSUME ScreenInv, WritePlain
    PROVE  ScreenInv'
<1> USE ScreenAssumption, GridIsNat
<1>1. /\ current' \in 0..(NumInputs - 1) /\ inputs' \in [0..(NumInputs - 1) -> Nat]
      /\ moved \in [down : BOOLEAN, right : BOOLEAN]
      /\ CursorInGrid
  BY Zenon DEF WritePlain, Escapes, ScreenInv, CursorInGrid
<1>2. PICK i \in 0..Rows, j \in 0..Columns : mX = i * FontHeight /\ mY = j * FontWidth
  BY Zenon DEF ScreenInv, CursorInGrid, AtRow, AtColumn
<1>3. /\ i * FontHeight \in Nat /\ (i - 1) * FontHeight = i * FontHeight - FontHeight
      /\ i * FontHeight > 0 => i > 0
      /\ j * FontWidth \in Nat /\ (j - 1) * FontWidth = j * FontWidth - FontWidth
      /\ (j + 1) * FontWidth = j * FontWidth + FontWidth
      /\ j * FontWidth > 0 => j > 0
  BY GridSteps
<1>4. mX \in 0..Height /\ mY \in 0..Width
  BY <1>1, CursorBounds, Zenon
<1>5. CASE NewLine
  BY <1>1, <1>5, NewLineInGrid, Zenon
<1>6. CASE PutGlyph /\ ~NewLine
  <2>1. mY + 2 * FontWidth < Width /\ mY' = mY + FontWidth /\ UNCHANGED <<mX, moved>>
    BY <1>6, Zenon DEF PutGlyph
  <2>2. j # Columns
    BY <1>2, <1>3, <2>1
  <2>3. j + 1 \in 0..Columns /\ mY' = (j + 1) * FontWidth
    BY <2>1, <2>2, <1>2, <1>3
  <2>4. AtColumn(mY)' /\ AtRow(mX)'
    BY <2>1, <2>3, <1>1, Zenon DEF AtColumn, AtRow, CursorInGrid
  <2>5. ~(mY' + FontWidth > Width)
    BY <2>1, <1>4
  <2>6. QED
    BY ONLY ScreenInv, <1>1, <2>1, <2>4, <2>5, Zenon DEF ScreenInv, CursorInGrid
<1>7. CASE PutBackspace
  <2>1. CASE mY > 0
    <3>1. mY' = mY - FontWidth /\ mX' = mX /\ moved' = [moved EXCEPT !.right = FALSE]
      BY <1>4, <2>1, <1>7 DEF PutBackspace
    <3>2. j - 1 \in 0..Columns /\ mY' = (j - 1) * FontWidth
      BY <1>2, <1>3, <2>1, <3>1
    <3>3. AtColumn(mY)' /\ AtRow(mX)'
      BY <3>1, <3>2, <1>1, Zenon DEF AtColumn, AtRow, CursorInGrid
    <3>4. ~(mY' + FontWidth > Width)
      BY <3>1, <1>4
    <3>5. moved' \in [down : BOOLEAN, right : BOOLEAN] /\ moved'.down = moved.down
      BY <1>1, <3>1, Zenon
    <3>6. QED
      BY ONLY ScreenInv, <1>1, <3>1, <3>3, <3>4, <3>5, Zenon DEF ScreenInv, CursorInGrid
  <2>2. CASE mY = 0 /\ mX > 0
    <3>1. /\ mY' = FontWidth * (Columns - 2) /\ mX' = mX - FontHeight
          /\ moved' = [moved EXCEPT !.down = FALSE]
      BY <2>2, <1>7 DEF PutBackspace
    <3>2. i - 1 \in 0..Rows /\ mX' = (i - 1) * FontHeight
      <4>1. i > 0
        BY <1>2, <1>3, <2>2, Zenon
      <4>2. mX' = (i - 1) * FontHeight
        BY ONLY <1>2, <1>3, <3>1, Zenon
      <4>3. QED
        BY <4>1, <4>2
    <3>3. Columns - 2 \in 0..Columns /\ mY' = (Columns - 2) * FontWidth
      BY <3>1
    <3>4. AtColumn(mY)' /\ AtRow(mX)'
      BY <3>2, <3>3, Zenon DEF AtColumn, AtRow
    <3>5. ~(mX' + FontHeight > Height)
      BY <3>1, <1>4
    <3>6. ~(mY' + FontWidth > Width)
      <4>1. (Columns - 2) * FontWidth \in Nat
        BY <3>3, GridSteps, Zenon
      <4>2. (Columns - 2) * FontWidth + FontWidth <= Columns * FontWidth
        BY <3>3, GridSteps, Columns - 2 < Columns, Zenon
      <4>3. QED
        BY <4>1, <4>2, <3>3
    <3>7. moved' \in [down : BOOLEAN, right : BOOLEAN]
      BY <1>1, <3>1, Zenon
    <3>8. QED
      BY ONLY <1>1, <3>4, <3>5, <3>6, <3>7, Zenon DEF ScreenInv, CursorInGrid
  <2>3. CASE mY = 0 /\ ~(mX > 0)
    <3>1. UNCHANGED <<mX, mY, moved>>
      BY <1>4, <2>3, <1>7 DEF PutBackspace
    <3>2. AtColumn(mY)' /\ AtRow(mX)'
      BY <3>1, <1>1, Zenon DEF AtColumn, AtRow, CursorInGrid
    <3>3. QED
      BY ONLY ScreenInv, <1>1, <3>1, <3>2, Zenon DEF ScreenInv, CursorInGrid
  <2>4. QED
    BY <1>4, <2>1, <2>2, <2>3
<1>8. CASE PutReturn
  <2>1. mX' = mX /\ mY' = 0 /\ moved' = [moved EXCEPT !.right = FALSE]
    BY <1>8, Zenon DEF PutReturn
  <2>2. 0 \in 0..Columns /\ mY' = 0 * FontWidth
    BY <2>1
  <2>3. AtColumn(mY)' /\ AtRow(mX)'
    BY <2>1, <2>2, <1>1, Zenon DEF AtColumn, AtRow, CursorInGrid
  <2>4. ~(mY' + FontWidth > Width)
    <3>1. 0 * FontWidth + FontWidth <= Columns * FontWidth
      BY GridSteps, <2>2, 0 < Columns, Zenon
    <3>2. QED
      BY <2>2, <3>1
  <2>5. moved' \in [down : BOOLEAN, right : BOOLEAN] /\ moved'.down = moved.down
    BY <1>1, <2>1, Zenon
  <2>6. QED
    BY ONLY ScreenInv, <1>1, <2>1, <2>3, <2>4, <2>5, Zenon DEF ScreenInv, CursorInGrid
<1>9. QED
  BY <1>5, <1>6, <1>7, <1>8, Zenon DEF WritePlain

\* clearLine puts the cursor back where it was.
LEMMA ClearLineInGrid ==
    ASSUME ScreenInv, ClearLine,
           current' \in 0..(NumInputs - 1), inputs' \in [0..(NumInputs - 1) -> Nat]
    PROVE  ScreenInv'
<1> USE ScreenAssumption, GridIsNat
<1>1. CursorInGrid /\ moved \in [down : BOOLEAN, right : BOOLEAN]
  BY Zenon DEF ScreenInv, CursorInGrid
<1>2. AtColumn(ColPixel(Column)) /\ ColPixel(Column) \in Int
  <2>1. Column \in Nat
    BY <1>1, CursorBounds, Zenon
  <2>2. FontWidth \in Nat \ {0} /\ Width = Columns * FontWidth
    BY Zenon
  <2>3. \E k \in 0..Columns :
            (IF Column * FontWidth > Columns * FontWidth THEN Columns * FontWidth ELSE Column * FontWidth)
                = k * FontWidth
    BY ONLY <2>1, <2>2, GridIsNat, PixelInGrid, Zenon
  <2>4. AtColumn(ColPixel(Column))
    BY ONLY <2>2, <2>3, Zenon DEF ColPixel, AtColumn
  <2>5. ColPixel(Column) \in Int
    BY <2>4 DEF AtColumn
  <2>6. QED
    BY <2>4, <2>5, Zenon
<1> DEFINE right == ColPixel(Column) + FontWidth > Width
<1>3. right \in BOOLEAN
  BY <1>2
<1>4. /\ mX' = mX /\ mY' = ColPixel(Column)
      /\ moved' = [moved EXCEPT !.right = right]
  BY Zenon DEF ClearLine
<1>5. AtColumn(mY)' /\ AtRow(mX)'
  BY <1>1, <1>2, <1>4, Zenon DEF AtColumn, AtRow, CursorInGrid
<1>6. mY' + FontWidth > Width => right
  BY <1>4, Zenon
<1> HIDE DEF right
<1>7. /\ moved' \in [down : BOOLEAN, right : BOOLEAN]
      /\ moved'.down = moved.down /\ moved'.right = right
  BY <1>1, <1>3, <1>4, Zenon
<1>8. QED
  BY ONLY ScreenInv, <1>1, <1>4, <1>5, <1>6, <1>7,
          current' \in 0..(NumInputs - 1), inputs' \in [0..(NumInputs - 1) -> Nat], Zenon
     DEF ScreenInv, CursorInGrid

\* The command that ends a sequence.
LEMMA WriteCommandInGrid ==
    ASSUME ScreenInv, WriteCommand
    PROVE  ScreenInv'
<1> USE ScreenAssumption, GridIsNat
<1>1. /\ CursorInGrid /\ current \in 0..(NumInputs - 1)
      /\ inputs \in [0..(NumInputs - 1) -> Nat]
  BY Zenon DEF ScreenInv, CursorInGrid
<1>2. Row \in Nat /\ Column \in Nat
  BY <1>1, CursorBounds, Zenon
<1>3. Distance \in Nat
  BY <1>1, Zenon DEF Distance, Input0
<1>4. current' \in 0..(NumInputs - 1) /\ inputs' \in [0..(NumInputs - 1) -> Nat]
  BY <1>1, <1>3, Zenon DEF WriteCommand
<1>5. /\ Subtract(Row, Distance) \in Nat /\ Row + Distance \in Nat
      /\ Subtract(Column, Distance) \in Nat /\ Column + Distance \in Nat
  BY <1>2, <1>3 DEF Subtract
<1>6. CASE SetPosition(Subtract(Row, Distance), Column)
  BY <1>2, <1>4, <1>5, <1>6, SetPositionInGrid, Zenon
<1>7. CASE SetPosition(Row + Distance, Column)
  BY <1>2, <1>4, <1>5, <1>7, SetPositionInGrid, Zenon
<1>8. CASE SetPosition(Row, Column + Distance)
  BY <1>2, <1>4, <1>5, <1>8, SetPositionInGrid, Zenon
<1>9. CASE SetPosition(Row, Subtract(Column, Distance))
  BY <1>2, <1>4, <1>5, <1>9, SetPositionInGrid, Zenon
<1>10. CASE SetPosition(0, 0)
  BY <1>4, <1>10, SetPositionInGrid, Zenon
<1>11. CASE UNCHANGED <<mX, mY, moved>>
  BY ONLY ScreenInv, <1>4, <1>11, Zenon DEF ScreenInv, CursorInGrid, AtRow, AtColumn
<1>12. CASE ClearLine
  BY <1>4, <1>12, ClearLineInGrid, Zenon
<1>13. QED
  BY ONLY WriteCommand, <1>6, <1>7, <1>8, <1>9, <1>10, <1>11, <1>12, Zenon DEF WriteCommand

\* What each byte and each ioctl does to the cursor.
LEMMA ScreenStep ==
    ASSUME ScreenInv, [ScreenNext]_screenVars
    PROVE  ScreenInv'
<1> USE ScreenAssumption, GridIsNat
<1>1. /\ CursorInGrid /\ current \in 0..(NumInputs - 1)
      /\ inputs \in [0..(NumInputs - 1) -> Nat]
  BY Zenon DEF ScreenInv, CursorInGrid
<1>2. CASE WritePlain
  BY <1>2, WritePlainInGrid, Zenon
<1>3. ASSUME UNCHANGED <<mX, mY, moved>>, current' \in 0..(NumInputs - 1),
             inputs' \in [0..(NumInputs - 1) -> Nat]
      PROVE  ScreenInv'
  BY ONLY ScreenInv, <1>3, Zenon DEF ScreenInv, CursorInGrid, AtRow, AtColumn
<1>4. CASE WriteEscape
  BY <1>1, <1>3, <1>4 DEF WriteEscape
<1>5. CASE WriteBracket
  BY <1>1, <1>3, <1>5, Zenon DEF WriteBracket
<1>6. CASE WriteSemicolon
  BY <1>1, <1>3, <1>6 DEF WriteSemicolon, NextInput
<1>7. CASE WriteCommand
  BY <1>7, WriteCommandInGrid, Zenon
<1>8. ASSUME NEW d \in 0..9, WriteDigit(d) PROVE ScreenInv'
  <2>1. inputs' \in [0..(NumInputs - 1) -> Nat]
    BY <1>1, <1>8 DEF WriteDigit
  <2>2. QED
    BY <1>1, <1>3, <1>8, <2>1, Zenon DEF WriteDigit
<1>9. ASSUME NEW r \in 0..(Rows + 1), NEW c \in 0..(Columns + 1), MoveCursor(r, c) PROVE ScreenInv'
  <2>1. r \in Nat /\ c \in Nat /\ SetPosition(r, c) /\ UNCHANGED Escapes
    BY <1>9 DEF MoveCursor
  <2>2. QED
    BY <1>1, <2>1, SetPositionInGrid, Zenon DEF Escapes
<1>10. CASE UNCHANGED screenVars
  BY <1>1, <1>3, <1>10, Zenon DEF screenVars
<1>11. QED
  BY <1>2, <1>4, <1>5, <1>6, <1>7, <1>8, <1>9, <1>10, Zenon DEF ScreenNext

\* Whatever is written to the terminal and however it moves its cursor, the cursor
\* stays on the screen and the number of an escape sequence in its array.
THEOREM CursorStaysOnScreen == ScreenSpec => []CursorOnScreen
<1> USE ScreenAssumption, GridIsNat
<1>1. ScreenInit => ScreenInv
  <2>1. SUFFICES ASSUME ScreenInit PROVE ScreenInv
    BY Zenon
  <2>2. 0 \in 0..Rows /\ 0 = 0 * FontHeight /\ 0 \in 0..Columns /\ 0 = 0 * FontWidth
    OBVIOUS
  <2>3. AtRow(mX) /\ AtColumn(mY)
    BY <2>1, <2>2, Zenon DEF ScreenInit, AtRow, AtColumn
  <2>4. 0 * FontHeight + FontHeight <= Height /\ 0 * FontWidth + FontWidth <= Width
    BY <2>2, GridSteps
  <2>5. ~(mX + FontHeight > Height) /\ ~(mY + FontWidth > Width)
    BY <2>1, <2>2, <2>4 DEF ScreenInit
  <2>6. /\ current \in 0..(NumInputs - 1) /\ inputs \in [0..(NumInputs - 1) -> Nat]
        /\ moved \in [down : BOOLEAN, right : BOOLEAN]
    BY <2>1 DEF ScreenInit
  <2>7. QED
    BY ONLY <2>3, <2>5, <2>6, Zenon DEF ScreenInv, CursorInGrid
<1>2. ScreenInv => CursorOnScreen
  <2>1. SUFFICES ASSUME ScreenInv PROVE CursorOnScreen
    BY Zenon
  <2>2. mX \in 0..Height /\ mY \in 0..Width
    BY <2>1, CursorBounds, Zenon DEF ScreenInv
  <2>3. current < NumInputs
    BY <2>1 DEF ScreenInv, CursorInGrid
  <2>4. QED
    BY ONLY <2>1, <2>2, <2>3, Zenon DEF ScreenInv, CursorOnScreen
<1>3. QED
  BY <1>1, <1>2, ScreenStep, PTL DEF ScreenSpec
===============================================================================
