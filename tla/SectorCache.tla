------------------------------ MODULE SectorCache ------------------------------
(***************************************************************************)
(* Sectors of a volume behind its cache (fs/vol/volume.cpp, lru.h and      *)
(* partition.cpp).  A read or write of several sectors goes through them   *)
(* one by one and stops at the first that fails; nothing else runs in      *)
(* between, so an action is one sector.  The hash is a function on the     *)
(* sectors it has; its buckets are left out.                               *)
(***************************************************************************)
EXTENDS Selection, Functions

CONSTANTS
    NumSectors,     \* of the volume
    CacheSize,      \* sectors in the cache: 512
    Data,           \* contents of a sector
    NoData,
    MaxIO           \* bound: sectors read or written

ASSUME SectorCacheAssumption ==
    NumSectors \in Nat /\ CacheSize \in Nat \ {0} /\ MaxIO \in Nat

\* One sector past the end may be asked for.
Sector == 0..NumSectors

VARIABLES
    disk,           \* what the disk holds
    order,          \* LRUCache::mData, the last used sector first
    cache,          \* LRUCache::mHash
    sectorsRead, sectorsWritten, cacheHits,
    torn,           \* sectors whose last write failed but reached the disk (history)
    result          \* what the last call returned: [ok, sector, data]

diskVars == <<disk, order, cache, sectorsRead, sectorsWritten, cacheHits, torn, result>>

DiskInit ==
    /\ disk \in [0..(NumSectors - 1) -> Data]
    /\ order = <<>>
    /\ cache = <<>>
    /\ sectorsRead = 0 /\ sectorsWritten = 0 /\ cacheHits = 0
    /\ torn = {}
    /\ result = [ok |-> FALSE, sector |-> 0, data |-> NoData]

\* slist::removeAll: what is left keeps its order.
RemoveAll(s, list) == Selected(list, {i \in DOMAIN list : list[i] # s})

\* LRUCache::find and insert: to the front; a full cache drops the last, even if
\* the sector is in the cache.  The mutant drops it from the list only.
ToFront(s, list) == <<s>> \o RemoveAll(s, list)

IsFull == Len(order) >= CacheSize
DroppedNone == {}
Dropped == IF IsFull THEN {order[Len(order)]} ELSE {}

Insert(s, d) ==
    LET left == IF IsFull THEN SubSeq(order, 1, Len(order) - 1) ELSE order
        kept == DOMAIN cache \ Dropped
    IN /\ order' = ToFront(s, left)
       /\ cache' = [x \in kept \cup {s} |-> IF x = s THEN d ELSE cache[x]]

Return(ok, s, d) == result' = [ok |-> ok, sector |-> s, data |-> d]

\* tryReadSector: from the cache.
ReadHit(s) ==
    /\ sectorsRead + sectorsWritten < MaxIO
    /\ s \in DOMAIN cache
    /\ order' = ToFront(s, order)
    /\ cacheHits' = cacheHits + 1
    /\ sectorsRead' = sectorsRead + 1
    /\ Return(TRUE, s, cache[s])
    /\ UNCHANGED <<disk, cache, sectorsWritten, torn>>

\* tryReadSector: from the disk.
ReadMiss(s) ==
    /\ sectorsRead + sectorsWritten < MaxIO
    /\ s \notin DOMAIN cache
    /\ s < NumSectors
    /\ Insert(s, disk[s])
    /\ sectorsRead' = sectorsRead + 1
    /\ Return(TRUE, s, disk[s])
    /\ UNCHANGED <<disk, sectorsWritten, cacheHits, torn>>

\* tryWriteSector.  The mutant leaves what is in the cache alone.
InsertIfAbsent(s, d) ==
    IF s \in DOMAIN cache THEN UNCHANGED <<order, cache>> ELSE Insert(s, d)
UpdateCache(s, d) == Insert(s, d)

WriteSector(s, d) ==
    /\ sectorsRead + sectorsWritten < MaxIO
    /\ s < NumSectors
    /\ disk' = [disk EXCEPT ![s] = d]
    /\ UpdateCache(s, d)
    /\ sectorsWritten' = sectorsWritten + 1
    /\ torn' = torn \ {s}
    /\ Return(TRUE, s, d)
    /\ UNCHANGED <<sectorsRead, cacheHits>>

\* Partition::doRead and doWrite past the end, and a disk that reports an error.
ReadFails(s) ==
    /\ s \notin DOMAIN cache
    /\ Return(FALSE, s, NoData)
    /\ UNCHANGED <<disk, order, cache, sectorsRead, sectorsWritten, cacheHits, torn>>

WriteFails(s, d) ==
    /\ \/ UNCHANGED <<disk, torn>>
       \/ /\ s < NumSectors
          /\ disk' = [disk EXCEPT ![s] = d]
          /\ torn' = torn \cup {s}
    /\ Return(FALSE, s, NoData)
    /\ UNCHANGED <<order, cache, sectorsRead, sectorsWritten, cacheHits>>

DiskNext ==
    \E s \in Sector :
        \/ ReadHit(s) \/ ReadMiss(s) \/ ReadFails(s)
        \/ \E d \in Data : WriteSector(s, d) \/ WriteFails(s, d)

DiskSpec == DiskInit /\ [][DiskNext]_diskVars

(***************************************************************************)
(* Properties.                                                             *)
(***************************************************************************)
\* A read gives what the disk holds, from the cache or not, after any reads,
\* writes, evictions and failures, unless a failed write reached the disk; and the
\* list that decides what to drop names exactly the sectors in the cache.
CacheCoherent ==
    /\ \A s \in DOMAIN cache : cache[s] = disk[s] \/ s \in torn
    /\ result.ok => result.data = disk[result.sector] \/ result.sector \in torn
    /\ Range(order) = DOMAIN cache
    /\ Len(order) <= CacheSize
================================================================================
