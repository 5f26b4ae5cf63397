---------------------------- MODULE ChannelsProofs ----------------------------
(***************************************************************************)
(* Proofs about message queues and pipes, for every set of processes and   *)
(* of messages or characters and every size of the buffer: the circular    *)
(* buffers implement first-in first-out channels, the counts and flags     *)
(* keep them alive while somebody uses them, and nobody stays blocked on   *)
(* data or a place that is there.                                          *)
(***************************************************************************)
EXTENDS MessageQueue, Pipe, FiniteSetTheorems, TLAPS

(***************************************************************************)
(* The circular buffer.                                                    *)
(***************************************************************************)
\* The place to write is the one behind the last one used.
WellFormed(b) ==
    /\ b \in Ring
    /\ \/ (b.rd + Used(b) < Size) /\ (b.wr = b.rd + Used(b))
       \/ (b.rd + Used(b) >= Size) /\ (b.wr = b.rd + Used(b) - Size)

\* Sequences of one length with the same entries are the same.
LEMMA SameSequence ==
    ASSUME NEW S, NEW s \in Seq(S), NEW t \in Seq(S), Len(t) = Len(s),
           \A i \in 1 .. Len(s) : s[i] = t[i]
    PROVE  s = t
OBVIOUS

\* The contents of a buffer are a sequence as long as its used places.
LEMMA ContentsSeq ==
    ASSUME NEW b, b \in Ring
    PROVE  /\ Used(b) \in 0 .. Size
           /\ \A i \in 1 .. Used(b) : Place(b, i) \in Index
           /\ Contents(b) \in Seq(Item)
           /\ Len(Contents(b)) = Used(b)
<1>1. Used(b) \in 0 .. Size
  BY SizeAssumption DEF Ring, Used
<1>2. \A i \in 1 .. Used(b) : Place(b, i) \in Index
  BY <1>1, SizeAssumption DEF Ring, Place, Index
<1>3. \A i \in 1 .. Used(b) : b.data[Place(b, i)] \in Item
  BY <1>2, Zenon DEF Ring
<1>4. Contents(b) \in [1 .. Used(b) -> Item]
  BY <1>3, Zenon DEF Contents
<1>5. Used(b) \in Nat
  BY <1>1
<1>6. Contents(b) \in Seq(Item)
  BY <1>4, <1>5
<1>7. Len(Contents(b)) = Used(b)
  BY <1>4, <1>5
<1>. QED
  BY <1>1, <1>2, <1>6, <1>7, Zenon

\* A new buffer is well formed and empty.
LEMMA FreshEmpty == WellFormed(Fresh) /\ Used(Fresh) = 0 /\ Contents(Fresh) = <<>>
<1>1. (CHOOSE y \in Item : TRUE) \in Item
  BY QueueAssumption, Zenon
<1>2. Fresh \in Ring
  <2>1. Fresh.data \in [Index -> Item]
    BY <1>1, Zenon DEF Fresh
  <2>2. 0 \in Index /\ Size \in 0 .. Size
    BY SizeAssumption DEF Index
  <2>. QED
    BY <2>1, <2>2, Zenon DEF Fresh, Ring
<1>3. Used(Fresh) = 0
  BY SizeAssumption DEF Used, Fresh
<1>4. WellFormed(Fresh)
  BY <1>2, <1>3, SizeAssumption DEF WellFormed, Fresh
<1>5. Contents(Fresh) \in Seq(Item) /\ Len(Contents(Fresh)) = 0
  BY <1>2, <1>3, ContentsSeq, Zenon
<1>. QED
  BY <1>3, <1>4, <1>5

\* Writing puts the message behind the others.
LEMMA PutAppends ==
    ASSUME NEW b, WellFormed(b), b.free # 0, NEW x \in Item
    PROVE  /\ WellFormed(Put(b, x))
           /\ Used(Put(b, x)) = Used(b) + 1
           /\ \A i \in 1 .. Used(b) : Contents(Put(b, x))[i] = Contents(b)[i]
<1>. DEFINE c == Put(b, x)
<1>1. b \in Ring /\ b.wr \in Index /\ b.rd \in Index /\ b.free \in 1 .. Size
  BY SizeAssumption DEF WellFormed, Ring
<1>2. c.rd = b.rd /\ c.free = b.free - 1 /\ c.wr = Following(b.wr)
      /\ c.data = [b.data EXCEPT ![b.wr] = x]
  BY Zenon DEF Put
<1>3. Following(b.wr) \in Index
  BY <1>1, SizeAssumption DEF Following, Index
<1>4. c.data \in [Index -> Item]
  BY <1>1, <1>2, Zenon DEF Ring
<1>5. c \in Ring
  BY <1>1, <1>2, <1>3, <1>4, SizeAssumption DEF Ring, Put
<1>6. Used(c) = Used(b) + 1
  BY <1>1, <1>2, SizeAssumption DEF Used
<1>7. WellFormed(c)
  BY <1>1, <1>2, <1>5, <1>6, SizeAssumption DEF WellFormed, Used, Following, Index
<1>8. ASSUME NEW i \in 1 .. Used(b) PROVE Contents(c)[i] = Contents(b)[i]
  <2>1. Place(b, i) \in Index /\ Place(c, i) = Place(b, i)
    BY <1>1, <1>2, ContentsSeq, Zenon DEF Place
  <2>2. Place(b, i) # b.wr
    BY <1>1, SizeAssumption DEF WellFormed, Place, Used, Index
  <2>3. c.data[Place(b, i)] = b.data[Place(b, i)]
    BY <1>1, <1>2, <2>1, <2>2, Zenon DEF Ring
  <2>4. i \in 1 .. Used(c)
    BY <1>1, <1>6, ContentsSeq
  <2>. QED
    BY <2>1, <2>3, <2>4, Zenon DEF Contents
<1>. QED
  BY <1>6, <1>7, <1>8, Zenon

\* Reading takes the oldest message and leaves the others.
LEMMA GetTakes ==
    ASSUME NEW b, WellFormed(b), Used(b) # 0
    PROVE  /\ WellFormed(Get(b))
           /\ Used(Get(b)) = Used(b) - 1
           /\ Oldest(b) \in Item
           /\ Contents(b)[1] = Oldest(b)
           /\ \A i \in 1 .. Used(b) - 1 : Contents(Get(b))[i] = Contents(b)[i + 1]
<1>. DEFINE c == Get(b)
<1>1. b \in Ring /\ b.wr \in Index /\ b.rd \in Index /\ b.free \in 0 .. Size - 1
  BY SizeAssumption DEF WellFormed, Ring, Used
<1>2. c.rd = Following(b.rd) /\ c.free = b.free + 1 /\ c.wr = b.wr
      /\ c.data = b.data
  BY Zenon DEF Get
<1>3. Following(b.rd) \in Index
  BY <1>1, SizeAssumption DEF Following, Index
<1>5. c \in Ring
  BY <1>1, <1>2, <1>3, SizeAssumption DEF Ring, Get
<1>6. Used(c) = Used(b) - 1
  BY <1>1, <1>2, SizeAssumption DEF Used
<1>7. WellFormed(c)
  BY <1>1, <1>2, <1>5, <1>6, SizeAssumption DEF WellFormed, Used, Following, Index
<1>8. Oldest(b) \in Item
  BY <1>1, Zenon DEF Oldest, Ring
<1>9. Contents(b)[1] = Oldest(b)
  <2>1. 1 \in 1 .. Used(b)
    BY <1>1, ContentsSeq
  <2>2. Place(b, 1) = b.rd
    BY <1>1, SizeAssumption DEF Place, Index
  <2>. QED
    BY <2>1, <2>2, Zenon DEF Contents, Oldest
<1>10. ASSUME NEW i \in 1 .. Used(b) - 1 PROVE Contents(c)[i] = Contents(b)[i + 1]
  <2>1. i \in 1 .. Used(c) /\ i + 1 \in 1 .. Used(b)
    BY <1>1, <1>6, ContentsSeq
  <2>2. Place(c, i) = Place(b, i + 1)
    <3>1. i \in 1 .. Size - 1
      BY <1>1, ContentsSeq, SizeAssumption
    <3>2. CASE b.rd + 1 = Size
      BY <1>1, <1>2, <3>1, <3>2, SizeAssumption DEF Place, Following, Index
    <3>3. CASE b.rd + 1 # Size
      BY <1>1, <1>2, <3>1, <3>3, SizeAssumption DEF Place, Following, Index
    <3>. QED
      BY <3>2, <3>3, Zenon
  <2>3. Contents(c)[i] = c.data[Place(c, i)]
    BY <2>1, Zenon DEF Contents
  <2>4. Contents(b)[i + 1] = b.data[Place(b, i + 1)]
    BY <2>1, Zenon DEF Contents
  <2>. QED
    BY <1>2, <2>2, <2>3, <2>4, Zenon
<1>. QED
  BY <1>6, <1>7, <1>8, <1>9, <1>10, Zenon

(***************************************************************************)
(* The inductive invariant: TypeOK, a well-formed buffer, the store's      *)
(* count, and that a process blocked on the queue has it open.             *)
(***************************************************************************)
QueueInv ==
    /\ TypeOK
    /\ WellFormed(buffer)
    /\ StoreCounts
    /\ NoMissedMessage
    /\ \A p \in mEmptyWQ : file[p] = "read" /\ op[p] # None
    /\ \A p \in mFullWQ : file[p] = "write" /\ op[p] # None

\* The sets of open files are finite.
LEMMA FilesFinite ==
    /\ IsFiniteSet(Readers) /\ IsFiniteSet(Writers)
    /\ Cardinality(Readers) \in Nat /\ Cardinality(Writers) \in Nat
BY QueueAssumption, FS_Subset, FS_CardinalityType, Zenon DEF Readers, Writers

\* Opening and closing a file change the count of its kind by one and leave the
\* other alone.
LEMMA OpenCounts ==
    ASSUME TypeOK, NEW p \in Process, NEW mode \in {"read", "write"},
           file[p] = None, file' = [file EXCEPT ![p] = mode]
    PROVE  /\ Cardinality(Readers') = Cardinality(Readers) + (IF mode = "read" THEN 1 ELSE 0)
           /\ Cardinality(Writers') = Cardinality(Writers) + (IF mode = "write" THEN 1 ELSE 0)
<1>0. None \notin {"read", "write"}
  BY QueueAssumption, Zenon
<1>1. CASE mode = "read"
  <2>1. Readers' = Readers \cup {p} /\ p \notin Readers /\ Writers' = Writers
    BY <1>1, <1>0, Zenon DEF TypeOK, Readers, Writers
  <2>2. Cardinality(Readers \cup {p}) = Cardinality(Readers) + 1
    BY <2>1, FilesFinite, FS_AddElement, Zenon
  <2>. QED
    BY <1>1, <2>1, <2>2, FilesFinite
<1>2. CASE mode = "write"
  <2>1. Writers' = Writers \cup {p} /\ p \notin Writers /\ Readers' = Readers
    BY <1>2, <1>0, Zenon DEF TypeOK, Readers, Writers
  <2>2. Cardinality(Writers \cup {p}) = Cardinality(Writers) + 1
    BY <2>1, FilesFinite, FS_AddElement, Zenon
  <2>. QED
    BY <1>2, <2>1, <2>2, FilesFinite
<1>. QED
  BY <1>1, <1>2, Zenon

LEMMA CloseCounts ==
    ASSUME TypeOK, NEW p \in Process,
           file[p] # None, file' = [file EXCEPT ![p] = None]
    PROVE  /\ Cardinality(Readers') = Cardinality(Readers) - (IF file[p] = "read" THEN 1 ELSE 0)
           /\ Cardinality(Writers') = Cardinality(Writers) - (IF file[p] = "write" THEN 1 ELSE 0)
<1>0. None \notin {"read", "write"}
  BY QueueAssumption, Zenon
<1>1. CASE file[p] = "read"
  <2>1. Readers' = Readers \ {p} /\ p \in Readers /\ Writers' = Writers
    BY <1>1, <1>0, Zenon DEF TypeOK, Readers, Writers
  <2>2. Cardinality(Readers \ {p}) = Cardinality(Readers) - 1
    BY <2>1, FilesFinite, FS_RemoveElement, Zenon
  <2>. QED
    BY <1>1, <2>1, <2>2, FilesFinite
<1>2. CASE file[p] = "write"
  <2>1. Writers' = Writers \ {p} /\ p \in Writers /\ Readers' = Readers
    BY <1>2, <1>0, Zenon DEF TypeOK, Readers, Writers
  <2>2. Cardinality(Writers \ {p}) = Cardinality(Writers) - 1
    BY <2>1, FilesFinite, FS_RemoveElement, Zenon
  <2>. QED
    BY <1>2, <2>1, <2>2, FilesFinite
<1>. QED
  BY <1>1, <1>2, Zenon DEF TypeOK

\* Who closes the last reference is the only one with the queue open.
LEMMA LastOneOut ==
    ASSUME QueueInv, NEW p \in Process, file[p] # None, refs = 1
    PROVE  \A q \in Process : file[q] # None => q = p
<1>. SUFFICES ASSUME NEW q \in Process, file[q] # None, q # p PROVE FALSE
  BY Zenon
<1>0. file[p] \in {"read", "write"} /\ file[q] \in {"read", "write"}
  BY Zenon DEF QueueInv, TypeOK
<1>1. Cardinality(Readers) + Cardinality(Writers) <= 1
  BY FilesFinite DEF QueueInv, TypeOK, StoreCounts
<1>2. \A r \in Readers : Cardinality(Readers) = Cardinality(Readers \ {r}) + 1
                        /\ IsFiniteSet(Readers \ {r})
                        /\ Cardinality(Readers \ {r}) \in Nat
  <2>. SUFFICES ASSUME NEW r \in Readers
                PROVE  /\ Cardinality(Readers) = Cardinality(Readers \ {r}) + 1
                       /\ IsFiniteSet(Readers \ {r})
                       /\ Cardinality(Readers \ {r}) \in Nat
    BY Zenon
  <2>1. /\ IsFiniteSet(Readers \ {r})
        /\ Cardinality(Readers \ {r}) = Cardinality(Readers) - 1
    BY FilesFinite, FS_RemoveElement, Zenon
  <2>2. Cardinality(Readers \ {r}) \in Nat
    BY <2>1, FS_CardinalityType, Zenon
  <2>. QED
    BY <2>1, <2>2, FilesFinite
<1>3. \A r \in Writers : Cardinality(Writers) = Cardinality(Writers \ {r}) + 1
                        /\ IsFiniteSet(Writers \ {r})
                        /\ Cardinality(Writers \ {r}) \in Nat
  <2>. SUFFICES ASSUME NEW r \in Writers
                PROVE  /\ Cardinality(Writers) = Cardinality(Writers \ {r}) + 1
                       /\ IsFiniteSet(Writers \ {r})
                       /\ Cardinality(Writers \ {r}) \in Nat
    BY Zenon
  <2>1. /\ IsFiniteSet(Writers \ {r})
        /\ Cardinality(Writers \ {r}) = Cardinality(Writers) - 1
    BY FilesFinite, FS_RemoveElement, Zenon
  <2>2. Cardinality(Writers \ {r}) \in Nat
    BY <2>1, FS_CardinalityType, Zenon
  <2>. QED
    BY <2>1, <2>2, FilesFinite
<1>4. CASE file[p] = "read" /\ file[q] = "read"
  <2>1. p \in Readers /\ q \in Readers \ {p}
    BY <1>4, Zenon DEF Readers
  <2>2. Cardinality(Readers \ {p}) # 0
    BY <1>2, <2>1, FS_EmptySet, Zenon
  <2>. QED
    BY <1>1, <1>2, <2>1, <2>2, FilesFinite
<1>5. CASE file[p] = "write" /\ file[q] = "write"
  <2>1. p \in Writers /\ q \in Writers \ {p}
    BY <1>5, Zenon DEF Writers
  <2>2. Cardinality(Writers \ {p}) # 0
    BY <1>3, <2>1, FS_EmptySet, Zenon
  <2>. QED
    BY <1>1, <1>3, <2>1, <2>2, FilesFinite
<1>6. CASE file[p] # file[q]
  <2>1. Readers # {} /\ Writers # {}
    BY <1>0, <1>6, Zenon DEF Readers, Writers
  <2>2. Cardinality(Readers) # 0 /\ Cardinality(Writers) # 0
    BY <2>1, FilesFinite, FS_EmptySet, Zenon
  <2>. QED
    BY <1>1, <2>2, FilesFinite
<1>. QED
  BY <1>0, <1>4, <1>5, <1>6, Zenon

\* Queues start empty.
LEMMA InvInit == Init => QueueInv
<1>. SUFFICES ASSUME Init PROVE QueueInv
  BY Zenon
<1>1. WellFormed(buffer) /\ buffer \in Ring
  BY FreshEmpty, Zenon DEF Init, WellFormed
<1>2. TypeOK
  <2>1. got \in Seq(Item)
    BY DEF Init
  <2>2. /\ file \in [Process -> {"read", "write", None}]
        /\ mBlock \in [Process -> BOOLEAN]
        /\ op \in [Process -> Item \cup {Reading, None}]
    BY Zenon DEF Init
  <2>3. /\ mNumReaders \in Int /\ mNumWriters \in Int /\ refs \in Int /\ leaked \in Nat
        /\ mEmptyWQ \subseteq Process /\ mFullWQ \subseteq Process
    BY DEF Init
  <2>4. panic \in BOOLEAN
    BY Zenon DEF Init
  <2>. QED
    BY <1>1, <2>1, <2>2, <2>3, <2>4, Zenon DEF TypeOK
<1>3. Readers = {} /\ Writers = {}
  BY QueueAssumption, Zenon DEF Init, Readers, Writers
<1>4. StoreCounts
  BY <1>3, FS_EmptySet DEF Init, StoreCounts
<1>. QED
  BY <1>1, <1>2, <1>4, Zenon DEF Init, QueueInv, NoMissedMessage

\* Steps that move no file keep the counts.
LEMMA CountsKept ==
    ASSUME StoreCounts, UNCHANGED <<storeVars, file>>
    PROVE  StoreCounts'
BY Zenon DEF StoreCounts, storeVars, Readers, Writers

LEMMA OpenInv ==
    ASSUME QueueInv, NEW p \in Process, NEW mode \in {"read", "write"}, Open(p, mode)
    PROVE  QueueInv'
<1>1. TypeOK'
  BY DEF QueueInv, TypeOK, Open, Acquire
<1>2. StoreCounts'
  <2>1. TypeOK /\ file[p] = None /\ file' = [file EXCEPT ![p] = mode]
    BY Zenon DEF QueueInv, Open
  <2>2. /\ Cardinality(Readers') = Cardinality(Readers) + (IF mode = "read" THEN 1 ELSE 0)
        /\ Cardinality(Writers') = Cardinality(Writers) + (IF mode = "write" THEN 1 ELSE 0)
    BY <2>1, OpenCounts, Zenon
  <2>3. StoreCounts /\ leaked \in Nat /\ refs \in Int
    BY Zenon DEF QueueInv, TypeOK
  <2>4. /\ mNumReaders' = mNumReaders + (IF mode = "read" THEN 1 ELSE 0)
        /\ mNumWriters' = mNumWriters + (IF mode = "write" THEN 1 ELSE 0)
        /\ refs' = refs + 1 /\ leaked' = leaked
    BY DEF QueueInv, TypeOK, Open, Acquire
  <2>. QED
    BY <2>2, <2>3, <2>4, FilesFinite DEF StoreCounts
<1>3. /\ \A q \in mEmptyWQ' : file'[q] = "read" /\ op'[q] # None
      /\ \A q \in mFullWQ' : file'[q] = "write" /\ op'[q] # None
  BY Zenon DEF QueueInv, TypeOK, Open, InUserCode, Awake
<1>. QED
  BY <1>1, <1>2, <1>3, Zenon DEF QueueInv, NoMissedMessage, Open

LEMMA OpenNeitherInv ==
    ASSUME QueueInv, NEW p \in Process, OpenNeither(p)
    PROVE  QueueInv'
<1>1. TypeOK'
  BY DEF QueueInv, TypeOK, OpenNeither, Acquire, clientVars
<1>2. StoreCounts'
  <2>1. Readers' = Readers /\ Writers' = Writers
    BY Zenon DEF OpenNeither, clientVars, Readers, Writers
  <2>2. /\ mNumReaders' = mNumReaders /\ mNumWriters' = mNumWriters
        /\ refs' = refs + 1 /\ leaked' = leaked + 1 /\ leaked \in Nat
    BY Zenon DEF QueueInv, TypeOK, OpenNeither, Acquire
  <2>. QED
    BY <2>1, <2>2, FilesFinite DEF QueueInv, StoreCounts
<1>. QED
  BY <1>1, <1>2, Zenon DEF QueueInv, NoMissedMessage, OpenNeither, clientVars

LEMMA CloseInv ==
    ASSUME QueueInv, NEW p \in Process, Close(p)
    PROVE  QueueInv'
<1>1. WellFormed(buffer')
  BY FreshEmpty, Zenon DEF QueueInv, Close
<1>2. TypeOK'
  BY <1>1 DEF QueueInv, TypeOK, Close, WellFormed
<1>3. StoreCounts'
  <2>1. TypeOK /\ file[p] # None /\ file' = [file EXCEPT ![p] = None]
    BY Zenon DEF QueueInv, Close
  <2>2. /\ Cardinality(Readers') = Cardinality(Readers) - (IF file[p] = "read" THEN 1 ELSE 0)
        /\ Cardinality(Writers') = Cardinality(Writers) - (IF file[p] = "write" THEN 1 ELSE 0)
    BY <2>1, CloseCounts, Zenon
  <2>3. /\ StoreCounts /\ leaked \in Nat /\ refs \in Int
        /\ file[p] \in {"read", "write"}
    BY <2>1, Zenon DEF QueueInv, TypeOK
  <2>4. /\ mNumReaders' = mNumReaders - (IF file[p] = "read" THEN 1 ELSE 0)
        /\ mNumWriters' = mNumWriters - (IF file[p] = "write" THEN 1 ELSE 0)
        /\ refs' = refs - 1 /\ leaked' = leaked
    BY DEF QueueInv, TypeOK, Close
  <2>. QED
    BY <2>2, <2>3, <2>4, FilesFinite DEF StoreCounts
<1>4. /\ \A q \in mEmptyWQ' : file'[q] = "read" /\ op'[q] # None
      /\ \A q \in mFullWQ' : file'[q] = "write" /\ op'[q] # None
  BY Zenon DEF QueueInv, TypeOK, Close, InUserCode, Awake
<1>5. NoMissedMessage'
  <2>1. CASE refs = 1
    <3>1. mFullWQ = {}
      BY <2>1, LastOneOut, QueueAssumption
      DEF Close, InUserCode, Awake, QueueInv, TypeOK
    <3>. QED
      BY <2>1, <3>1, FreshEmpty, Zenon DEF Close, NoMissedMessage
  <2>2. CASE refs # 1
    BY <2>2, Zenon DEF QueueInv, Close, NoMissedMessage
  <2>. QED
    BY <2>1, <2>2, Zenon
<1>. QED
  BY <1>1, <1>2, <1>3, <1>4, <1>5, Zenon DEF QueueInv

\* A call that returns nothing.
LEMMA NothingInv ==
    ASSUME QueueInv, NEW p \in Process, Done(p), Awake(p), got' = <<>>,
           UNCHANGED <<buffer, storeVars, file, mBlock, mEmptyWQ, mFullWQ, panic>>
    PROVE  QueueInv'
<1>1. TypeOK'
  BY DEF QueueInv, TypeOK, Done, storeVars
<1>2. StoreCounts'
  BY CountsKept, Zenon DEF QueueInv
<1>. QED
  BY <1>1, <1>2 DEF QueueInv, TypeOK, NoMissedMessage, Done, Awake

LEMMA ReadBlocksInv ==
    ASSUME QueueInv, NEW p \in Process, ReadBlocks(p)
    PROVE  QueueInv'
<1>1. TypeOK'
  BY DEF QueueInv, TypeOK, ReadBlocks, storeVars
<1>2. StoreCounts'
  BY CountsKept, Zenon DEF QueueInv, ReadBlocks
<1>3. /\ \A q \in mEmptyWQ' : file'[q] = "read" /\ op'[q] # None
      /\ \A q \in mFullWQ' : file'[q] = "write" /\ op'[q] # None
  BY QueueAssumption DEF QueueInv, TypeOK, ReadBlocks
<1>. QED
  BY <1>1, <1>2, <1>3, Zenon DEF QueueInv, NoMissedMessage, ReadBlocks

LEMMA WriteBlocksInv ==
    ASSUME QueueInv, NEW p \in Process, NEW m \in Item, WriteBlocks(p, m)
    PROVE  QueueInv'
<1>1. TypeOK'
  BY DEF QueueInv, TypeOK, WriteBlocks, storeVars
<1>2. StoreCounts'
  BY CountsKept, Zenon DEF QueueInv, WriteBlocks
<1>3. /\ \A q \in mEmptyWQ' : file'[q] = "read" /\ op'[q] # None
      /\ \A q \in mFullWQ' : file'[q] = "write" /\ op'[q] # None
  BY QueueAssumption DEF QueueInv, TypeOK, WriteBlocks
<1>. QED
  BY <1>1, <1>2, <1>3, Zenon DEF QueueInv, NoMissedMessage, WriteBlocks

LEMMA ReadMessageInv ==
    ASSUME QueueInv, NEW p \in Process, ReadMessage(p)
    PROVE  QueueInv'
<1>1. WellFormed(buffer') /\ Oldest(buffer) \in Item
  BY GetTakes, Zenon DEF QueueInv, ReadMessage
<1>2. TypeOK'
  <2>1. got' \in Seq(Item)
    BY <1>1 DEF ReadMessage
  <2>. QED
    BY <1>1, <2>1, Zenon DEF QueueInv, TypeOK, ReadMessage, Done, storeVars, WellFormed
<1>3. StoreCounts'
  BY CountsKept, Zenon DEF QueueInv, ReadMessage
<1>4. NoMissedMessage'
  BY Zenon DEF QueueInv, NoMissedMessage, ReadMessage
<1>5. /\ \A q \in mEmptyWQ' : file'[q] = "read" /\ op'[q] # None
      /\ \A q \in mFullWQ' : file'[q] = "write" /\ op'[q] # None
  BY Zenon DEF QueueInv, TypeOK, ReadMessage, Done, Inside, Awake
<1>. QED
  BY <1>1, <1>2, <1>3, <1>4, <1>5, Zenon DEF QueueInv

LEMMA WriteMessageInv ==
    ASSUME QueueInv, NEW p \in Process, NEW m \in Item, WriteMessage(p, m)
    PROVE  QueueInv'
<1>1. WellFormed(buffer')
  BY PutAppends, Zenon DEF QueueInv, WriteMessage
<1>2. TypeOK'
  BY <1>1 DEF QueueInv, TypeOK, WriteMessage, Done, storeVars, WellFormed, LeftWaiting
<1>3. StoreCounts'
  BY CountsKept, Zenon DEF QueueInv, WriteMessage
<1>4. NoMissedMessage'
  BY Zenon DEF QueueInv, NoMissedMessage, WriteMessage, LeftWaiting
<1>5. /\ \A q \in mEmptyWQ' : file'[q] = "read" /\ op'[q] # None
      /\ \A q \in mFullWQ' : file'[q] = "write" /\ op'[q] # None
  BY Zenon DEF QueueInv, TypeOK, WriteMessage, Done, Inside, Awake, LeftWaiting
<1>. QED
  BY <1>1, <1>2, <1>3, <1>4, <1>5, Zenon DEF QueueInv

LEMMA SetBlockInv ==
    ASSUME QueueInv, NEW p \in Process, NEW b \in BOOLEAN, SetBlock(p, b)
    PROVE  QueueInv'
<1>1. TypeOK'
  <2>1. mBlock' \in [Process -> BOOLEAN]
    BY Zenon DEF QueueInv, TypeOK, SetBlock
  <2>. QED
    BY <2>1 DEF QueueInv, TypeOK, SetBlock, storeVars
<1>2. StoreCounts'
  BY CountsKept, Zenon DEF QueueInv, SetBlock
<1>. QED
  BY <1>1, <1>2, Zenon DEF QueueInv, NoMissedMessage, SetBlock

\* Every step keeps the invariant.
LEMMA InvNext == QueueInv /\ [Next]_vars => QueueInv'
<1>. SUFFICES ASSUME QueueInv, [Next]_vars PROVE QueueInv'
  BY Zenon
<1>1. CASE UNCHANGED vars
  <2>1. TypeOK'
    BY <1>1, Zenon DEF QueueInv, TypeOK, vars, storeVars, clientVars
  <2>2. StoreCounts'
    BY <1>1, CountsKept, Zenon DEF QueueInv, vars, clientVars
  <2>. QED
    BY <1>1, <2>1, <2>2, Zenon DEF QueueInv, NoMissedMessage, vars, clientVars
<1>2. CASE Next
  <2>1. PICK p \in Process :
            \/ \E mode \in {"read", "write"} : Open(p, mode)
            \/ OpenNeither(p)
            \/ Close(p)
            \/ ReadNothing(p) \/ ReadBlocks(p) \/ ReadMessage(p)
            \/ \E m \in Item :
                  WriteNothing(p, m) \/ WriteBlocks(p, m) \/ WriteMessage(p, m)
            \/ \E b \in BOOLEAN : SetBlock(p, b)
    BY <1>2, Zenon DEF Next
  <2>2. CASE ReadNothing(p)
    BY <2>2, NothingInv, Zenon DEF ReadNothing, Inside
  <2>3. ASSUME NEW m \in Item, WriteNothing(p, m) PROVE QueueInv'
    BY <2>3, NothingInv, Zenon DEF WriteNothing, Inside
  <2>. QED
    BY <2>1, <2>2, <2>3, OpenInv, OpenNeitherInv, CloseInv, ReadBlocksInv,
       ReadMessageInv, WriteBlocksInv, WriteMessageInv, SetBlockInv, Zenon
<1>. QED
  BY <1>1, <1>2, Zenon

\* Every state the opens, reads, writes and closes of a queue lead to satisfies
\* the inductive invariant.
THEOREM QueueInvHolds == Spec => []QueueInv
BY InvInit, InvNext, PTL DEF Spec

\* The store's count is right at all times, so that a message queue lives exactly
\* as long as doOpen's and doClose's callers have it open.
THEOREM StoreAlwaysCounts == Spec => []StoreCounts
<1>1. QueueInv => StoreCounts
  BY Zenon DEF QueueInv
<1>. QED
  BY <1>1, QueueInvHolds, PTL

\* No reader is ever blocked while a message is there and no writer while there
\* is space, for any number of processes.
THEOREM NeverMissesMessages == Spec => []NoMissedMessage
<1>1. QueueInv => NoMissedMessage
  BY Zenon DEF QueueInv
<1>. QED
  BY <1>1, QueueInvHolds, PTL

\* doClose reaches its PANIC only if an open that gave no file was counted: the
\* store's count is otherwise the number of open files.
THEOREM PanicsOnlyOnLeaks == Spec => []OnlyLeaksPanic
<1>1. Init => OnlyLeaksPanic
  BY Zenon DEF Init, OnlyLeaksPanic
<1>2. ASSUME QueueInv, QueueInv', OnlyLeaksPanic, [Next]_vars
      PROVE  OnlyLeaksPanic'
  <2>1. leaked \in Nat /\ leaked' \in Nat /\ refs \in Int /\ refs' \in Int
    BY <1>2, Zenon DEF QueueInv, TypeOK
  <2>2. ASSUME NEW p \in Process, Close(p) PROVE OnlyLeaksPanic'
    <3>1. refs' = mNumReaders' + mNumWriters' + leaked'
      BY <1>2, Zenon DEF QueueInv, StoreCounts
    <3>2. refs' = refs - 1 /\ panic' = (mNumReaders' = 0 /\ mNumWriters' = 0 /\ refs # 1)
      BY <2>2, Zenon DEF Close
    <3>3. panic' => mNumReaders' = 0 /\ mNumWriters' = 0 /\ refs # 1
      BY <3>2, Zenon
    <3>4. ASSUME mNumReaders' = 0, mNumWriters' = 0, refs # 1 PROVE leaked' > 0
      <4>1. refs - 1 = 0 + 0 + leaked'
        BY <3>1, <3>2, <3>4, Zenon
      <4>2. \A r \in Int, l \in Nat : r # 1 /\ r - 1 = 0 + 0 + l => l > 0
        OBVIOUS
      <4>. QED
        BY <2>1, <3>4, <4>1, <4>2, Zenon
    <3>. QED
      BY <3>3, <3>4, Zenon DEF OnlyLeaksPanic
  <2>3. ASSUME NEW p \in Process, OpenNeither(p) PROVE OnlyLeaksPanic'
    BY <1>2, <2>1, <2>3 DEF OpenNeither, OnlyLeaksPanic
  <2>4. ASSUME UNCHANGED <<leaked, panic>> PROVE OnlyLeaksPanic'
    BY <1>2, <2>4, Zenon DEF OnlyLeaksPanic
  <2>5. CASE UNCHANGED vars
    BY <2>4, <2>5, Zenon DEF vars, storeVars
  <2>6. ASSUME NEW p \in Process,
               \/ \E mode \in {"read", "write"} : Open(p, mode)
               \/ ReadNothing(p) \/ ReadBlocks(p) \/ ReadMessage(p)
               \/ \E m \in Item : WriteNothing(p, m) \/ WriteBlocks(p, m)
                                                    \/ WriteMessage(p, m)
               \/ \E b \in BOOLEAN : SetBlock(p, b)
        PROVE  OnlyLeaksPanic'
    BY <2>4, <2>6, Zenon DEF Open, ReadNothing, ReadBlocks, ReadMessage, WriteNothing,
                      WriteBlocks, WriteMessage, SetBlock, storeVars
  <2>. QED
    BY <1>2, <2>2, <2>3, <2>5, <2>6, Zenon DEF Next
<1>. QED
  BY <1>1, <1>2, QueueInvHolds, PTL DEF Spec

(***************************************************************************)
(* Refinement: each step is a step of the channel.                         *)
(***************************************************************************)
LEMMA WriteSends ==
    ASSUME QueueInv, NEW p \in Process, NEW m \in Item, WriteMessage(p, m)
    PROVE  C!Send
<1>. DEFINE s == Contents(buffer)
            t == Contents(buffer')
<1>1. /\ WellFormed(buffer) /\ buffer \in Ring
      /\ WellFormed(buffer') /\ buffer' \in Ring
      /\ Used(buffer') = Used(buffer) + 1
      /\ \A i \in 1 .. Used(buffer) : t[i] = s[i]
  BY PutAppends DEF QueueInv, WriteMessage, WellFormed
<1>2. s \in Seq(Item) /\ Len(s) = Used(buffer) /\ Used(buffer) \in Nat
  BY <1>1, ContentsSeq
<1>3. t \in Seq(Item) /\ Len(t) = Used(buffer') /\ Used(buffer') \in 0 .. Size
  BY <1>1, ContentsSeq, Zenon
<1>4. s = SubSeq(t, 1, Len(s))
  BY <1>1, <1>2, <1>3
<1>5. Len(s) < Len(t) /\ Len(t) <= Size
  BY <1>1, <1>2, <1>3, SizeAssumption
<1>. QED
  BY <1>4, <1>5, Zenon DEF C!Send, WriteMessage

LEMMA ReadReceives ==
    ASSUME QueueInv, NEW p \in Process, ReadMessage(p)
    PROVE  C!Receive
<1>. DEFINE s == Contents(buffer)
            t == Contents(buffer')
<1>1. /\ WellFormed(buffer) /\ buffer \in Ring
      /\ WellFormed(buffer') /\ buffer' \in Ring
      /\ Used(buffer') = Used(buffer) - 1
      /\ Oldest(buffer) \in Item
      /\ s[1] = Oldest(buffer)
      /\ \A i \in 1 .. Used(buffer) - 1 : t[i] = s[i + 1]
  BY GetTakes, Zenon DEF QueueInv, ReadMessage, WellFormed
<1>2. s \in Seq(Item) /\ Len(s) = Used(buffer) /\ Used(buffer) \in Nat
  BY <1>1, ContentsSeq
<1>3. t \in Seq(Item) /\ Len(t) = Used(buffer') /\ Used(buffer') \in Nat
  BY <1>1, ContentsSeq
<1>4. s = <<Oldest(buffer)>> \o t
  <2>1. Len(<<Oldest(buffer)>> \o t) = Len(s)
    BY <1>1, <1>2, <1>3
  <2>2. ASSUME NEW i \in 1 .. Len(s) PROVE s[i] = (<<Oldest(buffer)>> \o t)[i]
    BY <1>1, <1>2, <1>3
  <2>3. <<Oldest(buffer)>> \o t \in Seq(Item)
    BY <1>1, <1>3
  <2>. QED
    BY <1>2, <2>1, <2>2, <2>3, SameSequence, Zenon
<1>. QED
  BY <1>4, Zenon DEF C!Receive, ReadMessage

\* A message queue is a first-in first-out channel of Size messages: the readers
\* of MessageQueueBuffer get every message once, in the order of the writes.
THEOREM QueueIsChannel == Spec => QueueRefined
<1>1. Init => C!Init
  BY FreshEmpty, Zenon DEF Init, C!Init
<1>2. QueueInv /\ [Next]_vars => [C!Next]_<<Contents(buffer), got>>
  <2>. SUFFICES ASSUME QueueInv, [Next]_vars
                PROVE  [C!Next]_<<Contents(buffer), got>>
    BY Zenon
  <2>1. CASE UNCHANGED vars
    BY <2>1, Zenon DEF vars
  <2>2. ASSUME NEW p \in Process, Close(p) PROVE C!Next
    BY <2>2, FreshEmpty, Zenon DEF Close, C!Next, C!Discard, C!Idle
  <2>3. ASSUME got' = <<>>, buffer' = buffer PROVE C!Next
    BY <2>3, Zenon DEF C!Next, C!Idle
  <2>4. ASSUME NEW p \in Process,
               \/ \E mode \in {"read", "write"} : Open(p, mode)
               \/ OpenNeither(p)
               \/ ReadNothing(p) \/ ReadBlocks(p)
               \/ \E m \in Item : WriteNothing(p, m) \/ WriteBlocks(p, m)
               \/ \E b \in BOOLEAN : SetBlock(p, b)
        PROVE  C!Next
    BY <2>3, <2>4, Zenon DEF Open, OpenNeither, ReadNothing, ReadBlocks, WriteNothing,
                      WriteBlocks, SetBlock
  <2>5. ASSUME NEW p \in Process,
               ReadMessage(p) \/ \E m \in Item : WriteMessage(p, m)
        PROVE  C!Next
    BY <2>5, ReadReceives, WriteSends, Zenon DEF C!Next
  <2>. QED
    BY <2>1, <2>2, <2>4, <2>5, Zenon DEF Next
<1>. QED
  BY <1>1, <1>2, QueueInvHolds, PTL DEF Spec, QueueRefined, C!Spec

(***************************************************************************)
(* Pipes.  A read or a write moves several characters at once; the rest of *)
(* the inductive invariant is that the flags of the ends say whether       *)
(* somebody holds them and that only holders are inside a call.            *)
(***************************************************************************)
PipeInv ==
    /\ WellFormed(chars)
    /\ mReadFileOpen = (readers # {})
    /\ mWriteFileOpen = (writers # {})
    /\ call \in [Holder -> {NoCall} \cup ({"read"} \X Wanted) \cup ({"write"} \X Text)]
    /\ \A p \in Holder : call[p] # NoCall => p \in readers \cup writers
    /\ BlockedForReason

\* What a write is asked to write is a sequence of characters.
LEMMA TextIsSequence ==
    ASSUME NEW s \in Text
    PROVE  s \in Seq(Item) /\ Len(s) \in Nat
<1>1. PICK n \in Lengths : s \in [1 .. n -> Item]
  BY Zenon DEF Text
<1>2. n \in Nat
  BY PipeAssumption, Zenon
<1>. QED
  BY <1>1, <1>2

\* The first m entries of a sequence.
LEMMA FirstOnes ==
    ASSUME NEW S, NEW s \in Seq(S), NEW m \in 0 .. Len(s)
    PROVE  /\ SubSeq(s, 1, m) \in Seq(S) /\ Len(SubSeq(s, 1, m)) = m
           /\ \A i \in 1 .. m : SubSeq(s, 1, m)[i] = s[i]
OBVIOUS

\* The entries of two sequences joined.
LEMMA JoinedEntries ==
    ASSUME NEW S, NEW s \in Seq(S), NEW t \in Seq(S)
    PROVE  /\ \A i \in 1 .. Len(s) : (s \o t)[i] = s[i]
           /\ \A i \in 1 .. Len(t) : (s \o t)[Len(s) + i] = t[i]
OBVIOUS

\* Going along the places: a pointer stays inside, steps add up, and less than Size of
\* them lead to different places.
LEMMA AlongStays ==
    ASSUME NEW r \in Index, NEW k \in 0 .. Size
    PROVE  Along(r, k) \in Index
BY SizeAssumption DEF Along, Index

LEMMA AlongAdds ==
    ASSUME NEW r \in Index, NEW k \in Nat, NEW m \in Nat, k + m <= Size
    PROVE  Along(Along(r, k), m) = Along(r, k + m)
BY SizeAssumption DEF Along, Index

LEMMA AlongDiffers ==
    ASSUME NEW r \in Index, NEW i \in 0 .. Size - 1, NEW j \in 0 .. Size - 1, i # j
    PROVE  Along(r, i) # Along(r, j)
BY SizeAssumption DEF Along, Index

\* The places of a buffer, as steps from its read pointer.
LEMMA PlacesAlong ==
    ASSUME NEW b, b \in Ring
    PROVE  /\ WellFormed(b) <=> b.wr = Along(b.rd, Used(b))
           /\ \A i \in 1 .. Used(b) : Place(b, i) = Along(b.rd, i - 1)
<1>1. b.wr \in Index /\ b.rd \in Index /\ Used(b) \in 0 .. Size
  BY ContentsSeq, Zenon DEF Ring
<1>2. ASSUME NEW r \in Index, NEW w \in Index, NEW u \in 0 .. Size
      PROVE  (\/ (r + u < Size) /\ (w = r + u)
              \/ (r + u >= Size) /\ (w = r + u - Size)) <=> w = Along(r, u)
  BY SizeAssumption DEF Along, Index
<1>3. ASSUME NEW r \in Index, NEW i \in Nat
      PROVE  r + i - 1 = r + (i - 1)
  BY SizeAssumption DEF Index
<1>4. \A i \in 1 .. Used(b) : i \in Nat
  OBVIOUS
<1>5. \A i \in 1 .. Used(b) : Place(b, i) = Along(b.rd, i - 1)
  BY <1>1, <1>3, <1>4, Zenon DEF Place, Along
<1>. QED
  BY <1>1, <1>2, <1>5, Zenon DEF WellFormed

\* Reading takes the oldest characters and leaves the others.
LEMMA GetSomeTakes ==
    ASSUME WellFormed(chars), NEW n \in Nat
    PROVE  /\ WellFormed(GetSome(n))
           /\ Some(n) \in Seq(Item)
           /\ Len(Some(n)) = Atmost(n, Used(chars))
           /\ Used(GetSome(n)) = Used(chars) - Len(Some(n))
           /\ Contents(chars) = Some(n) \o Contents(GetSome(n))
<1>. DEFINE b == chars
            k == Atmost(n, Used(b))
            c == GetSome(n)
            s == Contents(b)
            t == Contents(c)
<1>1. b \in Ring /\ b.wr \in Index /\ b.rd \in Index /\ b.free \in 0 .. Size
      /\ b.data \in [Index -> Item]
  BY DEF WellFormed, Ring
<1>2. Used(b) \in 0 .. Size /\ Used(b) = Size - b.free
      /\ s \in Seq(Item) /\ Len(s) = Used(b)
  BY <1>1, ContentsSeq, Zenon DEF Used
<1>3. Used(b) \in 0 .. Size
  BY <1>2, Zenon
<1>4. k \in 0 .. Used(b)
  BY <1>3, SizeAssumption DEF Atmost
<1>5. c.rd = Along(b.rd, k) /\ c.free = b.free + k /\ c.wr = b.wr /\ c.data = b.data
      /\ c = [data |-> b.data, rd |-> Along(b.rd, k), wr |-> b.wr,
              free |-> b.free + k]
  BY Zenon DEF GetSome
<1>. HIDE DEF k, c
<1>6. Along(b.rd, k) \in Index /\ b.free + k \in 0 .. Size
  <2>1. k \in 0 .. Size
    BY <1>2, <1>4, SizeAssumption
  <2>2. ASSUME NEW f \in 0 .. Size, NEW m \in 0 .. Size - f PROVE f + m \in 0 .. Size
    BY SizeAssumption
  <2>. QED
    BY <1>1, <1>2, <1>4, <2>1, <2>2, AlongStays, Zenon
<1>7. c \in Ring
  BY <1>1, <1>5, <1>6, Zenon DEF Ring
<1>8. Used(c) = Used(b) - k
  BY <1>1, <1>2, <1>4, <1>5, SizeAssumption DEF Used
<1>9. WellFormed(c)
  <2>1. k \in Nat /\ Used(c) \in Nat /\ k + Used(c) = Used(b) /\ Used(b) <= Size
    BY <1>2, <1>4, <1>8, SizeAssumption
  <2>2. b.wr = Along(b.rd, Used(b))
    BY <1>1, PlacesAlong, Zenon
  <2>3. Along(c.rd, Used(c)) = Along(b.rd, k + Used(c))
    BY <1>1, <1>5, <2>1, AlongAdds, Zenon
  <2>. QED
    BY <1>5, <1>7, <2>1, <2>2, <2>3, PlacesAlong, Zenon
<1>10. Some(n) = SubSeq(s, 1, k)
  BY Zenon DEF Some, k
<1>11. Some(n) \in Seq(Item) /\ Len(Some(n)) = k /\ \A i \in 1 .. k : Some(n)[i] = s[i]
  BY <1>2, <1>4, <1>10, FirstOnes
<1>12. t \in Seq(Item) /\ Len(t) = Used(b) - k
  BY <1>7, <1>8, ContentsSeq, Zenon
<1>13. ASSUME NEW i \in 1 .. Used(b) - k PROVE t[i] = s[k + i]
  <2>1. i \in 1 .. Used(c) /\ k + i \in 1 .. Used(b)
    BY <1>2, <1>4, <1>8
  <2>2. Place(c, i) = Place(b, k + i)
    <3>1. k \in Nat /\ i - 1 \in Nat /\ k + (i - 1) = k + i - 1
          /\ k + (i - 1) <= Size
      BY <1>4, <1>3, <2>1, SizeAssumption
    <3>2. Along(c.rd, i - 1) = Along(b.rd, k + (i - 1))
      BY <1>1, <1>5, <3>1, AlongAdds, Zenon
    <3>3. Place(c, i) = Along(c.rd, i - 1)
      BY <1>7, <2>1, PlacesAlong, Zenon
    <3>4. PICK j \in 1 .. Used(b) : j = k + i
      BY <2>1, Zenon
    <3>5. Place(b, j) = Along(b.rd, j - 1)
      BY <1>1, PlacesAlong, Zenon
    <3>6. j - 1 = k + (i - 1)
      BY <3>1, <3>4
    <3>. QED
      BY <3>2, <3>3, <3>4, <3>5, <3>6, Zenon
  <2>3. t[i] = c.data[Place(c, i)]
    BY <2>1, Zenon DEF Contents
  <2>4. s[k + i] = b.data[Place(b, k + i)]
    BY <2>1, Zenon DEF Contents
  <2>. QED
    BY <1>5, <2>2, <2>3, <2>4, Zenon
<1>14. s = Some(n) \o t
  <2>. HIDE DEF s, t
  <2>1. Some(n) \o t \in Seq(Item) /\ Len(Some(n) \o t) = Len(s)
    BY <1>2, <1>4, <1>11, <1>12
  <2>2. ASSUME NEW i \in 1 .. Len(s) PROVE s[i] = (Some(n) \o t)[i]
    <3>1. CASE i <= k
      <4>1. i \in 1 .. k
        BY <1>2, <1>4, <3>1
      <4>2. (Some(n) \o t)[i] = Some(n)[i]
        BY <1>11, <1>12, <4>1, JoinedEntries, Zenon
      <4>. QED
        BY <1>11, <4>1, <4>2, Zenon
    <3>2. CASE i > k
      <4>1. i - k \in 1 .. Used(b) - k /\ k + (i - k) = i
        BY <1>2, <1>4, <1>3, <3>2
      <4>2. PICK j \in 1 .. Used(b) - k : k + j = i
        BY <4>1, Zenon
      <4>3. j \in 1 .. Len(t) /\ Len(Some(n)) = k
        BY <1>11, <1>12, <4>2, Zenon
      <4>4. Some(n) \in Seq(Item) /\ t \in Seq(Item)
        BY <1>11, <1>12, Zenon
      <4>5. (Some(n) \o t)[Len(Some(n)) + j] = t[j]
        BY <4>3, <4>4
      <4>6. t[j] = s[k + j]
        BY <1>13, <4>2, Zenon
      <4>. QED
        BY <4>2, <4>3, <4>5, <4>6, Zenon
    <3>3. i \in Int /\ k \in Int
      BY <1>4
    <3>4. i <= k \/ i > k
      BY <3>3
    <3>. QED
      BY <3>1, <3>2, <3>4, Zenon
  <2>. QED
    BY <1>2, <2>1, <2>2, SameSequence, Zenon
<1>. QED
  BY <1>8, <1>9, <1>11, <1>14, Zenon DEF k, c

\* Writing puts the characters that fit behind the others.
LEMMA PutSomeAppends ==
    ASSUME WellFormed(chars), NEW s \in Text
    PROVE  /\ WellFormed(PutSome(s))
           /\ Len(Fitting(s)) = Atmost(Len(s), chars.free)
           /\ Len(Fitting(s)) \in Nat
           /\ Used(PutSome(s)) = Used(chars) + Len(Fitting(s))
           /\ (Fitting(s) = <<>>) = (Len(Fitting(s)) = 0)
           /\ \A i \in 1 .. Used(chars) : Contents(PutSome(s))[i] = Contents(chars)[i]
<1>. DEFINE b == chars
            k == Atmost(Len(s), b.free)
            t == Fitting(s)
            d == [i \in Index |-> IF Written(t, i) = {} THEN b.data[i]
                                  ELSE t[CHOOSE j \in Written(t, i) : TRUE]]
            c == PutSome(s)
<1>1. b \in Ring /\ b.wr \in Index /\ b.rd \in Index /\ b.free \in 0 .. Size
      /\ b.data \in [Index -> Item]
  BY DEF WellFormed, Ring
<1>2. s \in Seq(Item) /\ Len(s) \in Nat
  BY TextIsSequence, Zenon
<1>3. k \in 0 .. Len(s) /\ k \in 0 .. b.free
  BY <1>1, <1>2, SizeAssumption DEF Atmost
<1>4. t = SubSeq(s, 1, k)
  BY Zenon DEF Fitting
<1>. HIDE DEF k
<1>5. t \in Seq(Item) /\ Len(t) = k
  BY <1>2, <1>3, <1>4, FirstOnes
<1>6. c = [data |-> d, rd |-> b.rd, wr |-> Along(b.wr, k), free |-> b.free - k]
  BY <1>5, Zenon DEF PutSome
<1>7. ASSUME NEW i \in Index PROVE d[i] \in Item
  <2>1. CASE Written(t, i) = {}
    BY <1>1, <2>1, Zenon
  <2>2. CASE Written(t, i) # {}
    <3>1. PICK j \in Written(t, i) : j = CHOOSE l \in Written(t, i) : TRUE
      BY <2>2, Zenon
    <3>2. j \in 1 .. Len(t)
      BY <3>1, Zenon DEF Written
    <3>3. t[j] \in Item
      BY <1>5, <3>2
    <3>. QED
      BY <2>2, <3>1, <3>3, Zenon
  <2>. QED
    BY <2>1, <2>2, Zenon
<1>8. d \in [Index -> Item]
  BY <1>7, Zenon
<1>9. ASSUME NEW i \in Index, Written(t, i) = {} PROVE d[i] = b.data[i]
  BY <1>9, Zenon
<1>. HIDE DEF c, d
<1>10. c.data = d /\ c.rd = b.rd /\ c.wr = Along(b.wr, k) /\ c.free = b.free - k
  BY <1>6, Zenon
<1>11. Along(b.wr, k) \in Index /\ b.free - k \in 0 .. Size
  <2>1. k \in 0 .. Size /\ b.free - k \in 0 .. Size
    BY <1>1, <1>3, SizeAssumption
  <2>. QED
    BY <1>1, <2>1, AlongStays, Zenon
<1>12. c \in Ring
  BY <1>1, <1>6, <1>8, <1>11, Zenon DEF Ring
<1>13. Used(c) = Used(b) + k
  BY <1>1, <1>3, <1>10, SizeAssumption DEF Used
<1>14. WellFormed(c)
  <2>1. k \in Nat /\ Used(b) \in Nat /\ Used(b) + k <= Size
    BY <1>1, <1>3, SizeAssumption DEF Used
  <2>2. b.wr = Along(b.rd, Used(b))
    BY <1>1, PlacesAlong, Zenon
  <2>3. Along(b.wr, k) = Along(b.rd, Used(b) + k)
    BY <1>1, <2>1, <2>2, AlongAdds, ZenonT(30)
  <2>. QED
    BY <1>10, <1>12, <1>13, <2>3, PlacesAlong, Zenon
<1>15. ASSUME NEW i \in 1 .. Used(b) PROVE Contents(c)[i] = Contents(b)[i]
  <2>1. Place(b, i) \in Index /\ Place(c, i) = Place(b, i)
    BY <1>1, <1>10, ContentsSeq, Zenon DEF Place
  <2>2. ASSUME NEW j \in 1 .. k PROVE Along(b.wr, j - 1) # Place(b, i)
    <3>1. /\ Used(b) \in Nat /\ j - 1 \in Nat /\ Used(b) + (j - 1) <= Size
          /\ i - 1 \in 0 .. Size - 1 /\ Used(b) + (j - 1) \in 0 .. Size - 1
          /\ i - 1 # Used(b) + (j - 1)
      <4>1. PICK u \in Nat, f \in Nat, n \in Nat :
                u = Used(b) /\ f = b.free /\ n = k /\ u = Size - f /\ n <= f
        BY <1>1, <1>3, SizeAssumption DEF Used
      <4>2. i \in 1 .. u /\ j \in 1 .. n
        BY <4>1, Zenon
      <4>3. /\ u \in Nat /\ j - 1 \in Nat /\ u + (j - 1) <= Size
            /\ i - 1 \in 0 .. Size - 1 /\ u + (j - 1) \in 0 .. Size - 1
            /\ i - 1 # u + (j - 1)
        BY ONLY <4>1, <4>2, SizeAssumption, SMT
      <4>. QED BY <4>1, <4>3, Zenon
    <3>2. Along(b.wr, j - 1) = Along(b.rd, Used(b) + (j - 1))
      BY <1>1, <3>1, AlongAdds, PlacesAlong, ZenonT(30)
    <3>3. Along(b.rd, Used(b) + (j - 1)) # Along(b.rd, i - 1)
      BY <1>1, <3>1, AlongDiffers, Zenon
    <3>4. Place(b, i) = Along(b.rd, i - 1)
      BY <1>1, PlacesAlong, Zenon
    <3>. QED
      BY <3>2, <3>3, <3>4, Zenon
  <2>3. Written(t, Place(b, i)) = {}
    BY <1>5, <2>2, Zenon DEF Written
  <2>4. c.data[Place(b, i)] = b.data[Place(b, i)]
    BY <1>10, <1>9, <2>1, <2>3, Zenon
  <2>5. i \in 1 .. Used(c)
    BY <1>1, <1>3, <1>13, ContentsSeq
  <2>. QED
    BY <2>1, <2>4, <2>5, Zenon DEF Contents
<1>16. (t = <<>>) = (Len(t) = 0)
  BY <1>5
<1>17. k \in Nat
  BY <1>3
<1>. QED
  BY <1>5, <1>13, <1>14, <1>15, <1>16, <1>17, Zenon DEF k, c, t, b

\* The pipe that pipe() makes.
LEMMA PipeInvInit == PipeInit => PipeInv
<1>. SUFFICES ASSUME PipeInit PROVE PipeInv
  BY Zenon
<1>1. WellFormed(chars)
  BY FreshEmpty, Zenon DEF PipeInit
<1>. QED
  BY <1>1, PipeAssumption, Zenon DEF PipeInit, PipeInv, BlockedForReason

\* Handing on an end, and closing one.
LEMMA InheritInv ==
    ASSUME PipeInv, NEW p \in Holder, NEW child \in Holder, Inherit(p, child)
    PROVE  PipeInv'
BY Zenon DEF PipeInv, BlockedForReason, Inherit

LEMMA CloseReadInv ==
    ASSUME PipeInv, NEW p \in Holder, CloseRead(p)
    PROVE  PipeInv'
BY Zenon DEF PipeInv, BlockedForReason, CloseRead, LastHolder, OutsideCall

LEMMA CloseWriteInv ==
    ASSUME PipeInv, NEW p \in Holder, CloseWrite(p)
    PROVE  PipeInv'
BY Zenon DEF PipeInv, BlockedForReason, CloseWrite, StillReading, LastHolder, OutsideCall

\* Blocking in a call, and returning from one that moved nothing.
LEMMA ReadWaitsInv ==
    ASSUME PipeInv, NEW p \in Holder, NEW n \in Wanted, ReadWaits(p, n)
    PROVE  PipeInv'
<1>1. <<"read", n>> \in {"read"} \X Wanted
  BY Zenon
<1>. QED
  BY <1>1, Zenon DEF PipeInv, BlockedForReason, ReadWaits, endVars

LEMMA WriteWaitsInv ==
    ASSUME PipeInv, NEW p \in Holder, NEW s \in Text, WriteWaits(p, s)
    PROVE  PipeInv'
<1>1. <<"write", s>> \in {"write"} \X Text
  BY Zenon
<1>. QED
  BY <1>1, Zenon DEF PipeInv, BlockedForReason, WriteWaits, endVars

LEMMA WriteNowhereInv ==
    ASSUME PipeInv, NEW p \in Holder, NEW s \in Text, WriteNowhere(p, s)
    PROVE  PipeInv'
BY Zenon DEF PipeInv, BlockedForReason, WriteNowhere, Returns, endVars

\* A read makes space only by waking the writers, and takes nothing from a pipe that
\* is empty.
LEMMA ReadInv ==
    ASSUME PipeInv, NEW p \in Holder, NEW n \in Wanted, Read(p, n)
    PROVE  PipeInv'
<1>1. n \in Nat /\ WellFormed(chars) /\ chars' = GetSome(n)
  BY PipeAssumption, Zenon DEF PipeInv, Read
<1>2. /\ WellFormed(chars')
      /\ Some(n) \in Seq(Item)
      /\ Len(Some(n)) = Atmost(n, Used(chars))
      /\ Used(chars') = Used(chars) - Len(Some(n))
  BY <1>1, GetSomeTakes, Zenon
<1>3. chars.free \in 0 .. Size /\ chars'.free \in 0 .. Size
  BY <1>1, <1>2, Zenon DEF WellFormed, Ring
<1>4. Used(chars) = 0 => Used(chars') = 0
  BY <1>1, <1>2, <1>3, SizeAssumption DEF Atmost, Used
<1>5. Some(n) = <<>> => chars'.free = chars.free
  <2>. HAVE Some(n) = <<>>
  <2>1. Len(Some(n)) = 0
    BY <1>2
  <2>. QED
    BY <1>2, <1>3, <2>1, SizeAssumption DEF Used
<1>. QED
  BY <1>2, <1>4, <1>5, Zenon DEF PipeInv, BlockedForReason, Read, Returns, endVars

\* A write fills places only by waking the readers, and none of a pipe that is full.
LEMMA WriteInv ==
    ASSUME PipeInv, NEW p \in Holder, NEW s \in Text, Write(p, s)
    PROVE  PipeInv'
<1>1. WellFormed(chars) /\ chars' = PutSome(s) /\ chars.free # 0
  BY Zenon DEF PipeInv, Write
<1>2. /\ WellFormed(chars')
      /\ Used(chars') = Used(chars) + Len(Fitting(s))
      /\ (Fitting(s) = <<>>) = (Len(Fitting(s)) = 0)
  BY <1>1, PutSomeAppends, Zenon
<1>3. chars.free \in 0 .. Size /\ Used(chars) \in 0 .. Size
  BY <1>1, ContentsSeq, Zenon DEF WellFormed, Ring
<1>4. Fitting(s) = <<>> => Used(chars') = Used(chars)
  BY <1>2, <1>3
<1>5. writeQueue = {}
  BY <1>1, Zenon DEF PipeInv, BlockedForReason
<1>. QED
  BY <1>2, <1>4, <1>5, Zenon DEF PipeInv, BlockedForReason, Write, Returns, endVars

LEMMA PipeInvNext == PipeInv /\ [PipeNext]_pipeVars => PipeInv'
<1>. SUFFICES ASSUME PipeInv, [PipeNext]_pipeVars PROVE PipeInv'
  BY Zenon
<1>1. CASE UNCHANGED pipeVars
  BY <1>1, Zenon DEF pipeVars, endVars, PipeInv, BlockedForReason
<1>2. ASSUME NEW p \in Holder,
             \/ \E child \in Holder : Inherit(p, child)
             \/ CloseRead(p) \/ CloseWrite(p)
      PROVE  PipeInv'
  BY <1>2, InheritInv, CloseReadInv, CloseWriteInv, Zenon
<1>3. ASSUME NEW p \in Holder, NEW n \in Wanted, DoRead(p, n) PROVE PipeInv'
  BY <1>3, ReadWaitsInv, ReadInv, Zenon DEF DoRead
<1>4. ASSUME NEW p \in Holder, NEW s \in Text, DoWrite(p, s) PROVE PipeInv'
  BY <1>4, WriteWaitsInv, WriteNowhereInv, WriteInv, Zenon DEF DoWrite
<1>. QED
  BY <1>1, <1>2, <1>3, <1>4, Zenon DEF PipeNext

\* A pipe is as long open as somebody holds an end, and only holders call.
THEOREM PipeInvHolds == PipeSpec => []PipeInv
BY PipeInvInit, PipeInvNext, PTL DEF PipeSpec

\* Nobody is blocked on a pipe without a reason, and the buffer outlives every handle
\* and every call: what closeReadFile, closeWriteFile and the wakes of read and write
\* are there for.
THEOREM NobodyBlockedForNothing == PipeSpec => []BlockedForReason
<1>1. PipeInv => BlockedForReason
  BY Zenon DEF PipeInv
<1>. QED
  BY <1>1, PipeInvHolds, PTL

\* A read is a step of the channel, or moves nothing.
LEMMA PipeReadReceives ==
    ASSUME PipeInv, NEW p \in Holder, NEW n \in Wanted, Read(p, n)
    PROVE  AsChannel!Next
<1>. DEFINE s == Contents(chars)
            t == Contents(chars')
<1>1. n \in Nat /\ WellFormed(chars) /\ chars' = GetSome(n) /\ given' = Some(n)
  BY PipeAssumption, Zenon DEF PipeInv, Read
<1>2. WellFormed(chars') /\ s = given' \o t
  BY <1>1, GetSomeTakes, Zenon
<1>3. t \in Seq(Item)
  BY <1>2, ContentsSeq, Zenon DEF WellFormed
<1>. HIDE DEF s, t
<1>4. CASE given' # <<>>
  BY <1>2, <1>4, Zenon DEF AsChannel!Next, AsChannel!Receive, s, t
<1>5. CASE given' = <<>>
  <2>1. s = t
    BY <1>2, <1>3, <1>5
  <2>. QED
    BY <1>5, <2>1, Zenon DEF AsChannel!Next, AsChannel!Idle, s, t
<1>. QED
  BY <1>4, <1>5, Zenon

\* So is a write.
LEMMA PipeWriteSends ==
    ASSUME PipeInv, NEW p \in Holder, NEW x \in Text, Write(p, x)
    PROVE  AsChannel!Next
<1>. DEFINE s == Contents(chars)
            t == Contents(chars')
            m == Len(Fitting(x))
<1>1. WellFormed(chars) /\ chars' = PutSome(x) /\ given' = <<>>
  BY Zenon DEF PipeInv, Write
<1>2. /\ WellFormed(chars')
      /\ m \in Nat
      /\ Used(chars') = Used(chars) + m
      /\ \A i \in 1 .. Used(chars) : t[i] = s[i]
  BY <1>1, PutSomeAppends, Zenon
<1>3. s \in Seq(Item) /\ Len(s) = Used(chars) /\ Used(chars) \in 0 .. Size
  BY <1>1, ContentsSeq, Zenon DEF WellFormed
<1>4. t \in Seq(Item) /\ Len(t) = Used(chars') /\ Used(chars') \in 0 .. Size
  BY <1>2, ContentsSeq, Zenon DEF WellFormed
<1>. HIDE DEF s, t, m
<1>5. CASE m = 0
  <2>1. Len(t) = Len(s) /\ \A i \in 1 .. Len(s) : s[i] = t[i]
    BY <1>2, <1>3, <1>4, <1>5
  <2>2. s = t
    BY <1>3, <1>4, <2>1, SameSequence, Zenon
  <2>. QED
    BY <1>1, <2>2, Zenon DEF AsChannel!Next, AsChannel!Idle, s, t
<1>6. CASE m # 0
  <2>1. Len(s) < Len(t) /\ Len(t) <= Size
    BY <1>2, <1>3, <1>4, <1>6, SizeAssumption
  <2>2. s = SubSeq(t, 1, Len(s))
    <3>1. Len(s) \in 0 .. Len(t)
      BY <1>3, <1>4, <2>1
    <3>2. /\ SubSeq(t, 1, Len(s)) \in Seq(Item)
          /\ Len(SubSeq(t, 1, Len(s))) = Len(s)
          /\ \A i \in 1 .. Len(s) : SubSeq(t, 1, Len(s))[i] = t[i]
      BY <1>4, <3>1, FirstOnes, Zenon
    <3>3. \A i \in 1 .. Len(s) : s[i] = SubSeq(t, 1, Len(s))[i]
      BY <1>2, <1>3, <3>2, Zenon
    <3>. QED
      BY <1>3, <3>2, <3>3, SameSequence, Zenon
  <2>. QED
    BY <1>1, <2>1, <2>2, Zenon DEF AsChannel!Next, AsChannel!Send, s, t
<1>. QED
  BY <1>5, <1>6, Zenon

\* A pipe is a first-in first-out channel of Size characters, whatever the lengths of
\* the reads and writes and wherever the pointers of PipeBuffer wrap around.
THEOREM PipeIsChannel == PipeSpec => PipeRefined
<1>1. PipeInit => AsChannel!Init
  BY FreshEmpty, Zenon DEF PipeInit, AsChannel!Init
<1>2. PipeInv /\ [PipeNext]_pipeVars => [AsChannel!Next]_<<Contents(chars), given>>
  <2>. SUFFICES ASSUME PipeInv, [PipeNext]_pipeVars
                PROVE  [AsChannel!Next]_<<Contents(chars), given>>
    BY Zenon
  <2>1. CASE UNCHANGED pipeVars
    BY <2>1, Zenon DEF pipeVars
  <2>2. ASSUME given' = <<>>, chars' = chars PROVE AsChannel!Next
    BY <2>2, Zenon DEF AsChannel!Next, AsChannel!Idle
  <2>3. ASSUME NEW p \in Holder,
               \/ \E child \in Holder : Inherit(p, child)
               \/ CloseRead(p) \/ CloseWrite(p)
               \/ \E n \in Wanted : ReadWaits(p, n)
               \/ \E s \in Text : WriteWaits(p, s) \/ WriteNowhere(p, s)
        PROVE  AsChannel!Next
    BY <2>2, <2>3, Zenon DEF Inherit, CloseRead, CloseWrite, ReadWaits, WriteWaits,
                             WriteNowhere
  <2>4. ASSUME NEW p \in Holder, \/ \E n \in Wanted : Read(p, n)
                                 \/ \E s \in Text : Write(p, s)
        PROVE  AsChannel!Next
    BY <2>4, PipeReadReceives, PipeWriteSends, Zenon
  <2>. QED
    BY <2>1, <2>3, <2>4, Zenon DEF PipeNext, DoRead, DoWrite
<1>. QED
  BY <1>1, <1>2, PipeInvHolds, PTL DEF PipeSpec, PipeRefined, AsChannel!Spec
===============================================================================
