----------------------------- MODULE MessageQueue -----------------------------
(***************************************************************************)
(* One message queue of MessageQueueFS (synch/msgueue.cpp) and its entry   *)
(* in the store of queues (libc/keyedstore.h): processes open it to read   *)
(* or to write, block on it, and close it.                                 *)
(*                                                                         *)
(* A WaitQueue is the set of the processes blocked on it and wakeall       *)
(* empties it, which is what Scheduling shows of it.  As the kernel is not *)
(* preemptible, an action is what a call does up to the yield that blocks  *)
(* it, or from its return to the end.                                      *)
(***************************************************************************)
EXTENDS RingBuffer, FiniteSets

CONSTANTS
    Process,
    None,           \* no file, no call
    Reading,        \* the call of a reader
    MaxLeaks        \* bound: opens that give no file

ASSUME QueueAssumption ==
    /\ IsFiniteSet(Process)
    /\ Item # {}
    /\ None \notin Item \cup {"read", "write"}
    /\ Reading \notin Item /\ None # Reading
    /\ MaxLeaks \in Nat

VARIABLES
    buffer,         \* mBuffer, mReadPointer, mWritePointer, mFreeSize
    mNumReaders, mNumWriters,
    refs,           \* the store's count for the queue; 0: there is none
    leaked,         \* how many of them no file accounts for
    file,           \* the file of each process: "read", "write" or None
    mBlock,         \* its mBlockIfEmpty or mBlockIfFull
    op,             \* the call it is inside of: Reading, the message, or None
    mEmptyWQ, mFullWQ,
    got,            \* what the last step returned to a reader
    panic           \* PANIC was called

clientVars == <<file, mBlock, op>>
storeVars == <<mNumReaders, mNumWriters, refs, leaked>>
vars == <<buffer, storeVars, clientVars, mEmptyWQ, mFullWQ, got, panic>>

Init ==
    /\ buffer = Fresh
    /\ mNumReaders = 0 /\ mNumWriters = 0
    /\ refs = 0 /\ leaked = 0
    /\ file = [p \in Process |-> None]
    /\ mBlock = [p \in Process |-> TRUE]
    /\ op = [p \in Process |-> None]
    /\ mEmptyWQ = {} /\ mFullWQ = {}
    /\ got = <<>>
    /\ panic = FALSE

Awake(p) == p \notin mEmptyWQ \cup mFullWQ /\ ~panic
InUserCode(p) == Awake(p) /\ op[p] = None

(***************************************************************************)
(* Opening and closing.                                                    *)
(***************************************************************************)
\* getIfExisting counts one more user of the queue, makeNew makes it.  One
\* mutant does not count, the other counts the queue it makes twice.
AcquireUncounted == refs' = IF refs = 0 THEN 1 ELSE refs
AcquireTwice == refs' = IF refs = 0 THEN 2 ELSE refs + 1
Acquire == refs' = refs + 1

Open(p, mode) ==
    /\ InUserCode(p)
    /\ file[p] = None
    /\ Acquire
    /\ file' = [file EXCEPT ![p] = mode]
    /\ mBlock' = [mBlock EXCEPT ![p] = TRUE]
    /\ mNumReaders' = IF mode = "read" THEN mNumReaders + 1 ELSE mNumReaders
    /\ mNumWriters' = IF mode = "write" THEN mNumWriters + 1 ELSE mNumWriters
    /\ got' = <<>>
    /\ UNCHANGED <<buffer, leaked, op, mEmptyWQ, mFullWQ, panic>>

\* Opened neither to read nor to write there is no file, but the store has
\* counted it.
OpenNeither(p) ==
    /\ InUserCode(p)
    /\ leaked < MaxLeaks
    /\ Acquire
    /\ leaked' = leaked + 1
    /\ got' = <<>>
    /\ UNCHANGED <<buffer, mNumReaders, mNumWriters, clientVars, mEmptyWQ,
                   mFullWQ, panic>>

\* closeReader or closeWriter, then KeyedStore::release: the last user's takes
\* the buffer along.
Close(p) ==
    /\ InUserCode(p)
    /\ file[p] # None
    /\ file' = [file EXCEPT ![p] = None]
    /\ mNumReaders' = IF file[p] = "read" THEN mNumReaders - 1 ELSE mNumReaders
    /\ mNumWriters' = IF file[p] = "write" THEN mNumWriters - 1 ELSE mNumWriters
    /\ refs' = refs - 1
    /\ buffer' = IF refs = 1 THEN Fresh ELSE buffer
    /\ panic' = (mNumReaders' = 0 /\ mNumWriters' = 0 /\ refs # 1)
    /\ got' = <<>>
    /\ UNCHANGED <<leaked, mBlock, op, mEmptyWQ, mFullWQ>>

(***************************************************************************)
(* Reading and writing.                                                    *)
(***************************************************************************)
\* The call of p returns to it.
Done(p) == op' = [op EXCEPT ![p] = None]

\* p is inside c, whether it begins it or was woken in it.
Inside(p, c) == Awake(p) /\ op[p] \in {None, c}

\* Nothing to read, and nobody to wait for or no wish to.
ReadNothing(p) ==
    /\ Inside(p, Reading) /\ file[p] = "read"
    /\ Used(buffer) = 0
    /\ mNumWriters = 0 \/ ~mBlock[p]
    /\ Done(p)
    /\ got' = <<>>
    /\ UNCHANGED <<buffer, storeVars, file, mBlock, mEmptyWQ, mFullWQ, panic>>

ReadBlocks(p) ==
    /\ Inside(p, Reading) /\ file[p] = "read"
    /\ Used(buffer) = 0
    /\ mNumWriters # 0 /\ mBlock[p]
    /\ op' = [op EXCEPT ![p] = Reading]
    /\ mEmptyWQ' = mEmptyWQ \cup {p}
    /\ got' = <<>>
    /\ UNCHANGED <<buffer, storeVars, file, mBlock, mFullWQ, panic>>

\* Whoever waits for space is woken.
ReadMessage(p) ==
    /\ Inside(p, Reading) /\ file[p] = "read"
    /\ Used(buffer) # 0
    /\ buffer' = Get(buffer)
    /\ got' = <<Oldest(buffer)>>
    /\ Done(p)
    /\ mFullWQ' = {}
    /\ UNCHANGED <<storeVars, file, mBlock, mEmptyWQ, panic>>

WriteNothing(p, m) ==
    /\ Inside(p, m) /\ file[p] = "write"
    /\ buffer.free = 0
    /\ ~mBlock[p]
    /\ Done(p)
    /\ got' = <<>>
    /\ UNCHANGED <<buffer, storeVars, file, mBlock, mEmptyWQ, mFullWQ, panic>>

WriteBlocks(p, m) ==
    /\ Inside(p, m) /\ file[p] = "write"
    /\ buffer.free = 0
    /\ mBlock[p]
    /\ op' = [op EXCEPT ![p] = m]
    /\ mFullWQ' = mFullWQ \cup {p}
    /\ got' = <<>>
    /\ UNCHANGED <<buffer, storeVars, file, mBlock, mEmptyWQ, panic>>

\* Who is left waiting for a message when there is a new one.  The mutant wakes
\* one of them, which the wait queue could do.
LeftOne == IF mEmptyWQ = {} THEN {} ELSE mEmptyWQ \ {CHOOSE p \in mEmptyWQ : TRUE}
LeftWaiting == {}

WriteMessage(p, m) ==
    /\ Inside(p, m) /\ file[p] = "write"
    /\ buffer.free # 0
    /\ buffer' = Put(buffer, m)
    /\ Done(p)
    /\ mEmptyWQ' = LeftWaiting
    /\ got' = <<>>
    /\ UNCHANGED <<storeVars, file, mBlock, mFullWQ, panic>>

\* The ioctls IOCTL_BLOCK_ON_EMPTY and IOCTL_BLOCK_ON_FULL.
SetBlock(p, b) ==
    /\ InUserCode(p)
    /\ file[p] # None
    /\ mBlock' = [mBlock EXCEPT ![p] = b]
    /\ got' = <<>>
    /\ UNCHANGED <<buffer, storeVars, file, op, mEmptyWQ, mFullWQ, panic>>

(***************************************************************************)
(* The system.                                                             *)
(***************************************************************************)
Next ==
    \E p \in Process :
        \/ \E mode \in {"read", "write"} : Open(p, mode)
        \/ OpenNeither(p)
        \/ Close(p)
        \/ ReadNothing(p) \/ ReadBlocks(p) \/ ReadMessage(p)
        \/ \E m \in Item : WriteNothing(p, m) \/ WriteBlocks(p, m) \/ WriteMessage(p, m)
        \/ \E b \in BOOLEAN : SetBlock(p, b)

Spec == Init /\ [][Next]_vars

(***************************************************************************)
(* Properties.                                                             *)
(***************************************************************************)
TypeOK ==
    /\ buffer \in Ring
    /\ mNumReaders \in Int /\ mNumWriters \in Int
    /\ refs \in Int /\ leaked \in Nat
    /\ file \in [Process -> {"read", "write", None}]
    /\ mBlock \in [Process -> BOOLEAN]
    /\ op \in [Process -> Item \cup {Reading, None}]
    /\ mEmptyWQ \subseteq Process /\ mFullWQ \subseteq Process
    /\ got \in Seq(Item)
    /\ panic \in BOOLEAN

\* The circular buffer is a first-in first-out channel: see Channel.
C == INSTANCE Channel WITH queue <- Contents(buffer), out <- got, Capacity <- Size
QueueRefined == C!Spec

\* Nobody misses a message or a free place: processes blocked in a read find no
\* message, and processes blocked in a write no space.
NoMissedMessage ==
    /\ mEmptyWQ # {} => Used(buffer) = 0
    /\ mFullWQ # {} => buffer.free = 0

Readers == {p \in Process : file[p] = "read"}
Writers == {p \in Process : file[p] = "write"}

\* The queue lives as long as a file is open on it: the store counts the files,
\* plus the opens that gave none, and the queue counts its readers and writers.
StoreCounts ==
    /\ mNumReaders = Cardinality(Readers)
    /\ mNumWriters = Cardinality(Writers)
    /\ refs = mNumReaders + mNumWriters + leaked

\* Nobody waits for a message from writers that are gone.
ReaderNotAbandoned == mEmptyWQ # {} => mNumWriters # 0

\* The PANIC of doClose, 'no client left but memory was leaked', is only ever
\* reached after an open that gave no file.
OnlyLeaksPanic == panic => leaked > 0
===============================================================================
