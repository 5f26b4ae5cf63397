--------------------------------- MODULE Pipe ---------------------------------
(***************************************************************************)
(* One pipe (synch/pipe.cpp) from the system call that makes it to the     *)
(* close that frees it, with processes handing its ends to their children. *)
(*                                                                         *)
(* An end is open while some process holds a handle of it: handles share   *)
(* one reference-counted file (Filesystem::close), and PipeManager::doClose*)
(* runs for the last of them.  WaitQueues are as in MessageQueue.          *)
(***************************************************************************)
EXTENDS RingBuffer

CONSTANTS
    Holder,         \* the processes that may hold an end
    Creator,        \* the one that called pipe()
    Wanted,         \* lengths of reads
    Lengths,        \* lengths of writes
    NoCall

ASSUME PipeAssumption ==
    Creator \in Holder /\ Item # {} /\ Wanted \subseteq Nat /\ Lengths \subseteq Nat

VARIABLES
    chars,          \* mBuffer, mReadPointer, mWritePointer, mFreeSpace
    readers,        \* the processes with a handle of the read file
    writers,        \* the processes with a handle of the write file
    mReadFileOpen, mWriteFileOpen,
    freed,          \* the buffer was deleted
    call,           \* the call each process is inside of, or NoCall
    readQueue,      \* mEmptyWQ
    writeQueue,     \* mFullWQ
    given           \* what the last step returned to a reader

endVars == <<readers, writers, mReadFileOpen, mWriteFileOpen, freed>>
pipeVars == <<chars, endVars, call, readQueue, writeQueue, given>>

PipeInit ==
    /\ chars = Fresh
    /\ readers = {Creator} /\ writers = {Creator}
    /\ mReadFileOpen = TRUE /\ mWriteFileOpen = TRUE
    /\ freed = FALSE
    /\ call = [p \in Holder |-> NoCall]
    /\ readQueue = {} /\ writeQueue = {}
    /\ given = <<>>

NotWaiting(p) == p \notin readQueue \cup writeQueue
OutsideCall(p) == NotWaiting(p) /\ call[p] = NoCall

(***************************************************************************)
(* Handles.                                                                *)
(***************************************************************************)
\* A process starts another and has it inherit an end.
Inherit(p, child) ==
    /\ OutsideCall(p) /\ OutsideCall(child)
    /\ \/ p \in readers /\ readers' = readers \cup {child} /\ UNCHANGED writers
       \/ p \in writers /\ writers' = writers \cup {child} /\ UNCHANGED readers
    /\ given' = <<>>
    /\ UNCHANGED <<chars, mReadFileOpen, mWriteFileOpen, freed, call, readQueue,
                   writeQueue>>

\* Is p the last to hold an end?  The mutant closes the file for everybody.
LastHolderAlways(holders, p) == TRUE
LastHolder(holders, p) == holders = {p}

\* Closing the read file lets the writers try.
CloseRead(p) ==
    /\ OutsideCall(p) /\ p \in readers
    /\ readers' = readers \ {p}
    /\ mReadFileOpen' = (mReadFileOpen /\ ~LastHolder(readers, p))
    /\ writeQueue' = IF LastHolder(readers, p) THEN {} ELSE writeQueue
    /\ freed' = (freed \/ (LastHolder(readers, p) /\ ~mWriteFileOpen))
    /\ given' = <<>>
    /\ UNCHANGED <<chars, writers, mWriteFileOpen, call, readQueue>>

\* Who stays blocked in a read when the write file is closed.  The mutant wakes
\* nobody.
StillReadingAll(p) == readQueue
StillReading(p) == IF LastHolder(writers, p) THEN {} ELSE readQueue

\* Closing the write file lets the readers try.
CloseWrite(p) ==
    /\ OutsideCall(p) /\ p \in writers
    /\ writers' = writers \ {p}
    /\ mWriteFileOpen' = (mWriteFileOpen /\ ~LastHolder(writers, p))
    /\ readQueue' = StillReading(p)
    /\ freed' = (freed \/ (LastHolder(writers, p) /\ ~mReadFileOpen))
    /\ given' = <<>>
    /\ UNCHANGED <<chars, readers, mReadFileOpen, call, writeQueue>>

(***************************************************************************)
(* Reading and writing.                                                    *)
(***************************************************************************)
Returns(p) == call' = [call EXCEPT ![p] = NoCall]
InsideCall(p, c) == NotWaiting(p) /\ call[p] \in {NoCall, c}

\* What a write may be asked to write.
Text == UNION {[1 .. n -> Item] : n \in Lengths}

\* The place a pointer reaches in n steps, at most Size of them.  The mutant stops at
\* the last place.
AlongLate(i, n) == IF i + n < Size THEN i + n ELSE Size - 1
Along(i, n) == IF i + n < Size THEN i + n ELSE i + n - Size

\* At most n characters of the buffer, and the buffer without them.
Atmost(n, m) == IF n <= m THEN n ELSE m
Some(n) == SubSeq(Contents(chars), 1, Atmost(n, Used(chars)))
GetSome(n) ==
    LET k == Atmost(n, Used(chars))
    IN  [data |-> chars.data, rd |-> Along(chars.rd, k), wr |-> chars.wr,
         free |-> chars.free + k]

\* The characters that fit, and the buffer with them from the write pointer on.
Fitting(s) == SubSeq(s, 1, Atmost(Len(s), chars.free))
Written(s, i) == {k \in 1 .. Len(s) : Along(chars.wr, k - 1) = i}
PutSome(s) ==
    LET t == Fitting(s)
    IN  [data |-> [i \in Index |-> IF Written(t, i) = {} THEN chars.data[i]
                                   ELSE t[CHOOSE k \in Written(t, i) : TRUE]],
         rd |-> chars.rd, wr |-> Along(chars.wr, Len(t)),
         free |-> chars.free - Len(t)]

ReadWaits(p, n) ==
    /\ InsideCall(p, <<"read", n>>) /\ p \in readers
    /\ Used(chars) = 0 /\ mWriteFileOpen
    /\ call' = [call EXCEPT ![p] = <<"read", n>>]
    /\ readQueue' = readQueue \cup {p}
    /\ given' = <<>>
    /\ UNCHANGED <<chars, endVars, writeQueue>>

Read(p, n) ==
    /\ InsideCall(p, <<"read", n>>) /\ p \in readers
    /\ Used(chars) # 0 \/ ~mWriteFileOpen
    /\ given' = Some(n)
    /\ chars' = GetSome(n)
    /\ writeQueue' = IF Some(n) # <<>> THEN {} ELSE writeQueue
    /\ Returns(p)
    /\ UNCHANGED <<endVars, readQueue>>

WriteWaits(p, s) ==
    /\ InsideCall(p, <<"write", s>>) /\ p \in writers
    /\ chars.free = 0 /\ mReadFileOpen
    /\ call' = [call EXCEPT ![p] = <<"write", s>>]
    /\ writeQueue' = writeQueue \cup {p}
    /\ given' = <<>>
    /\ UNCHANGED <<chars, endVars, readQueue>>

\* Full, and nobody will read: the write claims to have written everything.
WriteNowhere(p, s) ==
    /\ InsideCall(p, <<"write", s>>) /\ p \in writers
    /\ chars.free = 0 /\ ~mReadFileOpen
    /\ Returns(p)
    /\ given' = <<>>
    /\ UNCHANGED <<chars, endVars, readQueue, writeQueue>>

Write(p, s) ==
    /\ InsideCall(p, <<"write", s>>) /\ p \in writers
    /\ chars.free # 0
    /\ chars' = PutSome(s)
    /\ readQueue' = IF Fitting(s) # <<>> THEN {} ELSE readQueue
    /\ Returns(p)
    /\ given' = <<>>
    /\ UNCHANGED <<endVars, writeQueue>>

(***************************************************************************)
(* The system.                                                             *)
(***************************************************************************)
DoRead(p, n) == ReadWaits(p, n) \/ Read(p, n)
DoWrite(p, s) == WriteWaits(p, s) \/ WriteNowhere(p, s) \/ Write(p, s)

\* p runs again inside its call.
Resume(p) ==
    /\ call[p] # NoCall
    /\ IF call[p][1] = "read" THEN DoRead(p, call[p][2]) ELSE DoWrite(p, call[p][2])

PipeNext ==
    \E p \in Holder :
        \/ \E child \in Holder : Inherit(p, child)
        \/ CloseRead(p) \/ CloseWrite(p)
        \/ \E n \in Wanted : DoRead(p, n)
        \/ \E s \in Text : DoWrite(p, s)

PipeSpec == PipeInit /\ [][PipeNext]_pipeVars

\* A process woken inside a call runs on.
PipeFairness == \A p \in Holder : WF_pipeVars(Resume(p))

(***************************************************************************)
(* Properties.                                                             *)
(***************************************************************************)
\* A pipe is a first-in first-out channel, whatever the sizes of reads and
\* writes and wherever the pointers wrap around: see Channel.
AsChannel == INSTANCE Channel WITH queue <- Contents(chars), out <- given,
                                   Capacity <- Size
PipeRefined == AsChannel!Spec

\* Nobody is blocked without a reason: a blocked reader faces an empty pipe that
\* somebody may write to, a blocked writer a full one that somebody may read.  And
\* the buffer is there when they come back: while a process holds a handle or is
\* inside a call, it has not been deleted.
BlockedForReason ==
    /\ readQueue # {} => Used(chars) = 0 /\ writers # {}
    /\ writeQueue # {} => chars.free = 0 /\ readers # {}
    /\ freed => readers = {} /\ writers = {} /\ \A p \in Holder : call[p] = NoCall

\* The other side going away ends every blocked call.
NoOneLeftBehind ==
    /\ writers = {} ~> \A p \in readers : call[p] = NoCall
    /\ readers = {} ~> \A p \in writers : call[p] = NoCall
===============================================================================
