------------------------------ MODULE RingBuffer ------------------------------
(***************************************************************************)
(* The circular buffer that PipeBuffer (synch/pipe.cpp) and                *)
(* MessageQueueBuffer (synch/msgueue.cpp) both are: an array, the index to *)
(* read next, the index to write next and the number of free places.       *)
(***************************************************************************)
EXTENDS Integers, Sequences

CONSTANTS
    Item,           \* characters or messages
    Size            \* gBufferSize, mTotalSize

ASSUME SizeAssumption == Size \in Nat \ {0}

Index == 0 .. Size - 1

Ring == [data : [Index -> Item], rd : Index, wr : Index, free : 0 .. Size]

\* A new buffer; what its places hold does not matter.
Fresh == [data |-> [i \in Index |-> CHOOSE x \in Item : TRUE],
          rd |-> 0, wr |-> 0, free |-> Size]

\* The place after i.  The mutant stops at the last place.
FollowingLate(i) == IF i = Size - 1 THEN i ELSE i + 1
Following(i) == IF i + 1 = Size THEN 0 ELSE i + 1

\* tryWrite, when there is space.
Put(b, x) == [data |-> [b.data EXCEPT ![b.wr] = x], rd |-> b.rd,
              wr |-> Following(b.wr), free |-> b.free - 1]

\* tryRead, when there is something: the item, and the rest.
Oldest(b) == b.data[b.rd]
Get(b) == [data |-> b.data, rd |-> Following(b.rd), wr |-> b.wr,
           free |-> b.free + 1]

Used(b) == Size - b.free

\* What the buffer holds, oldest first.
Place(b, i) == IF b.rd + i - 1 < Size THEN b.rd + i - 1 ELSE b.rd + i - 1 - Size
Contents(b) == [i \in 1 .. Used(b) |-> b.data[Place(b, i)]]
===============================================================================
