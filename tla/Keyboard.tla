-------------------------------- MODULE Keyboard --------------------------------
(***************************************************************************)
(* Keys on their way from the keyboard to a process: the interrupt handler *)
(* that parses scan codes into a ring (drivers/ps2/keyboard.cpp), the task *)
(* that empties the ring into a queue (tasks/keybqueue.cpp), and processes *)
(* that take turns in the foreground of the terminal to read from it       *)
(* (tty/tty.cpp).                                                          *)
(*                                                                         *)
(* The task empties the ring with interrupts disabled, enables them, and   *)
(* then goes to wait; an interrupt may come in between.  Processes do not  *)
(* preempt each other in the kernel.  The modifiers Ctrl and Alt are one   *)
(* key, both being needed for the kernel's attention; Shift, Caps Lock and *)
(* the 0xE0 prefix, which choose the character of a key, are left out.     *)
(***************************************************************************)
EXTENDS Selection

CONSTANTS
    Reader,         \* processes that read keys
    InitReader,     \* init, which never exits
    RingSize,       \* keyb_buffer_t::gBufferSize: 128
    QueueSize,      \* of gKeyEvents: 2048
    MaxBytes,       \* bound: bytes from the keyboard
    MaxForeground   \* bound: entries of the foreground list

ASSUME KeyboardAssumption ==
    /\ InitReader \in Reader
    /\ RingSize \in Nat \ {0} /\ QueueSize \in Nat \ {0}
    /\ MaxBytes \in Nat /\ MaxForeground \in Nat \ {0}

\* A byte from the keyboard: the prefix of a release, or a key.
Break == "break"
Key == {"letter", "modifiers", "delete"}
Event == [key : Key, down : BOOLEAN, chord : BOOLEAN]
NoEvent == [key |-> "letter", down |-> TRUE, chord |-> FALSE]

VARIABLES
    isBreakCode, modifiersDown,         \* gIsBreakCode; gCtrlDown and gAltDown
    ring, ringRead, ringWrite,          \* gKeyboardBuffer
    task,                               \* of keybqueue: "drain", "leaving" or "asleep"
    queue, queueRead, queueWrite,       \* gKeyEvents
    foreground,                         \* TTY::mForeground
    reader,         \* "idle", "fgwait", "keywait", "keyready" (woken up) or "dead"
    killed,         \* processes that will run the reaper when they run next
    bytes,          \* bytes that came
    arrived,        \* events that were parsed, not taken out of the ring (history)
    queued,         \* events that were queued, not read (history)
    overrun,        \* events were overwritten before they were taken (history)
    unseen          \* the interrupt came while the task went to wait (history)

ringVars == <<ring, ringRead, ringWrite>>
queueVars == <<queue, queueRead, queueWrite>>
readerVars == <<foreground, reader, killed>>
keyVars == <<isBreakCode, modifiersDown, ringVars, task, queueVars, readerVars,
             bytes, arrived, queued, overrun, unseen>>

KeyInit ==
    /\ isBreakCode = FALSE /\ modifiersDown = FALSE
    /\ ring = [i \in 0..(RingSize - 1) |-> NoEvent] /\ ringRead = 0 /\ ringWrite = 0
    /\ task = "drain"
    /\ queue = [i \in 0..(QueueSize - 1) |-> NoEvent] /\ queueRead = 0 /\ queueWrite = 0
    /\ foreground = <<InitReader>>
    /\ reader = [p \in Reader |-> "idle"]
    /\ killed = {}
    /\ bytes = 0
    /\ arrived = <<>> /\ queued = <<>>
    /\ overrun = FALSE /\ unseen = FALSE

(***************************************************************************)
(* The interrupt handler: parse_scan_code, then wakeall for a new event.   *)
(* It does not look whether the ring is full.                              *)
(***************************************************************************)
\* The mutant does not go around.
RingNextStuck(i) == IF i + 1 = RingSize THEN i ELSE i + 1
RingNext(i) == IF i + 1 = RingSize THEN 0 ELSE i + 1

KeyIRQ(b) ==
    LET event == [key |-> b, down |-> ~isBreakCode, chord |-> modifiersDown] IN
    /\ bytes < MaxBytes
    /\ bytes' = bytes + 1
    /\ \/ /\ b = Break
          /\ isBreakCode' = TRUE
          /\ UNCHANGED <<modifiersDown, ringVars, task, arrived, overrun, unseen>>
       \/ /\ b \in Key
          /\ ring' = [ring EXCEPT ![ringWrite] = event]
          /\ ringWrite' = RingNext(ringWrite)
          /\ arrived' = Append(arrived, event)
          /\ overrun' = (overrun \/ Len(arrived) + 1 = RingSize)
          /\ modifiersDown' = IF b = "modifiers" THEN ~isBreakCode ELSE modifiersDown
          /\ isBreakCode' = FALSE
          /\ task' = IF task = "asleep" THEN "drain" ELSE task
          /\ unseen' = (unseen \/ task = "leaving")
          /\ UNCHANGED ringRead
    /\ UNCHANGED <<queueVars, readerVars, queued>>

(***************************************************************************)
(* The task.                                                               *)
(***************************************************************************)
\* vector::back
Back(list) == list[Len(list)]

\* isKernelAttentionSequence
IsAttention(e) == e.chord /\ e.key = "delete" /\ ~e.down

\* What PS2Keyboard::next returns one after the other.
RingCount == (ringWrite - ringRead + RingSize) % RingSize
InRing == [i \in 1..RingCount |-> ring[(ringRead + i - 1) % RingSize]]
InQueue == [i \in 1..((queueWrite - queueRead + QueueSize) % QueueSize) |->
               queue[(queueRead + i - 1) % QueueSize]]

\* queue::write, which does not look whether the queue is full either.
Stored(events) ==
    [i \in DOMAIN queue |->
        LET at == {k \in 1..Len(events) : (queueWrite + k - 1) % QueueSize = i}
        IN IF at = {} THEN queue[i] ELSE events[CHOOSE k \in at : \A j \in at : j <= k]]

\* gEventQueue.wakeall.  The mutant does not.
WokenNone == reader
Woken == [p \in Reader |-> IF reader[p] = "keywait" THEN "keyready" ELSE reader[p]]

\* The events that are queued.
NoAttention == Selected(InRing, {i \in 1..RingCount : ~IsAttention(InRing[i])})

Drain ==
    LET events == NoAttention
        attention == Len(events) < Len(InRing)
    IN
    /\ task = "drain"
    /\ ringRead' = ringWrite
    /\ arrived' = <<>>
    /\ queue' = Stored(events)
    /\ queueWrite' = (queueWrite + Len(events)) % QueueSize
    /\ queued' = queued \o events
    /\ overrun' = (overrun \/ Len(queued) + Len(events) >= QueueSize)
    /\ reader' = IF events # <<>> THEN Woken ELSE reader
    /\ killed' = IF attention /\ foreground # <<>> /\ reader[Back(foreground)] # "dead"
                 THEN killed \cup {Back(foreground)} ELSE killed
    /\ task' = "leaving"
    /\ unseen' = FALSE
    /\ UNCHANGED <<isBreakCode, modifiersDown, ring, ringWrite, queueRead, foreground, bytes>>

Leave ==
    /\ task = "leaving"
    /\ task' = "asleep"
    /\ UNCHANGED <<isBreakCode, modifiersDown, ringVars, queueVars, readerVars,
                   bytes, arrived, queued, overrun, unseen>>

(***************************************************************************)
(* Processes.                                                              *)
(***************************************************************************)
\* A process that was killed runs the reaper next.  When that is init, a system
\* process, the kernel panics: nothing init does follows.
CanRun(p) == p \notin killed
InForeground(p) == foreground = <<>> \/ Back(foreground) = p

\* readKey: wait while there is nothing.  A process that was woken up here does
\* not look again whether it is in the foreground.
ReadKey(p) ==
    \/ /\ queueRead = queueWrite
       /\ reader' = [reader EXCEPT ![p] = "keywait"]
       /\ UNCHANGED <<queueRead, queued>>
    \/ /\ queueRead # queueWrite
       /\ queueRead' = (queueRead + 1) % QueueSize
       /\ queued' = Tail(queued)
       /\ reader' = [reader EXCEPT ![p] = "idle"]

ReadKeyEvent(p) ==
    /\ CanRun(p)
    /\ \/ /\ reader[p] = "idle" /\ ~InForeground(p)
          /\ reader' = [reader EXCEPT ![p] = "fgwait"]
          /\ UNCHANGED <<queueRead, queued>>
       \/ /\ reader[p] = "idle" /\ InForeground(p)
          /\ ReadKey(p)
       \/ /\ reader[p] = "keyready"
          /\ ReadKey(p)
    /\ UNCHANGED <<isBreakCode, modifiersDown, ringVars, task, queue, queueWrite,
                   foreground, killed, bytes, arrived, overrun, unseen>>

\* wakeall on mForegroundWQ.  The mutant does not.
ForegroundWakesNone(r) == r
ForegroundWakes(r) == [p \in Reader |-> IF r[p] = "fgwait" THEN "idle" ELSE r[p]]

\* exec with PROCESS_IS_FOREGROUND, and the ioctl, which takes any pid.
PushFg(p, q) ==
    /\ CanRun(p)
    /\ reader[p] = "idle"
    /\ Len(foreground) < MaxForeground
    /\ foreground' = Append(foreground, q)
    /\ reader' = ForegroundWakes(reader)
    /\ UNCHANGED <<isBreakCode, modifiersDown, ringVars, task, queueVars, killed,
                   bytes, arrived, queued, overrun, unseen>>

\* popfg: init takes over when nobody is left.
PoppedFg(p) ==
    LET list == SelectSeq(foreground, LAMBDA q : q # p)
    IN IF list = <<>> THEN <<InitReader>> ELSE list

PopFg(p) ==
    /\ CanRun(p)
    /\ reader[p] = "idle"
    /\ foreground' = PoppedFg(p)
    /\ reader' = ForegroundWakes(reader)
    /\ UNCHANGED <<isBreakCode, modifiersDown, ringVars, task, queueVars, killed,
                   bytes, arrived, queued, overrun, unseen>>

\* exit, of its own or by the reaper.  kill wakes nobody up: a process that was
\* killed while it waits gets to the reaper once what it waits for happens.
ExitReader(p) ==
    /\ p # InitReader
    /\ reader[p] = "idle" \/ (p \in killed /\ reader[p] = "keyready")
    /\ foreground' = PoppedFg(p)
    /\ reader' = [ForegroundWakes(reader) EXCEPT ![p] = "dead"]
    /\ killed' = killed \ {p}
    /\ UNCHANGED <<isBreakCode, modifiersDown, ringVars, task, queueVars,
                   bytes, arrived, queued, overrun, unseen>>

KeyNext ==
    \/ \E b \in Key \cup {Break} : KeyIRQ(b)
    \/ Drain \/ Leave
    \/ \E p \in Reader : ReadKeyEvent(p) \/ PopFg(p) \/ ExitReader(p)
    \/ \E p, q \in Reader : PushFg(p, q)

KeySpec == KeyInit /\ [][KeyNext]_keyVars

(***************************************************************************)
(* Properties.                                                             *)
(***************************************************************************)
\* Events reach the readers in the order their interrupts came, none twice and none
\* lost on the way through ring and queue, until the interrupts outrun the task, or
\* the task the readers, by a whole buffer (neither looks: keyboard.cpp:154,
\* queue.h:36).
KeysInOrder == ~overrun => InRing = arrived /\ InQueue = queued

\* Nobody sleeps on something that is there: a process that waits for keys has
\* none to read, one that waits for the foreground is not in it, and the task
\* sleeps on events only if an interrupt came while it went to wait
\* (keybqueue.cpp:86 waits outside the block that disables interrupts).
NoMissedInput ==
    /\ \A p \in Reader : reader[p] = "keywait" => InQueue = <<>>
    /\ \A p \in Reader : reader[p] = "fgwait" => ~InForeground(p)
    /\ task = "asleep" /\ InRing # <<>> => unseen
================================================================================
