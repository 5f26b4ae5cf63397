------------------------------ MODULE Scheduling ------------------------------
(***************************************************************************)
(* How Puppy's kernel blocks, wakes and schedules processes: the ready     *)
(* queue, the wait token, wait queues, the sleep queue, the awaker task    *)
(* and the lottery scheduler (process/manager.cpp, synch/waitqueue.cpp,    *)
(* tasks/awaker.cpp, tasks/scheduler.cpp).                                 *)
(*                                                                         *)
(* The kernel runs on one CPU and is not preemptible: a timer tick         *)
(* switches processes only when it interrupts user code or the idle loop   *)
(* (isinterruptible), so kernel code is atomic from one yield to the next. *)
(* An action below is therefore everything one process does between two    *)
(* yields; interrupt handlers interleave with them.                        *)
(*                                                                         *)
(* The ready queue is a bag (readyCount): the lottery draws from it and    *)
(* never looks at its order except for the odds, which Lottery.tla studies.*)
(* A wait queue is a set of entries because only wakeall is ever called.   *)
(***************************************************************************)
EXTENDS Integers

CONSTANTS
    Process,        \* ordinary processes
    SystemTask,     \* kernel tasks that take part in scheduling
    Dummy,          \* the idle process (gDummyProcess, task0)
    Awaker,         \* the task that ends sleeps
    Scheduler,      \* the scheduler task, never itself in the ready queue
    WaitQueues,     \* every WaitQueue object
    AwakerQueue,    \* the queue the awaker parks on
    ObjectQueues,   \* queues ordinary processes wait on
    IrqQueues,      \* queues an interrupt handler wakes
    Sleeps,         \* durations processes sleep for
    Timeouts,       \* non-zero timeouts processes wait with
    MaxTime,        \* bound: uptime
    MaxToken,       \* bound: times an ordinary process blocks
    None            \* nullptr

Task == Process \cup SystemTask

ASSUME SchedulingAssumption ==
    /\ {Dummy, Awaker} \subseteq SystemTask
    /\ Dummy # Awaker
    /\ Process \cap SystemTask = {}
    /\ Scheduler \notin Task
    /\ AwakerQueue \in WaitQueues
    /\ ObjectQueues \cup IrqQueues \subseteq WaitQueues \ {AwakerQueue}
    /\ None \notin WaitQueues \cup Task
    /\ Sleeps \subseteq Nat
    /\ Timeouts \subseteq Nat \ {0}
    /\ MaxTime \in Nat
    /\ MaxToken \in Nat

VARIABLES
    current,        \* gCurrentProcess, or Scheduler while the lottery runs
    state,          \* process_t::state
    waitToken,      \* process_t::waitToken
    wakeReason,     \* process_t::wakeReason
    sleeptill,      \* process_t::sleeptill
    readyCount,     \* occurrences of each process in gReadyQueue
    mProcesses,     \* the entries of each WaitQueue
    sleepQueue,     \* gSleepQueue
    exited,         \* gExitedProcesses
    now,            \* TimeManager::millisUptime
    panic           \* PANIC was called: the machine is halted

schedVars == <<current, state, waitToken, wakeReason, sleeptill, readyCount,
               mProcesses, sleepQueue, exited, now, panic>>

States == {"NEW", "AVAILABLE", "WAITING", "SLEEPING", "EXITED", "COLLECTED",
           "COLLECTING"}

Entry == [process : Task, token : Nat]

\* An entry of the sleep queue, with the sleeptill it was inserted at.
SleepEntry == [process : Task, token : Nat, till : Nat]

\* The entry a queue keeps for a process that blocks now.  The mutant takes the
\* token the process will have once it is woken.
EntryOf(t) == [process |-> t, token |-> waitToken[t]]
SleepEntryOfNext(t, till) == [process |-> t, token |-> waitToken[t] + 1, till |-> till]
SleepEntryOf(t, till) == [process |-> t, token |-> waitToken[t], till |-> till]

\* The processes WaitQueue::wake makes ready when q is emptied.
Woken(q) == {t \in Task : state[t] = "WAITING" /\ EntryOf(t) \in mProcesses[q]}

\* What is left of a process's copies in the ready queue when deschedule has
\* erased them.  The mutant leaves the copy it changed the state of.
ErasedNone(n) == n
Erased(n) == 0

(***************************************************************************)
(* Kernel steps are built from these two operators.                        *)
(*                                                                         *)
(* Resched(p, new, q, W, r): p is descheduled (if the ready queue holds    *)
(* it) into state new with q as what it waits for, and the processes of W  *)
(* go back to the ready queue with wake reason r.                          *)
(***************************************************************************)
Resched(p, new, q, W, r) ==
    /\ state' = [t \in Task |->
            IF t \in W THEN "AVAILABLE"
            ELSE IF t = p /\ readyCount[p] > 0 THEN new ELSE state[t]]
    /\ waitToken' = [t \in Task |->
            IF t \in W THEN waitToken[t] + 1 ELSE waitToken[t]]
    /\ readyCount' = [t \in Task |->
            IF t \in W THEN readyCount[t] + 1
            ELSE IF t = p THEN Erased(readyCount[t]) ELSE readyCount[t]]
    /\ wakeReason' = [t \in Task |->
            IF t \in W THEN r
            ELSE IF t = p /\ readyCount[p] > 0
                 THEN [wakeReason[t] EXCEPT !.waitable = q] ELSE wakeReason[t]]
    /\ panic' = (panic \/ (p \in Task /\ readyCount[p] > 1))

\* Only wake: nobody is descheduled.
Awaken(W, r) == Resched(None, "AVAILABLE", None, W, r)

\* What ready() records for a process woken by queue q, and wake() for one
\* whose time is up.
BySignal(q) == [timeout |-> FALSE, waitable |-> q]
ByTimeout == [timeout |-> TRUE,  waitable |-> None]

Running(p) == current = p /\ ~panic

(***************************************************************************)
(* The ready queue and the lottery.                                        *)
(***************************************************************************)
Init ==
    /\ current = Scheduler
    /\ state = [t \in Task |-> "AVAILABLE"]
    /\ waitToken = [t \in Task |-> IF t = Dummy THEN 0 ELSE 1]
    /\ wakeReason = [t \in Task |-> [timeout |-> FALSE, waitable |-> None]]
    /\ sleeptill = [t \in Task |-> 0]
    /\ readyCount = [t \in Task |-> 1]
    /\ mProcesses = [q \in WaitQueues |-> {}]
    /\ sleepQueue = {}
    /\ exited = {}
    /\ now = 0
    /\ panic = FALSE

\* What the lottery finds EXITED in the ready queue and moves to the exited
\* table; a second copy, or a process that is there already, halts the machine.
\* The mutant leaves them where they are.
DepartedNone == {}
Departed == {t \in Task : readyCount[t] > 0 /\ state[t] = "EXITED"}

\* The lottery draws any AVAILABLE process of the ready queue.
Candidates == {t \in Task : readyCount[t] > 0 /\ state[t] = "AVAILABLE"}

Schedule(t) ==
    /\ Running(Scheduler)
    /\ t \in Candidates
    /\ exited' = exited \cup Departed
    /\ readyCount' = [u \in Task |-> IF u \in Departed THEN 0 ELSE readyCount[u]]
    /\ panic' = (\E u \in Departed : u \in exited \/ readyCount[u] > 1)
    /\ current' = t
    /\ UNCHANGED <<state, waitToken, wakeReason, sleeptill, mProcesses,
                   sleepQueue, now>>

\* A tick at the end of a quantum, or the yield system call.
Yield(p) ==
    /\ Running(p)
    /\ current' = Scheduler
    /\ UNCHANGED <<state, waitToken, wakeReason, sleeptill, readyCount,
                   mProcesses, sleepQueue, exited, now, panic>>

(***************************************************************************)
(* Waiting, sleeping and waking.                                           *)
(***************************************************************************)
\* WaitQueue::yield without a timeout.
Wait(p, q) ==
    /\ Running(p)
    /\ Resched(p, "WAITING", q, {}, BySignal(q))
    /\ mProcesses' = [mProcesses EXCEPT ![q] = @ \cup {EntryOf(p)}]
    /\ current' = Scheduler
    /\ UNCHANGED <<sleeptill, sleepQueue, exited, now>>

\* ProcessManager::sleep: p leaves the ready queue and the awaker is told.
Sleep(p, d) ==
    /\ Running(p)
    /\ Resched(p, "SLEEPING", None, Woken(AwakerQueue), BySignal(AwakerQueue))
    /\ sleeptill' = [sleeptill EXCEPT ![p] = now + d]
    /\ sleepQueue' = sleepQueue \cup {SleepEntryOf(p, now + d)}
    /\ mProcesses' = [mProcesses EXCEPT ![AwakerQueue] = {}]
    /\ current' = Scheduler
    /\ UNCHANGED <<exited, now>>

\* WaitQueue::yield with a timeout d: after pushToQueue has descheduled p, the
\* deschedule of sleep() finds it nowhere, so p stays WAITING on q and is in
\* the sleep queue too.
TimedWait(p, q, d) ==
    /\ Running(p)
    /\ Resched(p, "WAITING", q, Woken(AwakerQueue), BySignal(AwakerQueue))
    /\ mProcesses' = [mProcesses EXCEPT ![AwakerQueue] = {},
                                        ![q] = @ \cup {EntryOf(p)}]
    /\ sleeptill' = [sleeptill EXCEPT ![p] = now + d]
    /\ sleepQueue' = sleepQueue \cup {SleepEntryOf(p, now + d)}
    /\ current' = Scheduler
    /\ UNCHANGED <<exited, now>>

\* WaitQueue::wakeall.
WakeAll(q) ==
    /\ Awaken(Woken(q), BySignal(q))
    /\ mProcesses' = [mProcesses EXCEPT ![q] = {}]
    /\ UNCHANGED <<current, sleeptill, sleepQueue, exited, now>>

\* A running process signals an object others wait for.
Signal(p, q) == Running(p) /\ WakeAll(q)

\* interrupt_handler with IRQ_RESPONSE_WAKE.
IrqWake(q) == ~panic /\ WakeAll(q)

\* A timer interrupt moves the clock.
Tick ==
    /\ ~panic
    /\ now < MaxTime
    /\ now' = now + 1
    /\ UNCHANGED <<current, state, waitToken, wakeReason, sleeptill, readyCount,
                   mProcesses, sleepQueue, exited, panic>>

(***************************************************************************)
(* The awaker task.                                                        *)
(*                                                                         *)
(* The sleep queue is a heap whose order reads process_t::sleeptill when   *)
(* it compares.  That key changes when a process sleeps again while an     *)
(* older entry of it is still in the heap; from then on any entry may be   *)
(* on top.                                                                 *)
(***************************************************************************)
StaleNever(e) == FALSE
Stale(e) == e.token # waitToken[e.process]

HeapIntact == \A e \in sleepQueue : e.till = sleeptill[e.process]

Top == {e \in sleepQueue : HeapIntact => \A f \in sleepQueue : e.till <= f.till}

Due(e) == sleeptill[e.process] <= now

\* The top entry belongs to a process that exited: to the exited table.
AwakerBury(e) ==
    /\ Running(Awaker)
    /\ e \in Top
    /\ state[e.process] = "EXITED"
    /\ sleepQueue' = sleepQueue \ {e}
    /\ exited' = exited \cup {e.process}
    /\ panic' = (e.process \in exited)
    /\ UNCHANGED <<current, state, waitToken, wakeReason, sleeptill, readyCount,
                   mProcesses, now>>

\* ProcessManager::wake does nothing for a process that is AVAILABLE.
Asleep(t) == {u \in {t} : state[u] # "AVAILABLE"}

\* The queue entries ProcessManager::wake removes with the process it wakes.
\* The mutant forgets WaitQueue::remove.
DequeuedNone(t) == mProcesses
Dequeued(t) == [q \in WaitQueues |->
                    IF t \in Asleep(t) /\ q = wakeReason[t].waitable
                    THEN {e \in mProcesses[q] : e.process # t}
                    ELSE mProcesses[q]]

\* The top entry is due and its token is current: ProcessManager::wake.
AwakerWake(e) ==
    /\ Running(Awaker)
    /\ e \in Top
    /\ state[e.process] # "EXITED"
    /\ Due(e)
    /\ ~Stale(e)
    /\ sleepQueue' = sleepQueue \ {e}
    /\ Awaken(Asleep(e.process), ByTimeout)
    /\ mProcesses' = Dequeued(e.process)
    /\ UNCHANGED <<current, sleeptill, exited, now>>

\* The top entry is due and its token is stale: the wake is only logged, the
\* entry stays on top and the loop goes round without yielding.
AwakerIgnore(e) ==
    /\ Running(Awaker)
    /\ e \in Top
    /\ state[e.process] # "EXITED"
    /\ Due(e)
    /\ Stale(e)
    /\ UNCHANGED schedVars

\* The top entry is not due: yield and look again.
AwakerPoll(e) ==
    /\ e \in Top
    /\ state[e.process] # "EXITED"
    /\ ~Due(e)
    /\ Yield(Awaker)

\* Nobody sleeps: park on the queue that sleep() wakes.  The mutant parks
\* without looking at the sleep queue again.
AwakerParkBlindly == Wait(Awaker, AwakerQueue)
AwakerPark == sleepQueue = {} /\ Wait(Awaker, AwakerQueue)

AwakerStep ==
    \/ \E e \in sleepQueue :
          AwakerBury(e) \/ AwakerWake(e) \/ AwakerIgnore(e) \/ AwakerPoll(e)
    \/ AwakerPark

(***************************************************************************)
(* Ordinary processes that block, signal and are preempted as they please. *)
(***************************************************************************)
\* Bound: p may still block.
MayBlock(p) == waitToken[p] < MaxToken

\* Bound: a sleep of d ends within the clock's range.
InTime(d) == now + d <= MaxTime

ProcessStep(p) ==
    \/ Yield(p)
    \/ \E d \in Sleeps : MayBlock(p) /\ InTime(d) /\ Sleep(p, d)
    \/ \E q \in ObjectQueues :
          \/ MayBlock(p) /\ Wait(p, q)
          \/ \E d \in Timeouts : MayBlock(p) /\ InTime(d) /\ TimedWait(p, q, d)
          \/ Signal(p, q)

Next ==
    \/ \E t \in Task : Schedule(t)
    \/ \E p \in Process : ProcessStep(p)
    \/ Yield(Dummy)
    \/ AwakerStep
    \/ \E q \in IrqQueues : IrqWake(q)
    \/ Tick

Spec == Init /\ [][Next]_schedVars

(***************************************************************************)
(* Fairness: the timer keeps ticking and preempts whoever runs user code   *)
(* or the idle loop; the awaker's loop runs while it has the CPU; and the  *)
(* lottery is random, so a process that is a candidate again and again is  *)
(* eventually drawn.                                                       *)
(***************************************************************************)
FairSpec ==
    /\ Spec
    /\ WF_schedVars(Tick)
    /\ WF_schedVars(AwakerStep)
    /\ \A p \in Process \cup {Dummy} : WF_schedVars(Yield(p))
    /\ \A t \in Task : SF_schedVars(Schedule(t))

(***************************************************************************)
(* Properties.                                                             *)
(***************************************************************************)
TypeOK ==
    /\ current \in Task \cup {Scheduler}
    /\ state \in [Task -> States]
    /\ waitToken \in [Task -> Nat]
    /\ wakeReason \in [Task -> [timeout : BOOLEAN,
                                waitable : WaitQueues \cup {None}]]
    /\ sleeptill \in [Task -> Nat]
    /\ readyCount \in [Task -> Nat]
    /\ mProcesses \in [WaitQueues -> SUBSET Entry]
    /\ sleepQueue \subseteq SleepEntry
    /\ exited \subseteq Task
    /\ now \in Nat
    /\ panic \in BOOLEAN

\* A process is in the ready queue exactly once when it is AVAILABLE, and a
\* blocked process is not in it: the two PANICs of deschedule and of the
\* exited table about duplicates cannot come from scheduling itself.
ReadyOnce ==
    \A t \in Task :
        /\ state[t] = "AVAILABLE" => readyCount[t] = 1
        /\ state[t] \in {"NEW", "WAITING", "SLEEPING", "COLLECTING", "COLLECTED"}
               => readyCount[t] = 0
        /\ state[t] = "EXITED" => readyCount[t] = IF t \in exited THEN 0 ELSE 1

\* No lost wakeup and no stale entry: a queue holds an entry exactly for the
\* processes that are WAITING on it, with their current token, whatever mix
\* of signals, interrupts and timeouts ended earlier waits.
Waiters(q) == {t \in Task : state[t] = "WAITING" /\ wakeReason[t].waitable = q}

WaitersQueued ==
    \A q \in WaitQueues : mProcesses[q] = {EntryOf(t) : t \in Waiters(q)}

\* A SLEEPING process has an entry in the sleep queue the awaker will accept,
\* and every entry with the current token is a blocked process's, at the time
\* it asked for.
SleepersQueued ==
    /\ \A t \in Task :
          state[t] = "SLEEPING" => SleepEntryOf(t, sleeptill[t]) \in sleepQueue
    /\ \A e \in sleepQueue :
          /\ e.token <= waitToken[e.process]
          /\ ~Stale(e) => /\ state[e.process] \in {"SLEEPING", "WAITING"}
                          /\ e.till = sleeptill[e.process]

\* The awaker is never parked while somebody sleeps: sleep() wakes it after
\* inserting, and it parks only when it found the queue empty.
AwakerOnDuty ==
    sleepQueue # {} => state[Awaker] = "AVAILABLE"

\* A blocked process is told the truth about its wake-up: either the queue it
\* waits on was signalled, or it asked for a time and that time has come.  An
\* entry that an earlier wait left in the sleep queue never ends a later one.
HonestStep(t) ==
    state[t] \in {"WAITING", "SLEEPING"} /\ state'[t] = "AVAILABLE" =>
        \/ /\ state[t] = "WAITING"
           /\ wakeReason'[t] = BySignal(wakeReason[t].waitable)
        \/ /\ wakeReason'[t] = ByTimeout
           /\ SleepEntryOf(t, sleeptill[t]) \in sleepQueue
           /\ sleeptill[t] <= now

HonestWake == [][\A t \in Task : HonestStep(t)]_schedVars

\* Every sleep ends unless an entry that a finished wait left in the sleep queue
\* gets in the way: nothing else keeps the awaker from waking a sleeper.
OnlyLeftoversDelay ==
    \A p \in Process :
        state[p] = "SLEEPING" ~> state[p] = "AVAILABLE" \/ \E e \in sleepQueue : Stale(e)

\* Every sleep ends.
SleepEnds == \A p \in Process : state[p] = "SLEEPING" ~> state[p] = "AVAILABLE"
===============================================================================
