------------------------------- MODULE Quantum --------------------------------
(***************************************************************************)
(* Time slices (ProcessManager::tickForSchedule, the end of a system call  *)
(* in syscalls/manager.cpp, the scheduler task): the timer charges ticks   *)
(* to the running process and takes the CPU away when it has used as many  *)
(* as priority.quantum.current allows, at once in user code and at the end *)
(* of the system call in the kernel.  Faults are handled with interrupts   *)
(* masked, so no tick falls into them.                                     *)
(***************************************************************************)
EXTENDS Integers

CONSTANTS
    Process,
    MaxQuantum,     \* priority.quantum.max
    Width,          \* usedticks is counted modulo this: 2^8
    None

ASSUME QuantumAssumption ==
    /\ MaxQuantum \in Nat \ {0}
    /\ Width \in Nat /\ Width > MaxQuantum
    /\ None \notin Process

VARIABLES
    current,        \* the running process, None while the scheduler runs
    mode,           \* is each process in user code or in a system call?
    quantum,        \* priority.quantum.current
    usedticks,      \* process_t::usedticks
    due,            \* flags.due_for_reschedule
    slice           \* ticks charged to the running process since it was chosen

vars == <<current, mode, quantum, usedticks, due, slice>>

Init ==
    /\ current = None
    /\ mode = [p \in Process |-> "user"]
    /\ quantum \in [Process -> 1..MaxQuantum]
    /\ usedticks = [p \in Process |-> 0]
    /\ due = [p \in Process |-> FALSE]
    /\ slice = 0

\* The scheduler task switches to the winner of the lottery.
Dispatch(p) ==
    /\ current = None
    /\ current' = p
    /\ due' = [due EXCEPT ![p] = FALSE]
    /\ slice' = 0
    /\ UNCHANGED <<mode, quantum, usedticks>>

\* ProcessManager::yield.
Yield == current' = None /\ slice' = 0

(***************************************************************************)
(* A timer tick that reaches tick_for_schedule.                            *)
(***************************************************************************)
\* usedticks after the tick.
Used(p) == (usedticks[p] + 1) % Width

\* Does the tick end the slice of p?
Expired(p) == Used(p) >= quantum[p]

\* The flag that makes a system call end in a yield.  The mutant forgets it.
MarkedNever(p) == due
Marked(p) == [due EXCEPT ![p] = TRUE]

\* Bound: longer slices than this are not told apart.
MaxSlice == MaxQuantum + Width

Longer == IF slice < MaxSlice THEN slice + 1 ELSE slice

TickForSchedule(p) ==
    /\ current = p
    /\ usedticks' = [usedticks EXCEPT ![p] = Used(p)]
    /\ \/ /\ Expired(p) /\ mode[p] = "user"
          /\ Yield
          /\ UNCHANGED due
       \/ /\ Expired(p) /\ mode[p] # "user"
          /\ due' = Marked(p)
          /\ slice' = Longer
          /\ UNCHANGED current
       \/ /\ ~Expired(p)
          /\ slice' = Longer
          /\ UNCHANGED <<current, due>>
    /\ UNCHANGED <<mode, quantum>>

(***************************************************************************)
(* Into the kernel and out of it.                                          *)
(***************************************************************************)
Enter(p) ==
    /\ current = p
    /\ mode[p] = "user"
    /\ mode' = [mode EXCEPT ![p] = "kernel"]
    /\ UNCHANGED <<current, quantum, usedticks, due, slice>>

\* A system call waits or sleeps.
Block(p) ==
    /\ current = p
    /\ mode[p] = "kernel"
    /\ Yield
    /\ UNCHANGED <<mode, quantum, usedticks, due>>

\* syscall_irq_handler returns, after the yield it may ask for.
SyscallReturn(p) ==
    /\ current = p
    /\ mode[p] = "kernel"
    /\ mode' = [mode EXCEPT ![p] = "user"]
    /\ IF due[p] THEN Yield ELSE UNCHANGED <<current, slice>>
    /\ UNCHANGED <<quantum, usedticks, due>>

\* prioritize_current: any process changes the quantum of any other, within
\* its maximum; 0 would mean no change.
Prioritize(p, r, n) ==
    /\ current = p
    /\ mode[p] = "kernel"
    /\ quantum' = [quantum EXCEPT ![r] = n]
    /\ UNCHANGED <<current, mode, usedticks, due, slice>>

Next ==
    \E p \in Process :
        \/ Dispatch(p)
        \/ TickForSchedule(p)
        \/ Enter(p)
        \/ Block(p)
        \/ SyscallReturn(p)
        \/ \E r \in Process, n \in 1..MaxQuantum : Prioritize(p, r, n)

Spec == Init /\ [][Next]_vars

(***************************************************************************)
(* Fairness: the timer keeps ticking, and system calls end.                *)
(***************************************************************************)
Fairness ==
    \A p \in Process : WF_vars(TickForSchedule(p)) /\ WF_vars(SyscallReturn(p))

(***************************************************************************)
(* Properties.                                                             *)
(***************************************************************************)
\* Nobody keeps the CPU beyond a slice: a process in user code has been charged
\* at most MaxQuantum ticks since it was chosen, however long its system calls
\* were, whoever changed its quantum and whenever the counter wrapped around.
SliceBounded ==
    \A p \in Process : current = p /\ mode[p] = "user" => slice <= MaxQuantum

TypeOK ==
    /\ current \in Process \cup {None}
    /\ mode \in [Process -> {"user", "kernel"}]
    /\ quantum \in [Process -> 1..MaxQuantum]
    /\ usedticks \in [Process -> 0..(Width - 1)]
    /\ due \in [Process -> BOOLEAN]
    /\ slice \in Nat

\* Why: a process that runs and is not due has been charged no more ticks than
\* its counter shows, the one that made it wrap apart, and a process in user
\* code is never due.
SliceCounted ==
    \A p \in Process : current = p =>
        /\ mode[p] = "user" => due[p] = FALSE
        /\ due[p] = FALSE /\ slice > 0 =>
              usedticks[p] < MaxQuantum /\ slice <= usedticks[p] + 1

\* A process that never blocks loses the CPU all the same.
Preempted == \A p \in Process : current = p ~> current # p
===============================================================================
