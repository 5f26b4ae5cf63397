------------------------------- MODULE Lottery --------------------------------
(***************************************************************************)
(* The lottery that picks the next process to run (tasks/scheduler.cpp):   *)
(* every process of the ready queue holds priority.scheduling.current      *)
(* tickets and a random number names the winner.  Scheduling abstracts the *)
(* draw to a choice; here the ready queue keeps its order, because the     *)
(* count of tickets runs along it.                                         *)
(***************************************************************************)
EXTENDS Selection

CONSTANTS
    Contender,      \* ordinary processes
    Dummy,          \* the idle process, always ready
    NoWinner,
    MaxTickets      \* priority.scheduling.max of an ordinary process

Task == Contender \cup {Dummy}

ASSUME LotteryAssumption ==
    Dummy \notin Contender /\ NoWinner \notin Task /\ MaxTickets \in Nat \ {0}

VARIABLES
    ready,          \* gReadyQueue, in order
    state,          \* process_t::state; "BLOCKED" stands for all that wait
    tickets,        \* priority.scheduling.current
    exited,         \* gExitedProcesses
    running,        \* the process that runs, or NoWinner while the lottery does
    aborted         \* "lottery did not select a winner", or a division by 0

lotteryVars == <<ready, state, tickets, exited, running, aborted>>

LotteryInit ==
    /\ ready = <<Dummy>>
    /\ state = [t \in Task |-> IF t = Dummy THEN "AVAILABLE" ELSE "BLOCKED"]
    /\ tickets \in {f \in [Task -> 1..MaxTickets] : f[Dummy] = 1}
    /\ exited = {}
    /\ running = NoWinner
    /\ aborted = FALSE

\* What is left of the ready queue once the exited processes are gone.
Purged == Selected(ready, {i \in DOMAIN ready : state[ready[i]] # "EXITED"})

\* The tickets that the processes at some positions of it hold: <<i, k>> is the k-th
\* of the one at i.
Tickets(positions) ==
    LET queue == Purged
    IN  {t \in positions \X (1..MaxTickets) : t[2] <= tickets[queue[t[1]]]}

TotalTickets ==
    Cardinality(Tickets({i \in DOMAIN Purged : state[Purged[i]] = "AVAILABLE"}))

\* The tickets counted when the loop looks at position i.  The mutant adds those
\* of i too late.
CountedLate(i) == Cardinality(Tickets(1..(i - 1)))
Counted(i) == Cardinality(Tickets(1..i))

\* Where the loop stops for the winning number w: nowhere, or in one place.
Stops(w) == {i \in DOMAIN Purged : Counted(i) >= w /\ state[Purged[i]] = "AVAILABLE"}

Winner(w) == {Purged[i] : i \in {i \in Stops(w) : \A j \in Stops(w) : i <= j}}

\* One draw with the winning number w.
Draw(w) ==
    /\ running = NoWinner
    /\ ready' = Purged
    /\ exited' = exited \cup {t \in Task : \E i \in DOMAIN ready :
                                  ready[i] = t /\ state[t] = "EXITED"}
    /\ IF Winner(w) = {} THEN aborted' = TRUE /\ UNCHANGED running
                         ELSE running' \in Winner(w) /\ UNCHANGED aborted
    /\ UNCHANGED <<state, tickets>>

\* The winning numbers a draw may have; with no ticket at all the draw
\* divides by zero.
Draws == 0..(TotalTickets - 1)

(***************************************************************************)
(* What the processes do with the queue between two draws.                 *)
(***************************************************************************)
\* The running process leaves the CPU and stays ready.
YieldCPU ==
    /\ running # NoWinner
    /\ running' = NoWinner
    /\ UNCHANGED <<ready, state, tickets, exited, aborted>>

\* deschedule: the running process blocks.
BlockRunning ==
    /\ running \in Contender
    /\ state' = [state EXCEPT ![running] = "BLOCKED"]
    /\ ready' = Selected(ready, {i \in DOMAIN ready : ready[i] # running})
    /\ running' = NoWinner
    /\ UNCHANGED <<tickets, exited, aborted>>

\* exit: the process stays in the ready queue until the next draw.
ExitRunning ==
    /\ running \in Contender
    /\ state' = [state EXCEPT ![running] = "EXITED"]
    /\ running' = NoWinner
    /\ UNCHANGED <<ready, tickets, exited, aborted>>

\* reschedule: somebody is woken or spawned.
Reschedule(p) ==
    /\ running # NoWinner
    /\ state[p] = "BLOCKED"
    /\ state' = [state EXCEPT ![p] = "AVAILABLE"]
    /\ ready' = Append(ready, p)
    /\ UNCHANGED <<tickets, exited, running, aborted>>

\* prioritize_current: an ordinary process gets n tickets; 0 would mean no
\* change.
GiveTickets(p, n) ==
    /\ running # NoWinner
    /\ tickets' = [tickets EXCEPT ![p] = n]
    /\ UNCHANGED <<ready, state, exited, running, aborted>>

LotteryNext ==
    \/ \E w \in Draws : Draw(w)
    \/ YieldCPU
    \/ BlockRunning
    \/ ExitRunning
    \/ \E p \in Contender : Reschedule(p) \/ \E n \in 1..MaxTickets : GiveTickets(p, n)

LotterySpec == LotteryInit /\ [][LotteryNext]_lotteryVars

(***************************************************************************)
(* Properties.                                                             *)
(***************************************************************************)
\* The draws that p wins.
Wins(p) == {w \in Draws : p \in Winner(w)}

\* The odds follow the tickets: there is a number to draw, each one stops at a
\* process that can run, so that lottery::next never aborts, and of these
\* equally likely numbers a ready process wins as many as it has tickets, give
\* or take one.  A process with two tickets or more can therefore always win.
OddsFollowTickets ==
    /\ ~aborted
    /\ Draws # {} /\ \A w \in Draws : Winner(w) # {}
    /\ \A i \in DOMAIN Purged :
          LET d == Cardinality(Wins(Purged[i])) - tickets[Purged[i]] IN d \in -1..1
===============================================================================
