----------------------------- MODULE SynchProofs ------------------------------
(***************************************************************************)
(* The invariants of Scheduling and the honesty of wake-ups; and mutexes,  *)
(* semaphores and events, which build on them, keep their promises.  For   *)
(* any number of processes, queues and objects, and any timeouts, limits   *)
(* and bounds.                                                             *)
(***************************************************************************)
EXTENDS Synch, TLAPS

(***************************************************************************)
(* The scheduler and its queues.                                           *)
(***************************************************************************)
\* Whoever has the CPU is AVAILABLE, and nobody has exited.
RunnerReady ==
    /\ current \in Task => state[current] = "AVAILABLE"
    /\ \A t \in Task : state[t] \in {"AVAILABLE", "WAITING", "SLEEPING"}
    /\ exited = {}
    /\ panic = FALSE

\* The awaker blocks on its own queue only.
AwakerPlace ==
    state[Awaker] # "AVAILABLE" =>
        state[Awaker] = "WAITING" /\ wakeReason[Awaker].waitable = AwakerQueue

SchedInv ==
    /\ TypeOK
    /\ RunnerReady
    /\ ReadyOnce
    /\ WaitersQueued
    /\ SleepersQueued
    /\ AwakerPlace
    /\ AwakerOnDuty

\* The kernel boots into a state of the invariant.
LEMMA InitSchedInv == Init => SchedInv
<1> SUFFICES ASSUME Init PROVE SchedInv
    BY Zenon
<1> USE SchedulingAssumption DEF Init
<1>1. TypeOK
  BY Zenon DEF TypeOK, States, Task, Entry, SleepEntry
<1>2. RunnerReady /\ AwakerPlace /\ AwakerOnDuty
  BY Zenon DEF RunnerReady, AwakerPlace, AwakerOnDuty, Task
<1>3. ReadyOnce
  BY Zenon DEF ReadyOnce
<1>4. WaitersQueued
  BY Zenon DEF WaitersQueued, Waiters
<1>5. SleepersQueued
  BY Zenon DEF SleepersQueued
<1> QED
  BY <1>1, <1>2, <1>3, <1>4, <1>5, Zenon DEF SchedInv

\* Steps that only hand over the CPU or move the clock.
LEMMA ScheduleKeeps == ASSUME SchedInv, NEW t \in Task, Schedule(t) PROVE SchedInv'
<1> USE DEF SchedInv, RunnerReady
<1>1. Departed = {}
  BY Zenon DEF Departed
<1>2. /\ exited' = exited /\ panic' = FALSE /\ current' = t
      /\ readyCount' = readyCount
  BY <1>1, Zenon DEF Schedule, TypeOK
<1>3. state[t] = "AVAILABLE"
  BY Zenon DEF Schedule, Candidates
<1> QED
  BY <1>2, <1>3
     DEF Schedule, TypeOK, ReadyOnce, WaitersQueued, Waiters, EntryOf,
         SleepersQueued, SleepEntryOf, Stale, AwakerPlace, AwakerOnDuty

LEMMA YieldKeeps == ASSUME SchedInv, NEW p \in Task, Yield(p) PROVE SchedInv'
BY SchedulingAssumption
   DEF SchedInv, RunnerReady, Yield, TypeOK, ReadyOnce, WaitersQueued, Waiters,
       EntryOf, SleepersQueued, SleepEntryOf, Stale, AwakerPlace, AwakerOnDuty

LEMMA TickKeeps == ASSUME SchedInv, Tick PROVE SchedInv'
BY DEF SchedInv, RunnerReady, Tick, TypeOK, ReadyOnce, WaitersQueued, Waiters,
       EntryOf, SleepersQueued, SleepEntryOf, Stale, AwakerPlace, AwakerOnDuty

\* The process that runs is in the ready queue once, so deschedule finds it
\* and does not panic.
LEMMA RunnerQueuedOnce ==
    ASSUME SchedInv, NEW p \in Task, current = p
    PROVE  /\ state[p] = "AVAILABLE"
           /\ readyCount[p] = 1
           /\ readyCount[p] > 0
           /\ (panic \/ (p \in Task /\ readyCount[p] > 1)) = FALSE
<1>1. state[p] = "AVAILABLE" /\ readyCount[p] = 1 /\ panic = FALSE
  BY Zenon DEF SchedInv, RunnerReady, ReadyOnce
<1>2. readyCount[p] > 0 /\ ~(readyCount[p] > 1)
  BY <1>1
<1> QED
  BY <1>1, <1>2, Zenon

\* What Awaken does: nobody is descheduled.
LEMMA AwakenEffect ==
    ASSUME SchedInv, NEW W \in SUBSET Task, NEW r, Awaken(W, r)
    PROVE  /\ state' = [t \in Task |-> IF t \in W THEN "AVAILABLE" ELSE state[t]]
           /\ waitToken' = [t \in Task |-> IF t \in W THEN waitToken[t] + 1 ELSE waitToken[t]]
           /\ readyCount' = [t \in Task |-> IF t \in W THEN readyCount[t] + 1 ELSE readyCount[t]]
           /\ wakeReason' = [t \in Task |-> IF t \in W THEN r ELSE wakeReason[t]]
           /\ panic' = FALSE
<1>1. /\ None \notin Task
      /\ \A t \in Task : t # None
  BY SchedulingAssumption, Zenon
<1>2. panic' = FALSE
  <2>1. panic' = (panic \/ (None \in Task /\ readyCount[None] > 1))
    BY Zenon DEF Awaken, Resched
  <2>2. panic = FALSE
    BY Zenon DEF SchedInv, RunnerReady
  <2> QED
    BY <1>1, <2>1, <2>2, Zenon
<1> QED
  BY <1>1, <1>2, Zenon DEF Awaken, Resched

\* A process blocks on a queue.
LEMMA WaitKeeps ==
    ASSUME SchedInv, NEW p \in Task, NEW q \in WaitQueues, Wait(p, q),
           p = Awaker => q = AwakerQueue /\ sleepQueue = {}
    PROVE  SchedInv'
<1> USE SchedulingAssumption DEF SchedInv
<1>0. current = p /\ Resched(p, "WAITING", q, {}, BySignal(q))
  BY Zenon DEF Wait, Running
<1>1. state[p] = "AVAILABLE"
  BY <1>0, RunnerQueuedOnce, Zenon
<1>2. /\ state' = [t \in Task |-> IF t = p THEN "WAITING" ELSE state[t]]
      /\ waitToken' = [t \in Task |-> waitToken[t]]
      /\ readyCount' = [t \in Task |-> IF t = p THEN 0 ELSE readyCount[t]]
      /\ wakeReason' = [t \in Task |-> IF t = p THEN [wakeReason[t] EXCEPT !.waitable = q]
                                       ELSE wakeReason[t]]
      /\ panic' = FALSE
  BY <1>0, RunnerQueuedOnce, Zenon DEF Resched, Erased
<1>3. TypeOK'
  <2>1. wakeReason' \in [Task -> [timeout : BOOLEAN, waitable : WaitQueues \cup {None}]]
    BY <1>2 DEF TypeOK
  <2>2. mProcesses' \in [WaitQueues -> SUBSET Entry]
    BY DEF TypeOK, Wait, Entry, EntryOf
  <2>3. panic' \in BOOLEAN
    BY <1>2, Zenon
  <2> QED
    BY <1>2, <2>1, <2>2, <2>3, Zenon DEF TypeOK, Wait, States
<1>4. RunnerReady'
  BY <1>2, Zenon DEF RunnerReady, TypeOK, Wait
<1>5. ReadyOnce'
  BY <1>2, Zenon DEF ReadyOnce, TypeOK, Wait
<1>6. WaitersQueued'
  <2> SUFFICES ASSUME NEW r \in WaitQueues
               PROVE  mProcesses'[r] = {EntryOf(t)' : t \in Waiters(r)'}
    BY Zenon DEF WaitersQueued
  <2>1. \A t \in Task : EntryOf(t)' = EntryOf(t)
    BY <1>2, Zenon DEF EntryOf
  <2>2. Waiters(r)' = IF r = q THEN Waiters(r) \cup {p} ELSE Waiters(r)
    BY <1>1, <1>2 DEF Waiters, TypeOK
  <2>3. mProcesses'[r] = IF r = q THEN mProcesses[r] \cup {EntryOf(p)} ELSE mProcesses[r]
    BY Zenon DEF Wait, TypeOK
  <2> QED
    BY <2>1, <2>2, <2>3 DEF WaitersQueued, Waiters
<1>7. SleepersQueued'
  BY <1>1, <1>2, Zenon DEF SleepersQueued, SleepEntryOf, Stale, Wait, TypeOK, SleepEntry
<1>8. AwakerPlace' /\ AwakerOnDuty'
  BY <1>2 DEF AwakerPlace, AwakerOnDuty, TypeOK, Wait, Task
<1> QED
  BY <1>3, <1>4, <1>5, <1>6, <1>7, <1>8, Zenon

\* A queue is signalled, by a process or by an interrupt.
LEMMA WakeAllKeeps ==
    ASSUME SchedInv, NEW q \in WaitQueues, WakeAll(q) PROVE SchedInv'
<1> USE SchedulingAssumption DEF SchedInv
<1> DEFINE W == Woken(q)
<1>1. W = Waiters(q)
  BY DEF WaitersQueued, Woken, Waiters, EntryOf, TypeOK
<1>2. /\ state' = [t \in Task |-> IF t \in W THEN "AVAILABLE" ELSE state[t]]
      /\ waitToken' = [t \in Task |-> IF t \in W THEN waitToken[t] + 1 ELSE waitToken[t]]
      /\ readyCount' = [t \in Task |-> IF t \in W THEN readyCount[t] + 1 ELSE readyCount[t]]
      /\ wakeReason' = [t \in Task |-> IF t \in W THEN BySignal(q) ELSE wakeReason[t]]
      /\ panic' = FALSE
  BY AwakenEffect, Zenon DEF WakeAll, Woken
<1>3. TypeOK'
  <2>1. wakeReason' \in [Task -> [timeout : BOOLEAN, waitable : WaitQueues \cup {None}]]
    BY <1>2, Zenon DEF TypeOK, BySignal
  <2>2. panic' \in BOOLEAN
    BY <1>2, ZenonT(30)
  <2> QED
    BY <1>2, <2>1, <2>2 DEF TypeOK, WakeAll, States
<1>4. RunnerReady'
  BY <1>1, <1>2, Zenon DEF RunnerReady, TypeOK, WakeAll
<1>5. ReadyOnce'
  BY <1>1, <1>2 DEF ReadyOnce, TypeOK, WakeAll, Waiters
<1>6. WaitersQueued'
  <2> SUFFICES ASSUME NEW r \in WaitQueues
               PROVE  mProcesses'[r] = {EntryOf(t)' : t \in Waiters(r)'}
    BY Zenon DEF WaitersQueued
  <2>1. Waiters(r)' = IF r = q THEN {} ELSE Waiters(r)
    BY <1>1, <1>2, Zenon DEF Waiters, TypeOK, RunnerReady
  <2>2. \A t \in Waiters(r)' : EntryOf(t)' = EntryOf(t)
    BY <1>1, <1>2, <2>1, Zenon DEF EntryOf, Waiters
  <2>3. mProcesses'[r] = IF r = q THEN {} ELSE mProcesses[r]
    BY SMTT(30) DEF WakeAll, TypeOK
  <2> QED
    BY <2>1, <2>2, <2>3 DEF WaitersQueued
<1>7. SleepersQueued'
  BY <1>1, <1>2 DEF SleepersQueued, SleepEntryOf, Stale, WakeAll, TypeOK, SleepEntry, Waiters
<1>8. AwakerPlace' /\ AwakerOnDuty'
  BY <1>2, Zenon DEF AwakerPlace, AwakerOnDuty, TypeOK, WakeAll, Task
<1> QED
  BY <1>3, <1>4, <1>5, <1>6, <1>7, <1>8, Zenon

\* Every waiter of a queue is woken when the queue is emptied, and nobody else.
LEMMA WokenAreWaiters ==
    ASSUME SchedInv, NEW q \in WaitQueues PROVE Woken(q) = Waiters(q)
BY DEF SchedInv, WaitersQueued, Woken, Waiters, EntryOf, TypeOK

\* An ordinary process goes to sleep and calls the awaker.
LEMMA SleepKeeps ==
    ASSUME SchedInv, NEW p \in Process, NEW d \in Nat, Sleep(p, d) PROVE SchedInv'
<1> USE SchedulingAssumption DEF SchedInv
<1> DEFINE W == Woken(AwakerQueue)
<1>0. /\ p \in Task /\ p # Awaker
      /\ current = p
      /\ Resched(p, "SLEEPING", None, W, BySignal(AwakerQueue))
  BY Zenon DEF Sleep, Running, Task
<1>1. state[p] = "AVAILABLE"
  BY <1>0, RunnerQueuedOnce, Zenon
<1>2. W = Waiters(AwakerQueue) /\ p \notin W
  BY <1>1, WokenAreWaiters, Zenon DEF Waiters
<1>3. /\ state' = [t \in Task |-> IF t \in W THEN "AVAILABLE"
                                  ELSE IF t = p THEN "SLEEPING" ELSE state[t]]
      /\ waitToken' = [t \in Task |-> IF t \in W THEN waitToken[t] + 1 ELSE waitToken[t]]
      /\ readyCount' = [t \in Task |-> IF t \in W THEN readyCount[t] + 1
                                       ELSE IF t = p THEN 0 ELSE readyCount[t]]
      /\ wakeReason' = [t \in Task |-> IF t \in W THEN BySignal(AwakerQueue)
                                       ELSE IF t = p THEN [wakeReason[t] EXCEPT !.waitable = None]
                                       ELSE wakeReason[t]]
      /\ panic' = FALSE
  BY <1>0, RunnerQueuedOnce, Zenon DEF Resched, Erased
<1> HIDE DEF W
<1>4. TypeOK'
  <2>1. wakeReason' \in [Task -> [timeout : BOOLEAN, waitable : WaitQueues \cup {None}]]
    BY <1>3, SMTT(30) DEF TypeOK, BySignal
  <2>2. sleepQueue' \subseteq SleepEntry
    BY <1>0 DEF TypeOK, Sleep, SleepEntry, SleepEntryOf
  <2>3. panic' \in BOOLEAN
    BY <1>3, ZenonT(30)
  <2>4. state' \in [Task -> States]
    BY <1>3, Zenon DEF TypeOK, States
  <2>5. waitToken' \in [Task -> Nat] /\ readyCount' \in [Task -> Nat]
    BY <1>3 DEF TypeOK
  <2>6. mProcesses' \in [WaitQueues -> SUBSET Entry]
    BY Zenon DEF TypeOK, Sleep
  <2>7. sleeptill' \in [Task -> Nat]
    <3>1. sleeptill' = [sleeptill EXCEPT ![p] = now + d]
      BY Zenon DEF Sleep
    <3> QED
      BY <1>0, <3>1 DEF TypeOK
  <2>8. current' = Scheduler /\ UNCHANGED <<exited, now>>
    BY Zenon DEF Sleep
  <2> QED
    BY <2>1, <2>2, <2>3, <2>4, <2>5, <2>6, <2>7, <2>8, Zenon DEF TypeOK
<1>5. RunnerReady'
  BY <1>3, Zenon DEF RunnerReady, TypeOK, Sleep
<1>6. ReadyOnce'
  BY <1>2, <1>3 DEF ReadyOnce, TypeOK, Sleep, Waiters
<1>7. WaitersQueued'
  <2> SUFFICES ASSUME NEW r \in WaitQueues
               PROVE  mProcesses'[r] = {EntryOf(t)' : t \in Waiters(r)'}
    BY Zenon DEF WaitersQueued
  <2>1. Waiters(r)' = IF r = AwakerQueue THEN {} ELSE Waiters(r)
    <3>1. \A t \in Task : state'[t] = "WAITING" <=> state[t] = "WAITING" /\ t \notin W
      BY <1>1, <1>3, Zenon
    <3>2. \A t \in Task : state'[t] = "WAITING" => wakeReason'[t] = wakeReason[t]
      BY <1>3, Zenon
    <3> QED
      BY <1>2, <3>1, <3>2, Zenon DEF Waiters
  <2>2. \A t \in Waiters(r)' : EntryOf(t)' = EntryOf(t)
    BY <1>2, <1>3, <2>1, Zenon DEF EntryOf, Waiters
  <2>3. mProcesses'[r] = IF r = AwakerQueue THEN {} ELSE mProcesses[r]
    BY Zenon DEF Sleep, TypeOK
  <2> QED
    BY <2>1, <2>2, <2>3 DEF WaitersQueued
<1>8. SleepersQueued'
  <2>1. /\ sleeptill' = [sleeptill EXCEPT ![p] = now + d]
        /\ sleepQueue' = sleepQueue \cup {SleepEntryOf(p, now + d)}
    BY Zenon DEF Sleep
  <2>2. waitToken'[p] = waitToken[p] /\ state'[p] = "SLEEPING" /\ sleeptill'[p] = now + d
    BY <1>0, <1>2, <1>3, <2>1, Zenon DEF TypeOK
  <2>3. \A t \in Task : state'[t] = "SLEEPING" => SleepEntryOf(t, sleeptill[t])' \in sleepQueue'
    BY <1>0, <1>2, <1>3, <2>1, <2>2, SMTT(30) DEF SleepersQueued, SleepEntryOf, TypeOK, Waiters
  <2>4. ASSUME NEW e \in sleepQueue'
        PROVE  /\ e.token <= waitToken'[e.process]
               /\ e.token = waitToken'[e.process] =>
                     /\ state'[e.process] \in {"SLEEPING", "WAITING"}
                     /\ e.till = sleeptill'[e.process]
    <3>1. CASE e \in sleepQueue
      BY <1>0, <1>1, <1>2, <1>3, <2>1, <2>2, <3>1, SMTT(30)
         DEF SleepersQueued, Stale, TypeOK, SleepEntry, Waiters
    <3>2. CASE e = SleepEntryOf(p, now + d)
      BY <1>0, <2>2, <3>2 DEF SleepEntryOf, TypeOK
    <3> QED
      BY <2>1, <3>1, <3>2, Zenon
  <2> QED
    BY <2>3, <2>4, Zenon DEF SleepersQueued, Stale
<1>9. AwakerPlace' /\ AwakerOnDuty'
  <2>1. state'[Awaker] = "AVAILABLE"
    BY <1>0, <1>2, <1>3, Zenon DEF AwakerPlace, Task, Waiters
  <2> QED
    BY <2>1, Zenon DEF AwakerPlace, AwakerOnDuty
<1> QED
  BY <1>4, <1>5, <1>6, <1>7, <1>8, <1>9, Zenon

\* An ordinary process blocks on a queue with a timeout and calls the awaker.
LEMMA TimedWaitKeeps ==
    ASSUME SchedInv, NEW p \in Process, NEW q \in ObjectQueues,
           NEW d \in Nat, TimedWait(p, q, d)
    PROVE  SchedInv'
<1> USE SchedulingAssumption DEF SchedInv
<1> DEFINE W == Woken(AwakerQueue)
<1>0. /\ p \in Task /\ p # Awaker /\ q \in WaitQueues /\ q # AwakerQueue
      /\ current = p
      /\ Resched(p, "WAITING", q, W, BySignal(AwakerQueue))
  BY Zenon DEF TimedWait, Running, Task
<1>1. state[p] = "AVAILABLE"
  BY <1>0, RunnerQueuedOnce, Zenon
<1>2. W = Waiters(AwakerQueue) /\ p \notin W
  BY <1>1, WokenAreWaiters, Zenon DEF Waiters
<1>3. /\ state' = [t \in Task |-> IF t \in W THEN "AVAILABLE"
                                  ELSE IF t = p THEN "WAITING" ELSE state[t]]
      /\ waitToken' = [t \in Task |-> IF t \in W THEN waitToken[t] + 1 ELSE waitToken[t]]
      /\ readyCount' = [t \in Task |-> IF t \in W THEN readyCount[t] + 1
                                       ELSE IF t = p THEN 0 ELSE readyCount[t]]
      /\ wakeReason' = [t \in Task |-> IF t \in W THEN BySignal(AwakerQueue)
                                       ELSE IF t = p THEN [wakeReason[t] EXCEPT !.waitable = q]
                                       ELSE wakeReason[t]]
      /\ panic' = FALSE
  BY <1>0, RunnerQueuedOnce, ZenonT(30) DEF Resched, Erased
<1> HIDE DEF W
<1>4. TypeOK'
  <2>1. wakeReason' \in [Task -> [timeout : BOOLEAN, waitable : WaitQueues \cup {None}]]
    BY <1>0, <1>3 DEF TypeOK, BySignal
  <2>2. sleepQueue' \subseteq SleepEntry
    BY <1>0 DEF TypeOK, TimedWait, SleepEntry, SleepEntryOf
  <2>3. panic' \in BOOLEAN
    BY <1>3, ZenonT(30)
  <2>4. state' \in [Task -> States]
    BY <1>3, Zenon DEF TypeOK, States
  <2>5. waitToken' \in [Task -> Nat] /\ readyCount' \in [Task -> Nat]
    BY <1>3 DEF TypeOK
  <2>6. mProcesses' \in [WaitQueues -> SUBSET Entry]
    BY <1>0 DEF TypeOK, TimedWait, Entry, EntryOf
  <2>7. sleeptill' \in [Task -> Nat]
    <3>1. sleeptill' = [sleeptill EXCEPT ![p] = now + d]
      BY Zenon DEF TimedWait
    <3> QED
      BY <1>0, <3>1 DEF TypeOK
  <2>8. current' = Scheduler /\ UNCHANGED <<exited, now>>
    BY Zenon DEF TimedWait
  <2> QED
    BY <2>1, <2>2, <2>3, <2>4, <2>5, <2>6, <2>7, <2>8, Zenon DEF TypeOK
<1>5. RunnerReady'
  BY <1>3, Zenon DEF RunnerReady, TypeOK, TimedWait
<1>6. ReadyOnce'
  BY <1>2, <1>3 DEF ReadyOnce, TypeOK, TimedWait, Waiters
<1>7. WaitersQueued'
  <2> SUFFICES ASSUME NEW r \in WaitQueues
               PROVE  mProcesses'[r] = {EntryOf(t)' : t \in Waiters(r)'}
    BY SMTT(30) DEF WaitersQueued
  <2>1. Waiters(r)' = IF r = AwakerQueue THEN {}
                      ELSE IF r = q THEN Waiters(r) \cup {p} ELSE Waiters(r)
    <3>1. \A t \in Task : state'[t] = "WAITING" <=>
                             t = p \/ (state[t] = "WAITING" /\ t \notin W)
      BY <1>1, <1>2, <1>3, Zenon
    <3>2. \A t \in Task \ {p} : state'[t] = "WAITING" => wakeReason'[t] = wakeReason[t]
      BY <1>3, Zenon
    <3>3. wakeReason'[p].waitable = q
      BY <1>0, <1>2, <1>3 DEF TypeOK
    <3> QED
      BY <1>0, <1>1, <1>2, <3>1, <3>2, <3>3, Zenon DEF Waiters
  <2>2. \A t \in Waiters(r)' : EntryOf(t)' = EntryOf(t)
    BY <1>2, <1>3, <2>1, Zenon DEF EntryOf, Waiters
  <2>3. mProcesses'[r] = IF r = AwakerQueue THEN {}
                         ELSE IF r = q THEN mProcesses[r] \cup {EntryOf(p)} ELSE mProcesses[r]
    BY <1>0, ZenonT(30) DEF TimedWait, TypeOK
  <2> QED
    BY <1>0, <2>1, <2>2, <2>3 DEF WaitersQueued
<1>8. SleepersQueued'
  <2>1. /\ sleeptill' = [sleeptill EXCEPT ![p] = now + d]
        /\ sleepQueue' = sleepQueue \cup {SleepEntryOf(p, now + d)}
    BY Zenon DEF TimedWait
  <2>2. waitToken'[p] = waitToken[p] /\ state'[p] = "WAITING" /\ sleeptill'[p] = now + d
    BY <1>0, <1>2, <1>3, <2>1, Zenon DEF TypeOK
  <2>3. \A t \in Task : state'[t] = "SLEEPING" => SleepEntryOf(t, sleeptill[t])' \in sleepQueue'
    BY <1>0, <1>2, <1>3, <2>1, <2>2, Zenon DEF SleepersQueued, SleepEntryOf, TypeOK, Waiters
  <2>4. ASSUME NEW e \in sleepQueue'
        PROVE  /\ e.token <= waitToken'[e.process]
               /\ e.token = waitToken'[e.process] =>
                     /\ state'[e.process] \in {"SLEEPING", "WAITING"}
                     /\ e.till = sleeptill'[e.process]
    <3>1. CASE e \in sleepQueue
      BY <1>0, <1>1, <1>2, <1>3, <2>1, <2>2, <3>1
         DEF SleepersQueued, Stale, TypeOK, SleepEntry, Waiters
    <3>2. CASE e = SleepEntryOf(p, now + d)
      BY <1>0, <2>2, <3>2, SMTT(30) DEF SleepEntryOf, TypeOK
    <3> QED
      BY <2>1, <3>1, <3>2, Zenon
  <2> QED
    BY <2>3, <2>4, SMTT(30) DEF SleepersQueued, Stale
<1>9. AwakerPlace' /\ AwakerOnDuty'
  <2>1. state'[Awaker] = "AVAILABLE"
    BY <1>0, <1>2, <1>3, Zenon DEF AwakerPlace, Task, Waiters
  <2> QED
    BY <2>1, Zenon DEF AwakerPlace, AwakerOnDuty
<1> QED
  BY <1>4, <1>5, <1>6, <1>7, <1>8, <1>9, Zenon

\* The awaker ends a sleep or a timed wait.
LEMMA AwakerWakeKeeps ==
    ASSUME SchedInv, NEW e \in sleepQueue, AwakerWake(e) PROVE SchedInv'
<1> USE SchedulingAssumption DEF SchedInv
<1> DEFINE p == e.process
<1>1. /\ p \in Task
      /\ e.token = waitToken[p]
      /\ state[p] \in {"SLEEPING", "WAITING"}
      /\ current = Awaker
  BY SMTT(30) DEF AwakerWake, Stale, SleepersQueued, TypeOK, SleepEntry, Running
<1>2. Asleep(p) = {p}
  BY <1>1, SMTT(30) DEF Asleep
<1> HIDE DEF p
<1>3. /\ state' = [t \in Task |-> IF t = p THEN "AVAILABLE" ELSE state[t]]
      /\ waitToken' = [t \in Task |-> IF t = p THEN waitToken[t] + 1 ELSE waitToken[t]]
      /\ readyCount' = [t \in Task |-> IF t = p THEN readyCount[t] + 1 ELSE readyCount[t]]
      /\ wakeReason' = [t \in Task |-> IF t = p THEN ByTimeout ELSE wakeReason[t]]
      /\ panic' = FALSE
  <2> DEFINE W == {p}
  <2>1. W \in SUBSET Task /\ Awaken(W, ByTimeout)
    BY <1>1, <1>2, Zenon DEF AwakerWake, p
  <2>2. \A t : t \in W <=> t = p
    BY Zenon
  <2> HIDE DEF W
  <2>3. /\ state' = [t \in Task |-> IF t \in W THEN "AVAILABLE" ELSE state[t]]
        /\ waitToken' = [t \in Task |-> IF t \in W THEN waitToken[t] + 1 ELSE waitToken[t]]
        /\ readyCount' = [t \in Task |-> IF t \in W THEN readyCount[t] + 1 ELSE readyCount[t]]
        /\ wakeReason' = [t \in Task |-> IF t \in W THEN ByTimeout ELSE wakeReason[t]]
        /\ panic' = FALSE
    BY <2>1, AwakenEffect, ZenonT(30)
  <2> QED
    BY <2>2, <2>3, SMTT(30)
<1>4. TypeOK'
  <2>1. wakeReason' \in [Task -> [timeout : BOOLEAN, waitable : WaitQueues \cup {None}]]
    BY <1>3, Zenon DEF TypeOK, ByTimeout
  <2>2. mProcesses' \in [WaitQueues -> SUBSET Entry]
    BY Zenon DEF TypeOK, AwakerWake, Dequeued
  <2>3. panic' \in BOOLEAN
    BY <1>3, ZenonT(30)
  <2>4. state' \in [Task -> States] /\ waitToken' \in [Task -> Nat] /\ readyCount' \in [Task -> Nat]
    BY <1>3 DEF TypeOK, States
  <2>5. sleepQueue' \subseteq SleepEntry /\ UNCHANGED <<current, sleeptill, exited, now>>
    BY Zenon DEF AwakerWake, TypeOK
  <2> QED
    BY <2>1, <2>2, <2>3, <2>4, <2>5, Zenon DEF TypeOK
<1>5. RunnerReady'
  BY <1>3, Zenon DEF RunnerReady, TypeOK, AwakerWake
<1>6. ReadyOnce'
  BY <1>1, <1>3, SMTT(30) DEF ReadyOnce, TypeOK, AwakerWake
<1>7. WaitersQueued'
  <2> SUFFICES ASSUME NEW r \in WaitQueues
               PROVE  mProcesses'[r] = {EntryOf(t)' : t \in Waiters(r)'}
    BY Zenon DEF WaitersQueued
  <2>1. Waiters(r)' = Waiters(r) \ {p}
    BY <1>3, SMTT(30) DEF Waiters
  <2>2. \A t \in Waiters(r)' : EntryOf(t)' = EntryOf(t)
    BY <1>3, <2>1, SMTT(30) DEF EntryOf, Waiters
  <2>3. mProcesses'[r] = {f \in mProcesses[r] : f.process # p}
    <3>1. mProcesses'[r] = IF r = wakeReason[p].waitable
                           THEN {f \in mProcesses[r] : f.process # p} ELSE mProcesses[r]
      BY <1>2, Zenon DEF AwakerWake, Dequeued, p
    <3>2. r # wakeReason[p].waitable => \A f \in mProcesses[r] : f.process # p
      BY DEF WaitersQueued, Waiters, EntryOf
    <3> QED
      BY <3>1, <3>2, SMTT(30)
  <2>4. \A t : EntryOf(t).process = t
    BY Zenon DEF EntryOf
  <2>5. mProcesses[r] = {EntryOf(t) : t \in Waiters(r)}
    BY Zenon DEF WaitersQueued
  <2>6. {f \in mProcesses[r] : f.process # p} = {EntryOf(t) : t \in Waiters(r) \ {p}}
    BY <2>4, <2>5, SMTT(30)
  <2> QED
    BY <2>1, <2>2, <2>3, <2>6, Zenon
<1>8. SleepersQueued'
  <2>1. sleepQueue' = sleepQueue \ {e} /\ sleeptill' = sleeptill
    BY SMTT(30) DEF AwakerWake
  <2>2. \A t \in Task : state'[t] = "SLEEPING" => SleepEntryOf(t, sleeptill[t])' \in sleepQueue'
    BY <1>1, <1>3, <2>1, SMTT(30) DEF SleepersQueued, SleepEntryOf, TypeOK, SleepEntry, p
  <2>3. ASSUME NEW f \in sleepQueue'
        PROVE  /\ f.token <= waitToken'[f.process]
               /\ f.token = waitToken'[f.process] =>
                     /\ state'[f.process] \in {"SLEEPING", "WAITING"}
                     /\ f.till = sleeptill'[f.process]
    BY <1>1, <1>3, <2>1, SMTT(30) DEF SleepersQueued, Stale, TypeOK, SleepEntry
  <2> QED
    BY <2>2, <2>3, SMTT(30) DEF SleepersQueued, Stale
<1>9. AwakerPlace' /\ AwakerOnDuty'
  <2>1. state'[Awaker] = "AVAILABLE"
    BY <1>1, <1>3, Zenon DEF RunnerReady, Task
  <2> QED
    BY <2>1, SMTT(30) DEF AwakerPlace, AwakerOnDuty
<1> QED
  BY <1>4, <1>5, <1>6, <1>7, <1>8, <1>9, Zenon

(***************************************************************************)
(* Every step keeps the invariant.                                         *)
(***************************************************************************)
LEMMA StutterKeeps == ASSUME SchedInv, UNCHANGED schedVars PROVE SchedInv'
<1> USE DEF SchedInv, schedVars
<1>1. TypeOK' /\ RunnerReady'
  BY Zenon DEF TypeOK, RunnerReady
<1>2. ReadyOnce' /\ AwakerPlace' /\ AwakerOnDuty'
  BY Zenon DEF ReadyOnce, AwakerPlace, AwakerOnDuty
<1>3. WaitersQueued'
  BY SMTT(30) DEF WaitersQueued, Waiters, EntryOf
<1>4. SleepersQueued'
  BY Zenon DEF SleepersQueued, SleepEntryOf, Stale
<1> QED
  BY <1>1, <1>2, <1>3, <1>4, Zenon

LEMMA AwakerStepKeeps == ASSUME SchedInv, AwakerStep PROVE SchedInv'
<1> USE SchedulingAssumption DEF SchedInv
<1>1. ASSUME NEW e \in sleepQueue, AwakerBury(e) PROVE FALSE
  BY <1>1, Zenon DEF AwakerBury, RunnerReady, TypeOK, SleepEntry
<1>2. ASSUME NEW e \in sleepQueue, AwakerWake(e) PROVE SchedInv'
  BY <1>2, AwakerWakeKeeps, Zenon
<1>3. ASSUME NEW e \in sleepQueue, AwakerIgnore(e) PROVE SchedInv'
  BY <1>3, StutterKeeps, SMTT(30) DEF AwakerIgnore
<1>4. ASSUME NEW e \in sleepQueue, AwakerPoll(e) PROVE SchedInv'
  BY <1>4, YieldKeeps, Zenon DEF AwakerPoll, Task
<1>5. CASE AwakerPark
  BY <1>5, WaitKeeps, Zenon DEF AwakerPark, Task
<1> QED
  BY <1>1, <1>2, <1>3, <1>4, <1>5, Zenon DEF AwakerStep

LEMMA ProcessStepKeeps ==
    ASSUME SchedInv, NEW p \in Process, ProcessStep(p) PROVE SchedInv'
<1> USE SchedulingAssumption
<1>1. p \in Task /\ p # Awaker
  BY Zenon DEF Task
<1>2. CASE Yield(p)
  BY <1>1, <1>2, YieldKeeps, Zenon
<1>3. ASSUME NEW d \in Sleeps, Sleep(p, d) PROVE SchedInv'
  BY <1>3, SleepKeeps, Zenon
<1>4. ASSUME NEW q \in ObjectQueues, Wait(p, q) PROVE SchedInv'
  BY <1>1, <1>4, WaitKeeps, Zenon
<1>5. ASSUME NEW q \in ObjectQueues, NEW d \in Timeouts, TimedWait(p, q, d) PROVE SchedInv'
  BY <1>5, TimedWaitKeeps, Zenon
<1>6. ASSUME NEW q \in ObjectQueues, Signal(p, q) PROVE SchedInv'
  BY <1>6, WakeAllKeeps, Zenon DEF Signal
<1> QED
  BY <1>2, <1>3, <1>4, <1>5, <1>6, Zenon DEF ProcessStep

LEMMA NextKeeps == SchedInv /\ [Next]_schedVars => SchedInv'
<1> SUFFICES ASSUME SchedInv, [Next]_schedVars PROVE SchedInv'
    BY Zenon
<1> USE SchedulingAssumption
<1>1. ASSUME NEW t \in Task, Schedule(t) PROVE SchedInv'
  BY <1>1, ScheduleKeeps, Zenon
<1>2. ASSUME NEW p \in Process, ProcessStep(p) PROVE SchedInv'
  BY <1>2, ProcessStepKeeps, Zenon
<1>3. CASE Yield(Dummy)
  BY <1>3, YieldKeeps, Zenon DEF Task
<1>4. CASE AwakerStep
  BY <1>4, AwakerStepKeeps, Zenon
<1>5. ASSUME NEW q \in IrqQueues, IrqWake(q) PROVE SchedInv'
  BY <1>5, WakeAllKeeps, Zenon DEF IrqWake
<1>6. CASE Tick
  BY <1>6, TickKeeps, Zenon
<1>7. CASE UNCHANGED schedVars
  BY <1>7, StutterKeeps, Zenon
<1> QED
  BY <1>1, <1>2, <1>3, <1>4, <1>5, <1>6, <1>7, Zenon DEF Next

\* The invariant holds in every reachable state.
THEOREM SchedInvHolds == Spec => []SchedInv
BY InitSchedInv, NextKeeps, PTL DEF Spec

\* The variables of the kernel keep their types.
THEOREM TypeCorrect == Spec => []TypeOK
BY SchedInvHolds, PTL DEF SchedInv

\* deschedule and the exited table never see a process twice.
THEOREM EachReadyOnce == Spec => []ReadyOnce
BY SchedInvHolds, PTL DEF SchedInv

\* No wake-up is lost: a wait queue holds exactly its waiters, with their
\* current tokens.
THEOREM NoWaiterLost == Spec => []WaitersQueued
BY SchedInvHolds, PTL DEF SchedInv

\* A sleeper has an entry the awaker accepts, and an entry the awaker accepts
\* belongs to a blocked process.
THEOREM NoSleeperLost == Spec => []SleepersQueued
BY SchedInvHolds, PTL DEF SchedInv

\* The awaker is not parked while somebody sleeps.
THEOREM AwakerAlwaysOnDuty == Spec => []AwakerOnDuty
BY SchedInvHolds, PTL DEF SchedInv

(***************************************************************************)
(* Wake-ups are honest.                                                    *)
(***************************************************************************)
\* A wakeall wakes only processes that wait on its queue.
LEMMA SignalHonest ==
    ASSUME SchedInv, NEW q \in WaitQueues, NEW t \in Task, t \in Woken(q),
           wakeReason'[t] = BySignal(q)
    PROVE  HonestStep(t)
BY WokenAreWaiters, Zenon DEF HonestStep, Waiters

LEMMA StepsHonest ==
    ASSUME SchedInv, Next, NEW t \in Task PROVE HonestStep(t)
<1> USE SchedulingAssumption
<1>1. ASSUME NEW u \in Task, Schedule(u) PROVE HonestStep(t)
  BY <1>1, SMTT(30) DEF HonestStep, Schedule
<1>2. ASSUME NEW p \in Task, Yield(p) PROVE HonestStep(t)
  BY <1>2, Zenon DEF HonestStep, Yield
<1>3. ASSUME NEW p \in Task, NEW q \in WaitQueues, Wait(p, q) PROVE HonestStep(t)
  BY <1>3, Zenon DEF HonestStep, Wait, Resched
<1>4. ASSUME NEW p \in Process, NEW d \in Sleeps, Sleep(p, d) PROVE HonestStep(t)
  <2>1. CASE t \in Woken(AwakerQueue)
    BY <1>4, <2>1, SignalHonest, Zenon DEF Sleep, Resched
  <2>2. CASE t \notin Woken(AwakerQueue)
    BY <1>4, <2>2, Zenon DEF HonestStep, Sleep, Resched
  <2> QED
    BY <2>1, <2>2, Zenon
<1>5. ASSUME NEW p \in Process, NEW q \in ObjectQueues, NEW d \in Timeouts, TimedWait(p, q, d)
      PROVE  HonestStep(t)
  <2>1. CASE t \in Woken(AwakerQueue)
    BY <1>5, <2>1, SignalHonest, Zenon DEF TimedWait, Resched
  <2>2. CASE t \notin Woken(AwakerQueue)
    BY <1>5, <2>2, Zenon DEF HonestStep, TimedWait, Resched
  <2> QED
    BY <2>1, <2>2, Zenon
<1>6. ASSUME NEW q \in WaitQueues, WakeAll(q) PROVE HonestStep(t)
  <2>1. CASE t \in Woken(q)
    BY <1>6, <2>1, SignalHonest, Zenon DEF WakeAll, Awaken, Resched
  <2>2. CASE t \notin Woken(q)
    BY <1>6, <2>2, Zenon DEF HonestStep, WakeAll, Awaken, Resched
  <2> QED
    BY <2>1, <2>2, Zenon
<1>7. ASSUME NEW e \in sleepQueue, AwakerWake(e) PROVE HonestStep(t)
  <2>1. CASE t \in Asleep(e.process)
    <3>1. t = e.process /\ wakeReason'[t] = ByTimeout /\ sleeptill[t] <= now
      BY <1>7, <2>1, SMTT(30) DEF AwakerWake, Asleep, Awaken, Resched, Due
    <3>2. e = SleepEntryOf(t, sleeptill[t])
      BY <1>7, <3>1, Zenon
         DEF AwakerWake, SchedInv, SleepersQueued, Stale, SleepEntryOf, TypeOK, SleepEntry
    <3> QED
      BY <3>1, <3>2, Zenon DEF HonestStep
  <2>2. CASE t \notin Asleep(e.process)
    BY <1>7, <2>2, SMTT(30) DEF HonestStep, AwakerWake, Awaken, Resched
  <2> QED
    BY <2>1, <2>2, SMTT(30)
<1>8. ASSUME state' = state PROVE HonestStep(t)
  BY <1>8, SMTT(30) DEF HonestStep
<1>9. CASE AwakerStep
  BY <1>2, <1>3, <1>7, <1>8, <1>9, Zenon
     DEF AwakerStep, AwakerBury, AwakerIgnore, AwakerPoll, AwakerPark, Task, schedVars
<1>10. CASE \E p \in Process : ProcessStep(p)
  BY <1>2, <1>3, <1>4, <1>5, <1>6, <1>10, Zenon DEF ProcessStep, Signal, Task
<1> QED
  BY <1>1, <1>2, <1>6, <1>8, <1>9, <1>10, SMTT(30) DEF Next, Task, IrqWake, Tick

\* A blocked process wakes up only because its queue was signalled or because
\* the time it asked for has come, and it is told which.
THEOREM WakesAreHonest == Spec => HonestWake
<1>1. SchedInv /\ [Next]_schedVars => [\A t \in Task : HonestStep(t)]_schedVars
  BY StepsHonest, Zenon
<1> QED
  BY <1>1, SchedInvHolds, PTL DEF Spec, HonestWake

(***************************************************************************)
(* Mutexes, semaphores and events.                                         *)
(***************************************************************************)
SynchTypes ==
    /\ owner \in [Mutexes -> Process \cup {None}]
    /\ mValue \in [Semaphores -> Nat]
    /\ mMaxValue \in [Semaphores -> Nat]
    /\ mRaised \in [Events -> BOOLEAN]
    /\ call \in [Process -> Call \cup {None}]
    /\ told \in [Process -> SUBSET Mutexes]
    /\ signals \in [ObjectQueues -> Nat]
    /\ grants \in [Semaphores -> Nat]

\* How p stands in its wait: blocked, on the object of its wait; or woken, by a
\* signal of that object or because its time is up.
InWait(p) ==
    \/ /\ state[p] = "WAITING"
       /\ call[p] # None /\ wakeReason[p].waitable = call[p].object
    \/ /\ state[p] = "AVAILABLE"
       /\ call[p] # None =>
             \/ wakeReason[p] = BySignal(call[p].object)
             \/ wakeReason[p] = ByTimeout /\ sleeptill[p] <= now

WaitsHonest == \A p \in Process : InWait(p)

SynchInv ==
    /\ SchedInv
    /\ SynchTypes
    /\ WaitsHonest
    /\ GrantedIsOwned
    /\ NoMissedSignal
    /\ PermitsConserved

(***************************************************************************)
(* What the steps of Scheduling do to the processes that wait.             *)
(***************************************************************************)
Undisturbed(t) ==
    state'[t] = state[t] /\ wakeReason'[t] = wakeReason[t] /\ sleeptill'[t] = sleeptill[t]

\* t's time is up.
TimedOut(t) ==
    /\ state'[t] = "AVAILABLE" /\ wakeReason'[t] = ByTimeout
    /\ sleeptill'[t] = sleeptill[t] /\ sleeptill[t] <= now

\* An object of this module is not the queue the awaker parks on.
LEMMA ObjectsApart ==
    /\ ObjectQueues \subseteq WaitQueues /\ AwakerQueue \notin ObjectQueues
    /\ Mutexes \subseteq ObjectQueues /\ Semaphores \subseteq ObjectQueues
    /\ Events \subseteq ObjectQueues
    /\ Process \subseteq Task /\ None \notin Process
    /\ Awaker \in Task /\ Awaker \notin Process
    /\ Dummy \in Task /\ Dummy # Awaker
    /\ Mutexes \cap Semaphores = {} /\ Mutexes \cap Events = {} /\ Semaphores \cap Events = {}
BY SchedulingAssumption, SynchAssumption, Zenon DEF Task

\* Nothing happens in the scheduler.
LEMMA StillFrame ==
    ASSUME UNCHANGED schedVars
    PROVE  /\ \A t \in Task : Undisturbed(t)
           /\ now' = now
           /\ \A o \in ObjectQueues : Waiters(o)' = Waiters(o)
BY Zenon DEF schedVars, Undisturbed, Waiters

\* A signal wakes exactly those who wait for it.
LEMMA WakeAllFrame ==
    ASSUME SchedInv, NEW q \in WaitQueues, WakeAll(q)
    PROVE  /\ \A t \in Waiters(q) : /\ state'[t] = "AVAILABLE" /\ wakeReason'[t] = BySignal(q)
                                    /\ sleeptill'[t] = sleeptill[t]
           /\ \A t \in Task \ Waiters(q) : Undisturbed(t)
           /\ now' = now
           /\ \A o \in WaitQueues : Waiters(o)' = IF o = q THEN {} ELSE Waiters(o)
<1> DEFINE W == Woken(q)
<1>1. W \in SUBSET Task /\ W = Waiters(q)
  BY WokenAreWaiters, Zenon DEF Woken
<1>2. sleeptill' = sleeptill /\ now' = now
  BY Zenon DEF WakeAll
<1>3. \A t \in W : state[t] = "WAITING" /\ wakeReason[t].waitable = q
  BY <1>1, Zenon DEF Waiters
<1>4. \A t \in Task : state[t] = "WAITING" /\ wakeReason[t].waitable = q => t \in W
  BY <1>1, Zenon DEF Waiters
<1>5. \A t \in Task : /\ state'[t] = IF t \in W THEN "AVAILABLE" ELSE state[t]
                      /\ wakeReason'[t] = IF t \in W THEN BySignal(q) ELSE wakeReason[t]
  BY SchedulingAssumption, Zenon DEF WakeAll, Awaken, Resched
<1> HIDE DEF W
<1>6. \A t \in W : /\ state'[t] = "AVAILABLE" /\ wakeReason'[t] = BySignal(q)
                   /\ sleeptill'[t] = sleeptill[t]
  BY <1>1, <1>2, <1>5, Zenon
<1>7. \A t \in Task \ W : Undisturbed(t)
  BY <1>1, <1>2, <1>5, Zenon DEF Undisturbed
<1>8. \A o \in WaitQueues : Waiters(o)' = IF o = q THEN {} ELSE Waiters(o)
  BY <1>3, <1>4, <1>6, <1>7 DEF Waiters, Undisturbed
<1> QED
  BY <1>1, <1>2, <1>6, <1>7, <1>8, Zenon

\* A process that blocks disturbs no other process, though it may call the awaker.
LEMMA BlockFrame ==
    ASSUME SchedInv, NEW p \in Process, NEW q \in ObjectQueues, NEW d \in Nat,
           Wait(p, q) \/ TimedWait(p, q, d),
           \A t \in Process : t \notin Waiters(AwakerQueue)
    PROVE  /\ state'[p] = "WAITING" /\ wakeReason'[p].waitable = q
           /\ \A t \in Process \ {p} : Undisturbed(t)
           /\ now' = now
           /\ \A o \in ObjectQueues :
                 Waiters(o)' = IF o = q THEN Waiters(o) \cup {p} ELSE Waiters(o)
<1> USE ObjectsApart
<1>1. PICK W, r :
         /\ W \in SUBSET Task /\ W \subseteq Waiters(AwakerQueue)
         /\ Resched(p, "WAITING", q, W, r)
  <2>1. CASE Wait(p, q)
    BY <2>1, Zenon DEF Wait
  <2>2. CASE TimedWait(p, q, d)
    <3>1. Woken(AwakerQueue) = Waiters(AwakerQueue)
      BY WokenAreWaiters, SchedulingAssumption, Zenon
    <3> QED
      BY <2>2, <3>1, Zenon DEF TimedWait, Woken
  <2> QED
    BY <2>1, <2>2, Zenon
<1>2. /\ current = p /\ now' = now
      /\ \A t \in Task \ {p} : sleeptill'[t] = sleeptill[t]
  BY Zenon DEF Wait, TimedWait, Running, SchedInv, TypeOK
<1>3. state[p] = "AVAILABLE" /\ readyCount[p] > 0
  BY <1>2, RunnerQueuedOnce, Zenon
<1>4. /\ state' = [t \in Task |-> IF t \in W THEN "AVAILABLE"
                                  ELSE IF t = p THEN "WAITING" ELSE state[t]]
      /\ wakeReason' = [t \in Task |-> IF t \in W THEN r
                                       ELSE IF t = p THEN [wakeReason[t] EXCEPT !.waitable = q]
                                       ELSE wakeReason[t]]
  BY <1>1, <1>3, Zenon DEF Resched
<1>5. \A t \in Process : t \notin W
  BY <1>1, Zenon
<1>6. state'[p] = "WAITING" /\ wakeReason'[p].waitable = q
  BY <1>4, <1>5, Zenon DEF SchedInv, TypeOK
<1>7. \A t \in Task \ (W \cup {p}) : Undisturbed(t)
  BY <1>2, <1>4, Zenon DEF Undisturbed
<1>8. \A t \in W : /\ state'[t] = "AVAILABLE" /\ t \in Task
                   /\ wakeReason[t].waitable = AwakerQueue
  BY <1>1, <1>4, Zenon DEF Waiters
<1>9. \A o \in ObjectQueues :
         Waiters(o)' = IF o = q THEN Waiters(o) \cup {p} ELSE Waiters(o)
  BY <1>3, <1>6, <1>7, <1>8 DEF Waiters, Undisturbed
<1> QED
  BY <1>2, <1>5, <1>6, <1>7, <1>9, Zenon

\* The kernel's own steps leave a process alone or end its wait in time, and
\* make nobody wait for an object.
LEMMA KernelFrame ==
    ASSUME SchedInv, KernelStep
    PROVE  /\ \A t \in Process : Undisturbed(t) \/ TimedOut(t)
           /\ now' \in Nat /\ now <= now'
           /\ \A o \in ObjectQueues : Waiters(o)' \subseteq Waiters(o)
<1> USE ObjectsApart
<1>1. now \in Nat
  BY Zenon DEF SchedInv, TypeOK
<1>2. ASSUME state' = state, wakeReason' = wakeReason, sleeptill' = sleeptill
      PROVE  /\ \A t \in Process : Undisturbed(t)
             /\ \A o \in ObjectQueues : Waiters(o)' \subseteq Waiters(o)
  BY <1>2, Zenon DEF Undisturbed, Waiters
<1>3. ASSUME NEW t \in Task, Schedule(t) PROVE now' = now /\ state' = state
                /\ wakeReason' = wakeReason /\ sleeptill' = sleeptill
  BY <1>3, Zenon DEF Schedule
<1>4. ASSUME NEW t \in Task, Yield(t) PROVE now' = now /\ state' = state
                /\ wakeReason' = wakeReason /\ sleeptill' = sleeptill
  BY <1>4, Zenon DEF Yield
<1>5. CASE Tick
  BY <1>1, <1>2, <1>5 DEF Tick
<1>6. ASSUME NEW e \in sleepQueue, AwakerBury(e) \/ AwakerIgnore(e) \/ AwakerPoll(e)
      PROVE  now' = now /\ state' = state /\ wakeReason' = wakeReason /\ sleeptill' = sleeptill
  BY <1>6, Zenon DEF AwakerBury, AwakerIgnore, AwakerPoll, Yield, schedVars
<1>7. CASE AwakerPark
  <2>1. Wait(Awaker, AwakerQueue) /\ current = Awaker
    BY <1>7, Zenon DEF AwakerPark, Wait, Running
  <2>2. state[Awaker] = "AVAILABLE" /\ readyCount[Awaker] > 0
    BY <2>1, RunnerQueuedOnce, Zenon
  <2>3. /\ \A t \in Task \ {Awaker} : state'[t] = state[t] /\ wakeReason'[t] = wakeReason[t]
        /\ wakeReason'[Awaker].waitable = AwakerQueue
        /\ sleeptill' = sleeptill /\ now' = now
    BY <2>1, <2>2, Zenon DEF Wait, Resched, SchedInv, TypeOK
  <2> QED
    BY <1>1, <2>3 DEF Undisturbed, Waiters
<1>8. ASSUME NEW e \in sleepQueue, AwakerWake(e)
      PROVE  /\ \A t \in Process : Undisturbed(t) \/ TimedOut(t)
             /\ now' = now
             /\ \A o \in ObjectQueues : Waiters(o)' \subseteq Waiters(o)
  <2>1. \A t \in Asleep(e.process) :
            state'[t] = "AVAILABLE" /\ wakeReason'[t] = ByTimeout /\ sleeptill[t] <= now
    BY <1>8, Zenon DEF AwakerWake, Awaken, Resched, Asleep, Due, SchedInv, TypeOK, SleepEntry
  <2>2. \A t \in Task \ Asleep(e.process) : state'[t] = state[t] /\ wakeReason'[t] = wakeReason[t]
    BY <1>8, SchedulingAssumption, Zenon DEF AwakerWake, Awaken, Resched
  <2>3. sleeptill' = sleeptill /\ now' = now
    BY <1>8, Zenon DEF AwakerWake
  <2> QED
    BY <2>1, <2>2, <2>3, Zenon DEF Undisturbed, TimedOut, Waiters
<1>9. CASE AwakerStep
  BY <1>1, <1>2, <1>6, <1>7, <1>8, <1>9 DEF AwakerStep
<1> QED
  BY <1>1, <1>2, <1>3, <1>4, <1>5, <1>9 DEF KernelStep

(***************************************************************************)
(* The invariant is kept.                                                  *)
(***************************************************************************)
LEMMA InitSynchInv == SynchInit => SynchInv
<1> SUFFICES ASSUME SynchInit PROVE SynchInv
    BY Zenon
<1> USE SchedulingAssumption, SynchAssumption
<1>1. SchedInv
  BY InitSchedInv, Zenon DEF SynchInit
<1>2. SynchTypes
  BY Zenon DEF SynchInit, SynchTypes
<1>3. WaitsHonest /\ NoMissedSignal
  BY Zenon DEF SynchInit, Init, WaitsHonest, InWait, NoMissedSignal, Waiters, Task
<1>4. GrantedIsOwned /\ PermitsConserved
  BY DEF SynchInit, GrantedIsOwned, PermitsConserved
<1> QED
  BY <1>1, <1>2, <1>3, <1>4, Zenon DEF SynchInv

\* A clock that stays put does not go back.
LEMMA SameTime ==
    ASSUME NEW a \in Nat, NEW b, b = a
    PROVE  b \in Nat /\ a <= b
OBVIOUS

\* A process inside or outside a wait that nothing disturbs stands as before,
\* and so does one whose time is up.
LEMMA InWaitKept ==
    ASSUME SynchInv, NEW p \in Process, Undisturbed(p) \/ TimedOut(p),
           call'[p] = call[p], now' \in Nat, now <= now'
    PROVE  InWait(p)'
<1>1. now \in Nat /\ sleeptill[p] \in Nat /\ InWait(p)
  BY ObjectsApart, Zenon DEF SynchInv, SchedInv, TypeOK, WaitsHonest
<1>2. BySignal(call[p].object)' = BySignal(call[p].object) /\ ByTimeout' = ByTimeout
  BY Zenon DEF BySignal, ByTimeout
<1>3. sleeptill[p] <= now => sleeptill[p] <= now'
  BY <1>1
<1> QED
  BY <1>1, <1>2, <1>3, Zenon DEF InWait, Undisturbed, TimedOut

\* Programs wait on objects only.
LEMMA AwakerQueueFree ==
    ASSUME SynchInv PROVE \A t \in Process : t \notin Waiters(AwakerQueue)
BY ObjectsApart, Zenon DEF SynchInv, WaitsHonest, InWait, Waiters, SynchTypes, Call

\* A signal of o.
LEMMA WakeAllKeepsWaits ==
    ASSUME SynchInv, NEW o \in ObjectQueues, WakeAll(o), call' = call
    PROVE  WaitsHonest'
<1> USE ObjectsApart
<1> SUFFICES ASSUME NEW p \in Process PROVE InWait(p)'
    BY Zenon DEF WaitsHonest
<1>1. SchedInv /\ o \in WaitQueues /\ now \in Nat
  BY Zenon DEF SynchInv, SchedInv, TypeOK
<1>2. CASE p \in Waiters(o)
  <2>1. state'[p] = "AVAILABLE" /\ wakeReason'[p] = BySignal(o)
    BY <1>1, <1>2, WakeAllFrame, Zenon
  <2>2. state[p] = "WAITING" /\ wakeReason[p].waitable = o
    BY <1>2, Zenon DEF Waiters
  <2>3. call[p].object = o
    BY <2>2, Zenon DEF SynchInv, WaitsHonest, InWait
  <2> QED
    BY <2>1, <2>3, Zenon DEF InWait
<1>3. CASE p \notin Waiters(o)
  BY <1>1, <1>3, WakeAllFrame, InWaitKept
<1> QED
  BY <1>2, <1>3, Zenon

\* Nobody waits for what is there as long as what comes to be there finds nobody
\* waiting, and nobody begins to wait for what is there.
LEMMA NoMissedSignalKept ==
    ASSUME SynchInv,
           \A o \in ObjectQueues : Available(o)' =>
               Waiters(o)' = {} \/ (Available(o) /\ Waiters(o)' \subseteq Waiters(o))
    PROVE  NoMissedSignal'
BY Zenon DEF SynchInv, NoMissedSignal

\* The wait c of p comes back and no object changes: it failed, or it was for an
\* event.
LEMMA ReturnKeeps ==
    ASSUME SynchInv, NEW p \in Process, Running(p), NEW c \in Call, NEW ok \in BOOLEAN,
           ok => c.object \in Events, Return(p, c, ok), UNCHANGED objectVars
    PROVE  SynchInv'
<1> USE ObjectsApart
<1>1. UNCHANGED schedVars /\ signals' = signals /\ call' = [call EXCEPT ![p] = None]
  BY Zenon DEF Return
<1>2. state[p] = "AVAILABLE" /\ now \in Nat
  BY RunnerQueuedOnce, Zenon DEF SynchInv, SchedInv, TypeOK, Running
<1>3. grants' = grants /\ told' = told
  <2>1. \A s \in Semaphores : ~(ok /\ s = c.object)
    BY Zenon
  <2>2. ok => {c.object} \cap Mutexes = {}
    BY Zenon
  <2>3. told \in [Process -> SUBSET Mutexes] /\ grants \in [Semaphores -> Nat]
    BY Zenon DEF SynchInv, SynchTypes
  <2> QED
    BY <2>1, <2>2, <2>3, Zenon DEF Return
<1>4. SchedInv'
  BY <1>1, StutterKeeps, Zenon DEF SynchInv
<1>5. SynchTypes'
  BY <1>1, <1>3, Zenon DEF SynchInv, SynchTypes, objectVars
<1>6. WaitsHonest'
  <2> SUFFICES ASSUME NEW q \in Process PROVE InWait(q)'
      BY Zenon DEF WaitsHonest
  <2>1. CASE q = p
    BY <1>1, <1>2, <2>1, Zenon DEF InWait, SynchInv, SynchTypes, schedVars
  <2>2. CASE q # p
    BY <1>1, <1>2, <2>2, StillFrame, InWaitKept DEF SynchInv, SynchTypes
  <2> QED
    BY <2>1, <2>2, Zenon
<1>7. GrantedIsOwned' /\ PermitsConserved'
  BY <1>1, <1>3, Zenon DEF SynchInv, GrantedIsOwned, PermitsConserved, objectVars
<1>8. NoMissedSignal'
  BY <1>1, StillFrame, NoMissedSignalKept, Zenon DEF Available, objectVars
<1> QED
  BY <1>4, <1>5, <1>6, <1>7, <1>8, Zenon DEF SynchInv

\* The wait c of p finds its object there and takes it.
LEMMA TakeKeeps ==
    ASSUME SynchInv, NEW p \in Process, Running(p), NEW c \in Call,
           Available(c.object), Take(p, c.object), Return(p, c, TRUE),
           UNCHANGED <<mMaxValue, mRaised>>
    PROVE  SynchInv'
<1> USE ObjectsApart
<1> DEFINE o == c.object
<1>0. o \in ObjectQueues
  BY Zenon DEF Call
<1>1. /\ UNCHANGED schedVars /\ signals' = signals /\ call' = [call EXCEPT ![p] = None]
      /\ told' = [told EXCEPT ![p] = IF ~c.ioctl THEN @ \cup ({o} \cap Mutexes) ELSE @]
      /\ grants' = [s \in Semaphores |-> IF s = o THEN grants[s] + 1 ELSE grants[s]]
  BY Zenon DEF Return
<1>2. /\ owner' = [m \in Mutexes |-> IF m = o THEN p ELSE owner[m]]
      /\ mValue' = [s \in Semaphores |-> IF s = o THEN mValue[s] - 1 ELSE mValue[s]]
  BY Zenon DEF Take
<1>3. /\ o \in Mutexes => owner[o] = None
      /\ o \in Semaphores => mValue[o] > 0
  BY Zenon DEF Available
<1>4. state[p] = "AVAILABLE" /\ now \in Nat
  BY RunnerQueuedOnce, Zenon DEF SynchInv, SchedInv, TypeOK, Running
<1> HIDE DEF o
<1>5. SchedInv'
  BY <1>1, StutterKeeps, Zenon DEF SynchInv
<1>6. SynchTypes'
  <2>1. owner' \in [Mutexes -> Process \cup {None}] /\ mValue' \in [Semaphores -> Nat]
    BY <1>2, <1>3 DEF SynchInv, SynchTypes
  <2>2. call' \in [Process -> Call \cup {None}]
    BY <1>1, Zenon DEF SynchInv, SynchTypes
  <2>3. told' \in [Process -> SUBSET Mutexes] /\ grants' \in [Semaphores -> Nat]
    BY <1>1 DEF SynchInv, SynchTypes
  <2> QED
    BY <1>1, <2>1, <2>2, <2>3, Zenon DEF SynchInv, SynchTypes
<1>7. WaitsHonest'
  <2> SUFFICES ASSUME NEW q \in Process PROVE InWait(q)'
      BY Zenon DEF WaitsHonest
  <2>1. CASE q = p
    BY <1>1, <1>4, <2>1, Zenon DEF InWait, SynchInv, SynchTypes, schedVars
  <2>2. CASE q # p
    <3>1. Undisturbed(q) /\ now' = now
      BY <1>1, StillFrame, Zenon DEF Task
    <3>2. call'[q] = call[q]
      BY <1>1, <2>2, Zenon DEF SynchInv, SynchTypes
    <3>3. now' \in Nat /\ now <= now'
      BY <1>4, <3>1
    <3> QED
      BY <3>1, <3>2, <3>3, InWaitKept, Zenon
  <2> QED
    BY <2>1, <2>2, Zenon
<1>8. GrantedIsOwned'
  <2> SUFFICES ASSUME NEW q \in Process, NEW m \in told'[q] PROVE owner'[m] = q
      BY Zenon DEF GrantedIsOwned
  <2>1. told \in [Process -> SUBSET Mutexes]
    BY Zenon DEF SynchInv, SynchTypes
  <2>2. m \in told[q] => owner[m] = q /\ m \in Mutexes /\ owner[m] # None
    BY <2>1, Zenon DEF SynchInv, GrantedIsOwned
  <2>3. m \in told[q] \/ (q = p /\ m = o /\ m \in Mutexes)
    BY <1>1, <2>1, Zenon
  <2> QED
    BY <1>2, <1>3, <2>2, <2>3, Zenon
<1>9. PermitsConserved'
  <2> SUFFICES ASSUME NEW s \in Semaphores
               PROVE  mValue'[s] + grants'[s] <= Initial + signals'[s]
      BY Zenon DEF PermitsConserved
  <2>1. mValue'[s] + grants'[s] = mValue[s] + grants[s]
    BY <1>1, <1>2 DEF SynchInv, SynchTypes
  <2> QED
    BY <1>1, <2>1, Zenon DEF SynchInv, PermitsConserved
<1>10. NoMissedSignal'
  <2>1. \A q \in ObjectQueues : Available(q)' => Available(q)
    BY <1>2 DEF Available, SynchInv, SynchTypes
  <2> QED
    BY <1>1, <2>1, StillFrame, NoMissedSignalKept, Zenon
<1> QED
  BY <1>5, <1>6, <1>7, <1>8, <1>9, <1>10, Zenon DEF SynchInv

\* The wait c of p blocks.
LEMMA EnqueueKeeps ==
    ASSUME SynchInv, NEW p \in Process, NEW c \in Call, ~Available(c.object), Enqueue(p, c)
    PROVE  SynchInv'
<1> USE ObjectsApart
<1> DEFINE o == c.object
           d == c.timeout
<1>0. o \in ObjectQueues /\ d \in Nat /\ p # Awaker /\ c # None
  <2>1. o \in ObjectQueues /\ d \in Timeouts \cup {0}
    BY Zenon DEF Call
  <2>2. (\A x \in Timeouts \cup {0} : x \in Nat) /\ c # None
    BY SchedulingAssumption, SynchAssumption
  <2>3. d \in Nat
    BY <2>1, <2>2, Zenon
  <2>4. p # Awaker
    BY Zenon
  <2> QED
    BY ONLY <2>1, <2>2, <2>3, <2>4, Zenon
<1>1. /\ Wait(p, o) \/ TimedWait(p, o, d)
      /\ call' = [call EXCEPT ![p] = c]
      /\ UNCHANGED <<objectVars, told, signals, grants>>
  BY Zenon DEF Enqueue
<1>2. SchedInv /\ now \in Nat
  BY Zenon DEF SynchInv, SchedInv, TypeOK
<1>3. ~Available(o)
  BY Zenon
<1> HIDE DEF o, d
<1>4. SchedInv'
  BY <1>0, <1>1, <1>2, WaitKeeps, TimedWaitKeeps, Zenon
<1>5. SynchTypes'
  BY <1>1, Zenon DEF SynchInv, SynchTypes, objectVars
<1>6. /\ state'[p] = "WAITING" /\ wakeReason'[p].waitable = o
      /\ \A t \in Process \ {p} : Undisturbed(t)
      /\ now' = now
      /\ \A q \in ObjectQueues :
            Waiters(q)' = IF q = o THEN Waiters(q) \cup {p} ELSE Waiters(q)
  BY <1>0, <1>1, <1>2, AwakerQueueFree, BlockFrame, Zenon
<1>7. WaitsHonest'
  <2> SUFFICES ASSUME NEW q \in Process PROVE InWait(q)'
      BY Zenon DEF WaitsHonest
  <2>1. CASE q = p
    BY <1>0, <1>1, <1>6, <2>1, Zenon DEF InWait, SynchInv, SynchTypes, o
  <2>2. CASE q # p
    <3>1. Undisturbed(q) /\ call'[q] = call[q]
      BY <1>1, <1>6, <2>2, Zenon DEF SynchInv, SynchTypes
    <3>2. now' \in Nat /\ now <= now'
      BY <1>2, <1>6, SameTime, Zenon
    <3> QED
      BY <3>1, <3>2, InWaitKept, Zenon
  <2> QED
    BY <2>1, <2>2, Zenon
<1>8. GrantedIsOwned' /\ PermitsConserved'
  BY <1>1, Zenon DEF SynchInv, GrantedIsOwned, PermitsConserved, objectVars
<1>9. NoMissedSignal'
  <2>1. \A q \in ObjectQueues : Available(q)' <=> Available(q)
    BY <1>1, Zenon DEF Available, objectVars
  <2> QED
    BY <1>3, <1>6, <2>1, NoMissedSignalKept, Zenon
<1> QED
  BY <1>4, <1>5, <1>7, <1>8, <1>9, Zenon DEF SynchInv

LEMMA AttemptKeeps ==
    ASSUME SynchInv, NEW p \in Process, Running(p), NEW c \in Call, NEW may \in BOOLEAN,
           Attempt(p, c, may)
    PROVE  SynchInv'
BY ReturnKeeps, TakeKeeps, EnqueueKeeps, Zenon DEF Attempt

LEMMA ResumeWaitKeeps ==
    ASSUME SynchInv, NEW p \in Process, ResumeWait(p) PROVE SynchInv'
<1>1. Running(p) /\ call[p] \in Call
  BY Zenon DEF ResumeWait, SynchInv, SynchTypes
<1>2. CASE /\ ~MyWake(p, call[p].object) \/ call[p].object \in Events
           /\ Return(p, call[p], MyWake(p, call[p].object))
           /\ UNCHANGED objectVars
  BY <1>1, <1>2, ReturnKeeps, Zenon DEF MyWake
<1>3. CASE Attempt(p, call[p], Patient(call[p]))
  <2>1. Patient(call[p]) \in BOOLEAN
    BY DEF Patient
  <2> QED
    BY <1>1, <1>3, <2>1, AttemptKeeps, Zenon
<1> QED
  BY <1>2, <1>3, Zenon DEF ResumeWait

LEMMA TryLockKeeps ==
    ASSUME SynchInv, NEW p \in Process, NEW m \in Mutexes, TryLock(p, m) PROVE SynchInv'
<1> USE ObjectsApart
<1>1. UNCHANGED <<schedVars, mValue, mMaxValue, mRaised, call, signals, grants>>
  BY Zenon DEF TryLock
<1>2. \/ /\ owner[m] = None /\ owner' = [owner EXCEPT ![m] = p]
         /\ told' = [told EXCEPT ![p] = @ \cup {m}]
      \/ UNCHANGED <<owner, told>>
  BY Zenon DEF TryLock
<1>3. SchedInv' /\ now \in Nat
  BY <1>1, StutterKeeps, Zenon DEF SynchInv, SchedInv, TypeOK
<1>4. SynchTypes'
  BY <1>1, <1>2 DEF SynchInv, SynchTypes
<1>5. WaitsHonest'
  BY <1>1, <1>3, StillFrame, InWaitKept DEF WaitsHonest
<1>6. GrantedIsOwned'
  BY <1>2 DEF SynchInv, SynchTypes, GrantedIsOwned
<1>7. PermitsConserved'
  BY <1>1, Zenon DEF SynchInv, PermitsConserved
<1>8. NoMissedSignal'
  <2>1. \A o \in ObjectQueues : Available(o)' => Available(o)
    BY <1>1, <1>2, Zenon DEF Available, SynchInv, SynchTypes
  <2> QED
    BY <1>1, <2>1, StillFrame, NoMissedSignalKept, Zenon
<1> QED
  BY <1>3, <1>4, <1>5, <1>6, <1>7, <1>8, Zenon DEF SynchInv

LEMMA UnlockKeeps ==
    ASSUME SynchInv, NEW p \in Process, NEW m \in Mutexes, Unlock(p, m) PROVE SynchInv'
<1> USE ObjectsApart
<1>1. /\ UNCHANGED <<mValue, mMaxValue, mRaised, call, grants>>
      /\ told' = [told EXCEPT ![p] = @ \ {m}]
  BY Zenon DEF Unlock
<1>2. \/ /\ owner[m] = p /\ owner' = [owner EXCEPT ![m] = None] /\ WakeAll(m)
         /\ signals' = [signals EXCEPT ![m] = @ + 1]
      \/ owner[m] # p /\ UNCHANGED <<owner, schedVars, signals>>
  BY Zenon DEF Unlock, Unlocker, Unlocked, Count
<1>3. SchedInv' /\ SchedInv /\ now \in Nat
  BY <1>2, StutterKeeps, WakeAllKeeps, Zenon DEF SynchInv, SchedInv, TypeOK
<1>4. SynchTypes'
  BY <1>1, <1>2 DEF SynchInv, SynchTypes
<1>5. WaitsHonest'
  <2>1. CASE WakeAll(m)
    BY <1>1, <2>1, WakeAllKeepsWaits, Zenon
  <2>2. CASE UNCHANGED schedVars
    BY <1>1, <1>3, <2>2, StillFrame, InWaitKept DEF WaitsHonest
  <2> QED
    BY <1>2, <2>1, <2>2, Zenon
<1>6. GrantedIsOwned'
  <2> SUFFICES ASSUME NEW q \in Process, NEW n \in told'[q] PROVE owner'[n] = q
      BY Zenon DEF GrantedIsOwned
  <2>1. n \in told[q] /\ (q = p => n # m)
    BY <1>1, Zenon DEF SynchInv, SynchTypes
  <2>2. owner[n] = q /\ n \in Mutexes
    BY <2>1, Zenon DEF SynchInv, SynchTypes, GrantedIsOwned
  <2> QED
    BY <1>2, <2>1, <2>2, Zenon DEF SynchInv, SynchTypes
<1>7. PermitsConserved'
  BY <1>1, <1>2 DEF SynchInv, SynchTypes, PermitsConserved
<1>8. NoMissedSignal'
  <2>1. \A o \in ObjectQueues \ {m} : Available(o)' => Available(o)
    BY <1>1, <1>2, Zenon DEF Available, SynchInv, SynchTypes
  <2>2. CASE WakeAll(m)
    BY <1>3, <2>1, <2>2, WakeAllFrame, NoMissedSignalKept, Zenon
  <2>3. CASE UNCHANGED <<owner, schedVars>>
    <3>1. \A o \in ObjectQueues : Available(o)' => Available(o)
      BY <1>1, <2>3, Zenon DEF Available
    <3> QED
      BY <2>3, <3>1, StillFrame, NoMissedSignalKept, Zenon
  <2> QED
    BY <1>2, <2>2, <2>3, Zenon
<1> QED
  BY <1>3, <1>4, <1>5, <1>6, <1>7, <1>8, Zenon DEF SynchInv

LEMMA SignalSemaphoreKeeps ==
    ASSUME SynchInv, NEW p \in Process, NEW s \in Semaphores, SignalSemaphore(p, s)
    PROVE  SynchInv'
<1> USE ObjectsApart
<1>1. /\ UNCHANGED <<owner, mMaxValue, mRaised, call, told, grants>>
      /\ WakeAll(s) /\ s \in WaitQueues
      /\ signals' = [signals EXCEPT ![s] = @ + 1]
      /\ mValue' = [mValue EXCEPT ![s] = Signalled(s)]
  BY Zenon DEF SignalSemaphore, Count
<1>2. Signalled(s) \in Nat /\ Signalled(s) <= mValue[s] + 1
  BY DEF Signalled, SynchInv, SynchTypes
<1>3. SchedInv' /\ SchedInv /\ now \in Nat
  BY <1>1, WakeAllKeeps, Zenon DEF SynchInv, SchedInv, TypeOK
<1>4. SynchTypes'
  BY <1>1, <1>2 DEF SynchInv, SynchTypes
<1>5. WaitsHonest'
  BY <1>1, WakeAllKeepsWaits, Zenon
<1>6. GrantedIsOwned'
  BY <1>1, Zenon DEF SynchInv, GrantedIsOwned
<1>7. PermitsConserved'
  <2> SUFFICES ASSUME NEW r \in Semaphores
               PROVE  mValue'[r] + grants'[r] <= Initial + signals'[r]
      BY Zenon DEF PermitsConserved
  <2>1. mValue[r] + grants[r] <= Initial + signals[r]
    BY Zenon DEF SynchInv, PermitsConserved
  <2>2. Initial \in Nat /\ mValue[r] \in Nat /\ grants[r] \in Nat /\ signals[r] \in Nat
    BY SynchAssumption, Zenon DEF SynchInv, SynchTypes
  <2>3. CASE r = s
    <3>1. mValue'[r] <= mValue[r] + 1 /\ mValue'[r] \in Nat /\ signals'[r] = signals[r] + 1
      BY <1>1, <1>2, <2>3, Zenon DEF SynchInv, SynchTypes
    <3> QED
      BY <1>1, <2>1, <2>2, <3>1
  <2>4. CASE r # s
    BY <1>1, <2>1, <2>4, Zenon DEF SynchInv, SynchTypes
  <2> QED
    BY <2>3, <2>4, Zenon
<1>8. NoMissedSignal'
  <2>1. \A o \in ObjectQueues \ {s} : Available(o)' => Available(o)
    BY <1>1, Zenon DEF Available, SynchInv, SynchTypes
  <2> QED
    BY <1>1, <1>3, <2>1, WakeAllFrame, NoMissedSignalKept, Zenon
<1> QED
  BY <1>3, <1>4, <1>5, <1>6, <1>7, <1>8, Zenon DEF SynchInv

LEMMA RaiseKeeps ==
    ASSUME SynchInv, NEW p \in Process, NEW e \in Events, NEW level \in BOOLEAN,
           Raise(p, e, level)
    PROVE  SynchInv'
<1> USE ObjectsApart
<1>1. /\ UNCHANGED <<owner, mValue, mMaxValue, call, told, grants>>
      /\ WakeAll(e) /\ e \in WaitQueues
      /\ signals' = [signals EXCEPT ![e] = @ + 1]
      /\ mRaised' = [mRaised EXCEPT ![e] = @ \/ level]
  BY Zenon DEF Raise, RaisedWakes, Count
<1>2. SchedInv' /\ SchedInv /\ now \in Nat
  BY <1>1, WakeAllKeeps, Zenon DEF SynchInv, SchedInv, TypeOK
<1>3. SynchTypes'
  BY <1>1 DEF SynchInv, SynchTypes
<1>4. WaitsHonest'
  BY <1>1, WakeAllKeepsWaits, Zenon
<1>5. GrantedIsOwned'
  BY <1>1, Zenon DEF SynchInv, GrantedIsOwned
<1>6. PermitsConserved'
  BY <1>1, Zenon DEF SynchInv, SynchTypes, PermitsConserved
<1>7. NoMissedSignal'
  <2>1. \A o \in ObjectQueues \ {e} : Available(o)' => Available(o)
    BY <1>1, Zenon DEF Available, SynchInv, SynchTypes
  <2> QED
    BY <1>1, <1>2, <2>1, WakeAllFrame, NoMissedSignalKept, Zenon
<1> QED
  BY <1>2, <1>3, <1>4, <1>5, <1>6, <1>7, Zenon DEF SynchInv

\* Steps that touch neither the waits nor the permits and make nothing available.
LEMMA QuietKeeps ==
    ASSUME SynchInv, UNCHANGED <<schedVars, owner, mValue, callVars>>, SynchTypes',
           \A e \in Events : mRaised'[e] => mRaised[e]
    PROVE  SynchInv'
<1> USE ObjectsApart
<1>1. SchedInv' /\ now \in Nat
  BY StutterKeeps, Zenon DEF SynchInv, SchedInv, TypeOK
<1>2. WaitsHonest'
  <2> SUFFICES ASSUME NEW q \in Process PROVE InWait(q)'
      BY Zenon DEF WaitsHonest
  <2>1. Undisturbed(q) /\ call'[q] = call[q] /\ now' = now
    BY StillFrame, Zenon DEF callVars
  <2>2. now' \in Nat /\ now <= now'
    BY <1>1, <2>1, SameTime, Zenon
  <2> QED
    BY <2>1, <2>2, InWaitKept, Zenon
<1>3. GrantedIsOwned' /\ PermitsConserved'
  BY Zenon DEF SynchInv, GrantedIsOwned, PermitsConserved, callVars
<1>4. NoMissedSignal'
  <2>1. \A o \in ObjectQueues : Available(o)' => Available(o)
    BY Zenon DEF Available
  <2> QED
    BY <2>1, StillFrame, NoMissedSignalKept, Zenon
<1> QED
  BY <1>1, <1>2, <1>3, <1>4, Zenon DEF SynchInv

LEMMA KernelStepKeeps ==
    ASSUME SynchInv, KernelStep, UNCHANGED <<objectVars, callVars>> PROVE SynchInv'
<1> USE ObjectsApart
<1>1. SchedInv'
  BY ScheduleKeeps, YieldKeeps, AwakerStepKeeps, TickKeeps, Zenon DEF KernelStep, SynchInv
<1>2. /\ \A t \in Process : Undisturbed(t) \/ TimedOut(t)
      /\ now' \in Nat /\ now <= now'
      /\ \A o \in ObjectQueues : Waiters(o)' \subseteq Waiters(o)
  BY KernelFrame, Zenon DEF SynchInv
<1>3. SynchTypes'
  BY Zenon DEF SynchInv, SynchTypes, objectVars, callVars
<1>4. WaitsHonest'
  BY <1>2, InWaitKept, Zenon DEF WaitsHonest, callVars
<1>5. GrantedIsOwned' /\ PermitsConserved'
  BY Zenon DEF SynchInv, GrantedIsOwned, PermitsConserved, objectVars, callVars
<1>6. NoMissedSignal'
  <2>1. \A o \in ObjectQueues : Available(o)' => Available(o)
    BY Zenon DEF Available, objectVars
  <2> QED
    BY <1>2, <2>1, NoMissedSignalKept, Zenon
<1> QED
  BY <1>1, <1>3, <1>4, <1>5, <1>6, Zenon DEF SynchInv

\* A process is preempted between two calls.
LEMMA PreemptedKeeps ==
    ASSUME SynchInv, NEW p \in Process, Yield(p), UNCHANGED <<objectVars, callVars>>
    PROVE  SynchInv'
<1> USE ObjectsApart
<1>1. SchedInv' /\ now \in Nat
  BY YieldKeeps, Zenon DEF SynchInv, SchedInv, TypeOK
<1>2. /\ \A t \in Process : Undisturbed(t)
      /\ now' = now
      /\ \A o \in ObjectQueues : Waiters(o)' = Waiters(o)
  BY Zenon DEF Yield, Undisturbed, Waiters
<1>3. SynchTypes'
  BY Zenon DEF SynchInv, SynchTypes, objectVars, callVars
<1>4. WaitsHonest'
  BY <1>1, <1>2, InWaitKept DEF WaitsHonest, callVars
<1>5. GrantedIsOwned' /\ PermitsConserved'
  BY Zenon DEF SynchInv, GrantedIsOwned, PermitsConserved, objectVars, callVars
<1>6. NoMissedSignal'
  <2>1. \A o \in ObjectQueues : Available(o)' => Available(o)
    BY Zenon DEF Available, objectVars
  <2> QED
    BY <1>2, <2>1, NoMissedSignalKept, Zenon
<1> QED
  BY <1>1, <1>3, <1>4, <1>5, <1>6, Zenon DEF SynchInv

LEMMA ProgramStepKeeps ==
    ASSUME SynchInv, NEW p \in Process, ProgramStep(p) PROVE SynchInv'
<1>1. CASE InUserCode(p) /\ Yield(p) /\ UNCHANGED <<objectVars, callVars>>
  BY <1>1, PreemptedKeeps, Zenon
<1>2. ASSUME NEW c \in Call, BeginWait(p, c) PROVE SynchInv'
  BY <1>2, AttemptKeeps, Zenon DEF BeginWait, InUserCode
<1>3. CASE ResumeWait(p)
  BY <1>3, ResumeWaitKeeps, Zenon
<1>4. ASSUME NEW m \in Mutexes, TryLock(p, m) \/ Unlock(p, m) PROVE SynchInv'
  BY <1>4, TryLockKeeps, UnlockKeeps, Zenon
<1>5. ASSUME NEW s \in Semaphores, SignalSemaphore(p, s) PROVE SynchInv'
  BY <1>5, SignalSemaphoreKeeps, Zenon
<1>6. ASSUME NEW s \in Semaphores, NEW n \in Limits, SetMax(p, s, n) PROVE SynchInv'
  <2>1. /\ UNCHANGED <<schedVars, owner, mValue, mRaised, callVars>>
        /\ mMaxValue' = [mMaxValue EXCEPT ![s] = n]
    BY <1>6, Zenon DEF SetMax
  <2>2. n \in Nat
    BY SynchAssumption, Zenon
  <2>3. SynchTypes'
    BY <2>1, <2>2, Zenon DEF SynchInv, SynchTypes, callVars
  <2> QED
    BY <2>1, <2>3, QuietKeeps, Zenon
<1>7. ASSUME NEW e \in Events, Lower(p, e) PROVE SynchInv'
  <2>1. /\ UNCHANGED <<schedVars, owner, mValue, mMaxValue, callVars>>
        /\ mRaised' = [mRaised EXCEPT ![e] = FALSE]
    BY <1>7, Zenon DEF Lower
  <2>2. SynchTypes' /\ \A f \in Events : mRaised'[f] => mRaised[f]
    BY <2>1, Zenon DEF SynchInv, SynchTypes, callVars
  <2> QED
    BY <2>1, <2>2, QuietKeeps, Zenon
<1>8. ASSUME NEW e \in Events, NEW level \in BOOLEAN, Raise(p, e, level) PROVE SynchInv'
  BY <1>8, RaiseKeeps, Zenon
<1> QED
  BY <1>1, <1>2, <1>3, <1>4, <1>5, <1>6, <1>7, <1>8, Zenon DEF ProgramStep

LEMMA SynchNextKeeps == SynchInv /\ [SynchNext]_synchVars => SynchInv'
<1> SUFFICES ASSUME SynchInv, [SynchNext]_synchVars PROVE SynchInv'
    BY Zenon
<1>1. ASSUME NEW p \in Process, ProgramStep(p) PROVE SynchInv'
  BY <1>1, ProgramStepKeeps, Zenon
<1>2. CASE KernelStep /\ UNCHANGED <<objectVars, callVars>>
  BY <1>2, KernelStepKeeps, Zenon
<1>3. CASE UNCHANGED synchVars
  <2>1. UNCHANGED <<schedVars, owner, mValue, mMaxValue, mRaised, callVars>>
    BY <1>3, Zenon DEF synchVars, objectVars
  <2>2. SynchTypes'
    BY <2>1, Zenon DEF SynchInv, SynchTypes, callVars
  <2> QED
    BY <2>1, <2>2, QuietKeeps, Zenon
<1> QED
  BY <1>1, <1>2, <1>3, Zenon DEF SynchNext

\* The invariant holds in every reachable state: in particular the queues and
\* the sleep queue stay right under all that mutexes, semaphores and events do.
THEOREM SynchInvHolds == SynchSpec => []SynchInv
BY InitSynchInv, SynchNextKeeps, PTL DEF SynchSpec

\* A mutex belongs to the one process that wait1 or trylock said has it.
THEOREM MutexesExclude == SynchSpec => []GrantedIsOwned
BY SynchInvHolds, PTL DEF SynchInv

\* No process is blocked on what is there.
THEOREM NoSignalMissed == SynchSpec => []NoMissedSignal
BY SynchInvHolds, PTL DEF SynchInv

\* Semaphores make no permits up.
THEOREM NoPermitMadeUp == SynchSpec => []PermitsConserved
BY SynchInvHolds, PTL DEF SynchInv

(***************************************************************************)
(* Timed waits.                                                            *)
(***************************************************************************)
\* Only the wait of a process itself ends the wait.
LEMMA OwnReturn ==
    ASSUME SynchInv, SynchNext, NEW p \in Process, Returns(p) PROVE ResumeWait(p)
<1> SUFFICES ASSUME ~ResumeWait(p) PROVE FALSE
    BY Zenon
<1>1. call[p] # None /\ call'[p] # call[p] /\ call \in [Process -> Call \cup {None}]
  BY Zenon DEF Returns, SynchInv, SynchTypes
<1>2. PICK q \in Process : ProgramStep(q)
  BY <1>1, Zenon DEF SynchNext, callVars
<1>3. ASSUME NEW c \in Call, NEW may \in BOOLEAN, Attempt(q, c, may), q # p PROVE FALSE
  BY <1>1, <1>3, Zenon DEF Attempt, Return, Enqueue
<1>4. CASE q = p
  <2>1. ~InUserCode(p)
    BY <1>1, Zenon DEF InUserCode
  <2> QED
    BY <1>2, <1>4, <2>1, Zenon
       DEF ProgramStep, BeginWait, TryLock, Unlock, SignalSemaphore, SetMax, Lower, Raise
<1>5. CASE q # p
  <2>1. ASSUME NEW c \in Call, BeginWait(q, c) PROVE FALSE
    BY <1>3, <1>5, <2>1, Zenon DEF BeginWait
  <2>2. ~ResumeWait(q)
    <3> SUFFICES ASSUME ResumeWait(q) PROVE FALSE
        BY Zenon
    <3>1. call[q] \in Call
      BY <1>1, Zenon DEF ResumeWait
    <3>2. ASSUME NEW ok, Return(q, call[q], ok) PROVE FALSE
      BY <1>1, <1>5, <3>2, Zenon DEF Return
    <3>3. ~Attempt(q, call[q], Patient(call[q]))
      <4>1. Patient(call[q]) \in BOOLEAN
        BY DEF Patient
      <4> QED
        BY <1>3, <1>5, <3>1, <4>1, Zenon
    <3> QED
      BY <3>2, <3>3, Zenon DEF ResumeWait
  <2> QED
    BY <1>1, <1>2, <2>1, <2>2, Zenon
       DEF ProgramStep, TryLock, Unlock, SignalSemaphore, SetMax, Lower, Raise, callVars
<1> QED
  BY <1>4, <1>5, Zenon

LEMMA GivesUpStep ==
    ASSUME SynchInv, SynchNext, NEW p \in Process, Returns(p), call[p].timeout > 0,
           UNCHANGED objectVars,
           call[p].object \in Events => ~MyWake(p, call[p].object)
    PROVE  sleeptill[p] <= now
<1> USE ObjectsApart
<1> DEFINE o == call[p].object
<1>1. ResumeWait(p) /\ Running(p) /\ call[p] # None /\ call[p] \in Call
  BY OwnReturn, Zenon DEF ResumeWait, Returns, SynchInv, SynchTypes
<1>2. state[p] = "AVAILABLE"
  BY <1>1, RunnerQueuedOnce, Zenon DEF SynchInv, Running
<1>3. MyWake(p, o) \/ sleeptill[p] <= now
  <2>1. InWait(p)
    BY Zenon DEF SynchInv, WaitsHonest
  <2>2. state[p] # "WAITING"
    BY <1>2, Zenon
  <2>3. wakeReason[p] = BySignal(o) \/ sleeptill[p] <= now
    BY <1>1, <2>1, <2>2, Zenon DEF InWait
  <2>4. wakeReason[p] = BySignal(o) => MyWake(p, o)
    BY DEF MyWake, BySignal
  <2> QED
    BY <2>3, <2>4, Zenon
<1>4. ~MyWake(p, o)
  <2> SUFFICES ASSUME MyWake(p, o) PROVE FALSE
      BY Zenon
  <2>1. o \notin Events /\ Attempt(p, call[p], Patient(call[p])) /\ Patient(call[p])
    BY <1>1, Zenon DEF ResumeWait, Patient
  <2>2. ~(Available(o) /\ Take(p, o))
    BY <1>1, <2>1 DEF Available, Take, objectVars, SynchInv, SynchTypes
  <2>3. ~Enqueue(p, call[p])
    BY <1>1, Zenon DEF Enqueue, Returns, SynchInv, SynchTypes
  <2> QED
    BY <2>1, <2>2, <2>3, Zenon DEF Attempt
<1> QED
  BY <1>3, <1>4, Zenon

\* A wait with a timeout that comes back with nothing has waited its time.
THEOREM NoWaitGivesUpEarly == SynchSpec => GivesUpInTime
<1>1. SynchInv /\ [SynchNext]_synchVars =>
         [\A p \in Process :
             /\ Returns(p) /\ call[p].timeout > 0
             /\ UNCHANGED objectVars
             /\ call[p].object \in Events => ~MyWake(p, call[p].object)
             => sleeptill[p] <= now]_synchVars
  <2> SUFFICES ASSUME SynchInv, SynchNext, NEW p \in Process,
                      Returns(p), call[p].timeout > 0, UNCHANGED objectVars,
                      call[p].object \in Events => ~MyWake(p, call[p].object)
               PROVE  sleeptill[p] <= now
      BY ZenonT(30)
  <2> QED
    BY GivesUpStep, ZenonT(30)
<1> QED
  BY <1>1, SynchInvHolds, PTL DEF SynchSpec, GivesUpInTime
===============================================================================
