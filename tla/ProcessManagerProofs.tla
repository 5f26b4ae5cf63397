------------------------- MODULE ProcessManagerProofs -------------------------
(***************************************************************************)
(* The family tree, the exited table and the slots of processes stay       *)
(* consistent, and ProcessManager implements ProcessLife, for any number   *)
(* of process slots and any bounds.                                        *)
(***************************************************************************)
EXTENDS ProcessManager, WellFoundedInduction, TLAPS

(***************************************************************************)
(* Lists of children.                                                      *)
(***************************************************************************)
\* A child that is not listed is added.
LEMMA AppendChild ==
    ASSUME NEW s \in Seq(Process), NEW c \in Process, c \notin Members(s)
    PROVE  /\ Append(s, c) \in Seq(Process)
           /\ Members(Append(s, c)) = Members(s) \cup {c}
           /\ ListedOnce(c, Append(s, c))
           /\ \A x \in Members(s) : ListedOnce(x, s) => ListedOnce(x, Append(s, c))
<1> DEFINE a == Append(s, c)
<1>1. /\ a \in Seq(Process) /\ Len(s) \in Nat
      /\ DOMAIN s = 1..Len(s) /\ DOMAIN a = 1..(Len(s) + 1)
      /\ \A i \in 1..Len(s) : a[i] = s[i]
      /\ a[Len(s) + 1] = c
  OBVIOUS
<1>2. \A i \in 1..Len(s) : s[i] # c
  BY <1>1, Zenon DEF Members
<1> HIDE DEF a
<1>3. Members(a) = Members(s) \cup {c}
  BY <1>1 DEF Members
<1>4. ListedOnce(c, a)
  <2>1. \A j \in DOMAIN a : a[j] = c <=> j = Len(s) + 1
    BY <1>1, <1>2
  <2>2. Len(s) + 1 \in DOMAIN a
    BY <1>1
  <2> QED
    BY <2>1, <2>2, Zenon DEF ListedOnce
<1>5. ASSUME NEW x \in Members(s), ListedOnce(x, s) PROVE ListedOnce(x, a)
  <2>1. PICK i \in DOMAIN s : \A j \in DOMAIN s : s[j] = x <=> j = i
    BY <1>5, Zenon DEF ListedOnce
  <2>2. x # c
    BY <1>1, <1>2, Zenon DEF Members
  <2>3. i \in DOMAIN a /\ \A j \in DOMAIN a : a[j] = x <=> j = i
    BY <1>1, <2>1, <2>2
  <2> QED
    BY <2>3, Zenon DEF ListedOnce
<1> QED
  BY <1>1, <1>3, <1>4, <1>5, Zenon DEF a

\* Two lists with nobody in common are put together.
LEMMA JoinChildren ==
    ASSUME NEW s \in Seq(Process), NEW t \in Seq(Process), Members(s) \cap Members(t) = {}
    PROVE  /\ s \o t \in Seq(Process)
           /\ Members(s \o t) = Members(s) \cup Members(t)
           /\ \A x \in Members(s) : ListedOnce(x, s) => ListedOnce(x, s \o t)
           /\ \A x \in Members(t) : ListedOnce(x, t) => ListedOnce(x, s \o t)
           /\ s = <<>> /\ t = <<>> => s \o t = <<>>
<1> DEFINE a == s \o t
<1>1. /\ a \in Seq(Process) /\ Len(s) \in Nat /\ Len(t) \in Nat
      /\ DOMAIN s = 1..Len(s) /\ DOMAIN t = 1..Len(t) /\ DOMAIN a = 1..(Len(s) + Len(t))
      /\ \A i \in 1..Len(s) : a[i] = s[i]
      /\ \A i \in 1..Len(t) : a[Len(s) + i] = t[i]
      /\ Len(a) = Len(s) + Len(t)
  OBVIOUS
<1>2. s = <<>> /\ t = <<>> => a = <<>>
  BY <1>1
<1> HIDE DEF a
<1>3. \A i \in DOMAIN a : i \in DOMAIN s \/ (i - Len(s) \in DOMAIN t /\ a[i] = t[i - Len(s)])
  BY <1>1
<1>4. Members(a) = Members(s) \cup Members(t)
  <2>1. \A x \in Members(a) : x \in Members(s) \/ x \in Members(t)
    BY <1>1, <1>3 DEF Members
  <2>2. \A x \in Members(s) : x \in Members(a)
    BY <1>1 DEF Members
  <2>3. \A x \in Members(t) : x \in Members(a)
    <3>1. \A i \in DOMAIN t : Len(s) + i \in DOMAIN a
      BY <1>1
    <3> QED
      BY <1>1, <3>1 DEF Members
  <2> QED
    BY <2>1, <2>2, <2>3, Zenon
<1>5. ASSUME NEW x \in Members(s), ListedOnce(x, s) PROVE ListedOnce(x, a)
  <2>1. PICK i \in DOMAIN s : \A j \in DOMAIN s : s[j] = x <=> j = i
    BY <1>5, Zenon DEF ListedOnce
  <2>2. \A j \in DOMAIN t : t[j] # x
    BY Zenon DEF Members
  <2>3. i \in DOMAIN a /\ \A j \in DOMAIN a : a[j] = x <=> j = i
    BY <1>1, <1>3, <2>1, <2>2
  <2> QED
    BY <2>3, Zenon DEF ListedOnce
<1>6. ASSUME NEW x \in Members(t), ListedOnce(x, t) PROVE ListedOnce(x, a)
  <2>1. PICK i \in DOMAIN t : \A j \in DOMAIN t : t[j] = x <=> j = i
    BY <1>6, Zenon DEF ListedOnce
  <2>2. \A j \in DOMAIN s : s[j] # x
    BY Zenon DEF Members
  <2>3. Len(s) + i \in DOMAIN a /\ \A j \in DOMAIN a : a[j] = x <=> j = Len(s) + i
    BY <1>1, <1>3, <2>1, <2>2
  <2> QED
    BY <2>3, Zenon DEF ListedOnce
<1> QED
  BY <1>1, <1>2, <1>4, <1>5, <1>6, Zenon DEF a

\* A child that is listed once is taken out.
LEMMA TakeChild ==
    ASSUME NEW s \in Seq(Process), NEW c \in Members(s), ListedOnce(c, s)
    PROVE  /\ Without(s, c) \in Seq(Process)
           /\ Members(Without(s, c)) = Members(s) \ {c}
           /\ \A x \in Members(s) \ {c} : ListedOnce(x, s) => ListedOnce(x, Without(s, c))
<1> DEFINE at == CHOOSE i \in DOMAIN s : s[i] = c /\ \A j \in 1..(i - 1) : s[j] # c
           w == [i \in 1..(Len(s) - 1) |-> s[IF i < at THEN i ELSE i + 1]]
<1>1. PICK k \in DOMAIN s : \A j \in DOMAIN s : s[j] = c <=> j = k
  BY Zenon DEF ListedOnce
<1>2. DOMAIN s = 1..Len(s) /\ Len(s) \in Nat /\ \A i \in 1..Len(s) : s[i] \in Process
  OBVIOUS
<1>3. at = k
  <2>1. s[k] = c /\ \A j \in 1..(k - 1) : s[j] # c
    BY <1>1, <1>2
  <2>2. \A i \in DOMAIN s : s[i] = c /\ (\A j \in 1..(i - 1) : s[j] # c) => i = k
    BY <1>1, Zenon
  <2> QED
    BY <2>1, <2>2, Zenon
<1> HIDE DEF at
<1>4. /\ w \in Seq(Process) /\ DOMAIN w = 1..(Len(s) - 1)
      /\ \A i \in 1..(Len(s) - 1) : w[i] = IF i < k THEN s[i] ELSE s[i + 1]
  BY <1>2, <1>3
<1>5. Without(s, c) = w
  BY Zenon DEF Without, at
<1> HIDE DEF w
<1>6. Members(w) = Members(s) \ {c}
  <2>1. ASSUME NEW x \in Members(w) PROVE x \in Members(s) /\ x # c
    <3>1. PICK i \in 1..(Len(s) - 1) : w[i] = x
      BY <1>4, Zenon DEF Members
    <3>2. i \in 1..Len(s) /\ i + 1 \in 1..Len(s) /\ (~(i < k) => i + 1 # k) /\ (i < k => i # k)
      BY <1>1, <1>2, <3>1
    <3>3. \/ x = s[i] /\ i # k
          \/ x = s[i + 1] /\ i + 1 # k
      BY <1>4, <3>1, <3>2, Zenon
    <3> QED
      BY <1>1, <1>2, <3>2, <3>3, Zenon DEF Members
  <2>2. ASSUME NEW x \in Members(s), x # c PROVE x \in Members(w)
    <3>1. PICK i \in 1..Len(s) : s[i] = x
      BY <1>2, Zenon DEF Members
    <3>2. i # k
      BY <1>1, <2>2, <3>1, Zenon
    <3>3. CASE i < k
      BY <1>2, <1>4, <3>1, <3>3 DEF Members
    <3>4. CASE i > k
      <4>1. i - 1 \in 1..(Len(s) - 1) /\ w[i - 1] = x
        BY <1>2, <1>4, <3>1, <3>4
      <4> QED
        BY <1>4, <4>1, Zenon DEF Members
    <3> QED
      BY <1>2, <3>2, <3>3, <3>4
  <2> QED
    BY <2>1, <2>2, Zenon
<1>7. ASSUME NEW x \in Members(s) \ {c}, ListedOnce(x, s) PROVE ListedOnce(x, w)
  <2>1. PICK i \in DOMAIN s : \A j \in DOMAIN s : s[j] = x <=> j = i
    BY <1>7, Zenon DEF ListedOnce
  <2>2. i # k
    BY <1>1, <2>1
  <2>3. \A j \in DOMAIN w : w[j] = x <=> (IF j < k THEN j ELSE j + 1) = i
    <3>1. ASSUME NEW j \in DOMAIN w, j < k PROVE w[j] = x <=> j = i
      <4>1. w[j] = s[j] /\ j \in DOMAIN s
        BY <1>2, <1>4, <3>1
      <4> QED
        BY <2>1, <4>1, Zenon
    <3>2. ASSUME NEW j \in DOMAIN w, ~(j < k) PROVE w[j] = x <=> j + 1 = i
      <4>1. w[j] = s[j + 1] /\ j + 1 \in DOMAIN s
        BY <1>2, <1>4, <3>2
      <4> QED
        BY <2>1, <4>1, Zenon
    <3> QED
      BY <3>1, <3>2, Zenon
  <2>4. CASE i < k
    <3>1. i \in DOMAIN w /\ \A j \in DOMAIN w : w[j] = x <=> j = i
      BY <1>2, <1>4, <2>3, <2>4
    <3> QED
      BY <3>1, Zenon DEF ListedOnce
  <2>5. CASE i > k
    <3>1. i - 1 \in DOMAIN w /\ \A j \in DOMAIN w : w[j] = x <=> j = i - 1
      BY <1>2, <1>4, <2>3, <2>5
    <3> QED
      BY <3>1, Zenon DEF ListedOnce
  <2> QED
    BY <1>2, <2>2, <2>4, <2>5
<1> QED
  BY <1>4, <1>5, <1>6, <1>7, Zenon

\* Every nonempty set of natural numbers has a least element.
LEMMA LeastNatural ==
    ASSUME NEW S \in SUBSET Nat, S # {} PROVE \E m \in S : \A n \in S : m <= n
<1> DEFINE R == OpToRel(<, Nat)
<1>1. IsWellFoundedOn(R, Nat)
  BY NatLessThanWellFounded, Zenon
<1>2. \A x, y \in Nat : <<y, x>> \in R <=> y < x
  BY Zenon DEF OpToRel
<1> HIDE DEF R
<1>3. PICK x \in S : \A y \in S : ~ (<<y, x>> \in R)
  BY <1>1, WFMin, Zenon
<1>4. \A y \in S : y \in Nat /\ x \in Nat
  BY Zenon
<1>5. \A y \in S : ~ (y < x)
  BY <1>2, <1>3, <1>4, Zenon
<1>6. \A y \in S : x <= y
  BY <1>4, <1>5
<1> QED
  BY <1>6, Zenon

(***************************************************************************)
(* The inductive invariant.                                                *)
(***************************************************************************)
Blocked == {"WAITING", "SLEEPING", "COLLECTING"}

\* A sleep ends only by its own entry, which goes with it: no entry is stale.
SleepersOnly ==
    \A e \in sleepQueue : /\ state[e.process] = "SLEEPING"
                          /\ e.token = waitToken[e.process] /\ e.till = sleeptill[e.process]

RunnerAvailable == current \in Task => state[current] = "AVAILABLE"

\* The queues and the ready queue.
QueueInv ==
    /\ TypeOK
    /\ ReadyOnce
    /\ WaitersQueued
    /\ SleepersOnly
    /\ RunnerAvailable

FamilyTypes ==
    /\ table \in SUBSET Task /\ SystemTask \subseteq table
    /\ ppid \in [Task -> Task]
    /\ children \in [Task -> Seq(Process)]
    /\ collecting \in [Task -> SUBSET Process]
    /\ doomed \in [Process -> BOOLEAN]
    /\ collected \in SUBSET Process
    /\ panic => outOfEntries

\* The states of slots that are free and in use, and of system tasks.
SlotStates ==
    \A t \in Task :
        /\ t \notin table => state[t] \in {"NEW", "COLLECTED"}
        /\ t \in table => state[t] \in Blocked \cup {"AVAILABLE", "EXITED", "COLLECTED"}
        /\ t \in collected <=> t \in table /\ state[t] = "COLLECTED"
        /\ t \in SystemTask => state[t] \in {"AVAILABLE", "WAITING", "COLLECTING"}

\* The exited table has only EXITED processes; those who exited since the last
\* lottery are still in the ready queue.
ExitedOnly ==
    /\ exited \subseteq {t \in table : state[t] = "EXITED"}
    /\ current # Scheduler => exited = {t \in table : state[t] = "EXITED"}

\* A process that has not exited collects only children of its own.
CollectsOwn ==
    \A p \in Task : state[p] \in Blocked \cup {"AVAILABLE"} =>
        collecting[p] \subseteq Members(children[p])

\* Where the collector and the deleter park.
ParkPlaces ==
    /\ state[Collector] = "WAITING" => wakeReason[Collector].waitable = CollectorQueue
    /\ state[Deleter] = "WAITING" => wakeReason[Deleter].waitable = DeleterQueue

FamilyInv ==
    /\ FamilyTypes
    /\ SlotStates
    /\ ExitedOnly
    /\ CollectsOwn
    /\ ParkPlaces
    /\ FamilyTree
    /\ NoMissedExit

PMInv == QueueInv /\ FamilyInv

\* How the constants of the two modules lie.
LEMMA Apart ==
    /\ Process \subseteq Task /\ SystemTask \subseteq Task /\ Process \cap SystemTask = {}
    /\ Task = Process \cup SystemTask
    /\ {Dummy, Awaker, Collector, Deleter, Root} \subseteq SystemTask
    /\ Collector # Deleter /\ Awaker # Collector /\ Awaker # Deleter
    /\ Root # Collector /\ Root # Deleter /\ Root # Awaker
    /\ Scheduler \notin Task /\ None \notin Task /\ None \notin WaitQueues
    /\ {AwakerQueue, CollectorQueue, DeleterQueue} \subseteq WaitQueues
    /\ ObjectQueues \subseteq WaitQueues /\ IrqQueues \subseteq WaitQueues
    /\ CollectorQueue \notin ObjectQueues /\ DeleterQueue \notin ObjectQueues
    /\ CollectorQueue \notin IrqQueues /\ DeleterQueue \notin IrqQueues
    /\ CollectorQueue # DeleterQueue
    /\ AwakerQueue # CollectorQueue /\ AwakerQueue # DeleterQueue
    /\ Sleeps \subseteq Nat /\ Timeouts = {}
BY SchedulingAssumption, ProcessAssumption, Zenon DEF Task

(***************************************************************************)
(* The queues under each step.                                             *)
(***************************************************************************)
\* Who runs is in the ready queue once: deschedule finds it and does not panic.
LEMMA RunnerOnce ==
    ASSUME QueueInv, NEW p \in Task, Running(p)
    PROVE  /\ current = p /\ panic = FALSE
           /\ state[p] = "AVAILABLE" /\ readyCount[p] = 1 /\ readyCount[p] > 0
           /\ (panic \/ (p \in Task /\ readyCount[p] > 1)) = FALSE
<1>1. current = p /\ panic = FALSE
  BY Zenon DEF Running, QueueInv, TypeOK
<1>2. state[p] = "AVAILABLE" /\ readyCount[p] = 1
  BY <1>1, Zenon DEF QueueInv, RunnerAvailable, ReadyOnce
<1>3. readyCount[p] > 0 /\ ~(readyCount[p] > 1)
  BY <1>2
<1> QED
  BY <1>1, <1>2, <1>3, Zenon

LEMMA WokenWait ==
    ASSUME QueueInv, NEW q \in WaitQueues PROVE Woken(q) = Waiters(q)
BY DEF QueueInv, WaitersQueued, Woken, Waiters, EntryOf, TypeOK

\* The lottery buries who exited since the last one, and finds nobody twice.
LEMMA ScheduleQueues ==
    ASSUME QueueInv, NEW t \in Task, Schedule(t)
    PROVE  /\ QueueInv'
           /\ panic' = FALSE
           /\ exited' = exited \cup Departed
<1> USE DEF QueueInv
<1>1. \A u \in Departed : /\ u \in Task /\ state[u] = "EXITED"
                          /\ u \notin exited /\ readyCount[u] = 1
  <2>1. \A u \in Departed : u \in Task /\ state[u] = "EXITED" /\ readyCount[u] > 0
    BY Zenon DEF Departed
  <2> QED
    BY <2>1 DEF ReadyOnce
<1>2. panic' = FALSE
  <2>1. panic' = (\E u \in Departed : u \in exited \/ readyCount[u] > 1)
    BY Zenon DEF Schedule
  <2>2. ~(\E u \in Departed : u \in exited \/ readyCount[u] > 1)
    BY <1>1
  <2> QED
    BY <2>1, <2>2, Zenon
<1>3. /\ current' = t /\ exited' = exited \cup Departed
      /\ readyCount' = [u \in Task |-> IF u \in Departed THEN 0 ELSE readyCount[u]]
      /\ UNCHANGED <<state, waitToken, wakeReason, sleeptill, mProcesses, sleepQueue, now>>
  BY Zenon DEF Schedule
<1>4. state[t] = "AVAILABLE"
  BY Zenon DEF Schedule, Candidates
<1>5. TypeOK'
  <2>1. panic' \in BOOLEAN
    BY <1>2, Zenon
  <2> QED
    BY <1>1, <1>3, <2>1, Zenon DEF TypeOK
<1>6. ReadyOnce'
  <2>1. \A u \in Task : u \in Departed <=> readyCount[u] > 0 /\ state[u] = "EXITED"
    BY Zenon DEF Departed
  <2> QED
    BY <1>1, <1>3, <2>1, Zenon DEF ReadyOnce, TypeOK
<1>7. WaitersQueued' /\ SleepersOnly' /\ RunnerAvailable'
  BY <1>3, <1>4, Zenon DEF WaitersQueued, Waiters, EntryOf, SleepersOnly, RunnerAvailable
<1> QED
  BY <1>2, <1>3, <1>5, <1>6, <1>7, Zenon

\* Steps after which the queues are as before and the same process runs, or none.
LEMMA StillQueues ==
    ASSUME QueueInv, current' \in {current, Scheduler}, now' \in Nat, panic' \in BOOLEAN,
           UNCHANGED <<state, waitToken, wakeReason, sleeptill, readyCount, mProcesses,
                       sleepQueue, exited>>
    PROVE  QueueInv'
<1> USE DEF QueueInv
<1>1. TypeOK'
  BY Zenon DEF TypeOK
<1>2. ReadyOnce' /\ WaitersQueued'
  BY Zenon DEF ReadyOnce, WaitersQueued, Waiters, EntryOf
<1>3. SleepersOnly' /\ RunnerAvailable'
  BY Apart, Zenon DEF SleepersOnly, RunnerAvailable
<1> QED
  BY <1>1, <1>2, <1>3, Zenon

\* A process, or a system task, blocks on a queue.
LEMMA WaitQueuesKept ==
    ASSUME QueueInv, NEW p \in Task, NEW q \in WaitQueues, Wait(p, q)
    PROVE  /\ QueueInv'
           /\ state' = [t \in Task |-> IF t = p THEN "WAITING" ELSE state[t]]
           /\ wakeReason'[p].waitable = q
           /\ \A t \in Task \ {p} : wakeReason'[t] = wakeReason[t]
           /\ panic' = FALSE /\ current' = Scheduler /\ exited' = exited
           /\ state[p] = "AVAILABLE"
<1> USE DEF QueueInv
<1>1. Running(p) /\ Resched(p, "WAITING", q, {}, BySignal(q))
  BY Zenon DEF Wait
<1>2. state[p] = "AVAILABLE" /\ current = p
  BY <1>1, RunnerOnce, Zenon
<1>3. /\ state' = [t \in Task |-> IF t = p THEN "WAITING" ELSE state[t]]
      /\ waitToken' = [t \in Task |-> waitToken[t]]
      /\ readyCount' = [t \in Task |-> IF t = p THEN 0 ELSE readyCount[t]]
      /\ wakeReason' = [t \in Task |-> IF t = p THEN [wakeReason[t] EXCEPT !.waitable = q]
                                       ELSE wakeReason[t]]
      /\ panic' = FALSE
  <2>1. (panic \/ (p \in Task /\ readyCount[p] > 1)) = FALSE /\ readyCount[p] > 0
    BY <1>1, RunnerOnce, Zenon
  <2>2. panic' = FALSE
    BY <1>1, <2>1, Zenon DEF Resched
  <2> QED
    BY <1>1, <2>1, <2>2, Zenon DEF Resched, Erased
<1>4. /\ mProcesses' = [mProcesses EXCEPT ![q] = @ \cup {EntryOf(p)}]
      /\ current' = Scheduler /\ UNCHANGED <<sleeptill, sleepQueue, exited, now>>
  BY Zenon DEF Wait
<1>5. TypeOK'
  <2>1. wakeReason' \in [Task -> [timeout : BOOLEAN, waitable : WaitQueues \cup {None}]]
    BY <1>3, Zenon DEF TypeOK
  <2>2. mProcesses' \in [WaitQueues -> SUBSET Entry]
    BY <1>4 DEF TypeOK, Entry, EntryOf
  <2>3. panic' \in BOOLEAN
    BY <1>3, Zenon
  <2>4. /\ state' \in [Task -> States] /\ waitToken' \in [Task -> Nat]
        /\ readyCount' \in [Task -> Nat]
    BY <1>3, Zenon DEF TypeOK, States
  <2> QED
    BY <1>4, <2>1, <2>2, <2>3, <2>4, Zenon DEF TypeOK
<1>6. ReadyOnce'
  BY <1>3, <1>4, Zenon DEF ReadyOnce, TypeOK
<1>7. WaitersQueued'
  <2> SUFFICES ASSUME NEW r \in WaitQueues
               PROVE  mProcesses'[r] = {EntryOf(t)' : t \in Waiters(r)'}
    BY Zenon DEF WaitersQueued
  <2>1. \A t \in Task : EntryOf(t)' = EntryOf(t)
    BY <1>3, Zenon DEF EntryOf
  <2>2. Waiters(r)' = IF r = q THEN Waiters(r) \cup {p} ELSE Waiters(r)
    BY <1>2, <1>3, Zenon DEF Waiters, TypeOK
  <2>3. mProcesses'[r] = IF r = q THEN mProcesses[r] \cup {EntryOf(p)} ELSE mProcesses[r]
    BY <1>4, Zenon DEF TypeOK
  <2> QED
    BY <2>1, <2>2, <2>3 DEF WaitersQueued, Waiters
<1>8. SleepersOnly' /\ RunnerAvailable'
  BY <1>2, <1>3, <1>4, Apart, Zenon DEF SleepersOnly, RunnerAvailable, TypeOK, SleepEntry
<1> QED
  BY <1>2, <1>3, <1>4, <1>5, <1>6, <1>7, <1>8 DEF TypeOK

\* The processes of W, some blocked ones and all that wait on the queues Q, are
\* made ready, while p, if it is a process, goes from a state that is in no queue
\* to state new.
WakeFrame(p, new, W, Q) ==
    /\ p \in Task => state[p] \notin {"WAITING", "SLEEPING"}
    /\ new \in States \ {"WAITING"}
    /\ p \notin W
    /\ \A t \in W : state[t] \in Blocked /\ (state[t] = "WAITING" => wakeReason[t].waitable \in Q)
    /\ \A t \in Task : state[t] = "WAITING" /\ wakeReason[t].waitable \in Q => t \in W
    /\ state' = [t \in Task |-> IF t \in W THEN "AVAILABLE" ELSE IF t = p THEN new ELSE state[t]]
    /\ \A t \in Task \ (W \cup {p}) : /\ waitToken'[t] = waitToken[t]
                                      /\ readyCount'[t] = readyCount[t]
                                      /\ wakeReason'[t] = wakeReason[t]
    /\ \A t \in W : readyCount'[t] = readyCount[t] + 1
    /\ p \in Task =>
          readyCount'[p] = IF new = "AVAILABLE" \/ (new = "EXITED" /\ p \notin exited') THEN 1 ELSE 0
    /\ mProcesses' = [q \in WaitQueues |-> IF q \in Q THEN {} ELSE mProcesses[q]]
    /\ \A t \in Task \ {p} : t \in exited' <=> t \in exited
    /\ current' \in {current, Scheduler} /\ (current' = p => new = "AVAILABLE")

\* The parts of TypeOK that such a step may disturb.
FrameTypes ==
    /\ waitToken \in [Task -> Nat] /\ readyCount \in [Task -> Nat] /\ sleeptill \in [Task -> Nat]
    /\ wakeReason \in [Task -> [timeout : BOOLEAN, waitable : WaitQueues \cup {None}]]
    /\ sleepQueue \subseteq SleepEntry /\ exited \subseteq Task /\ now \in Nat
    /\ panic \in BOOLEAN

LEMMA WakeStep ==
    ASSUME QueueInv, NEW p, NEW new, NEW W \in SUBSET Task, NEW Q \in SUBSET WaitQueues,
           WakeFrame(p, new, W, Q), FrameTypes', SleepersOnly'
    PROVE  QueueInv'
<1> USE DEF QueueInv, WakeFrame
<1>1. TypeOK'
  <2>1. state' \in [Task -> States]
    BY Zenon DEF TypeOK, States
  <2>2. mProcesses' \in [WaitQueues -> SUBSET Entry]
    BY Zenon DEF TypeOK
  <2> QED
    BY <2>1, <2>2, Zenon DEF TypeOK, FrameTypes
<1>2. ReadyOnce'
  <2> SUFFICES ASSUME NEW t \in Task
               PROVE /\ state'[t] = "AVAILABLE" => readyCount'[t] = 1
                     /\ state'[t] \in {"NEW", "WAITING", "SLEEPING", "COLLECTING", "COLLECTED"}
                            => readyCount'[t] = 0
                     /\ state'[t] = "EXITED" => readyCount'[t] = IF t \in exited' THEN 0 ELSE 1
    BY Zenon DEF ReadyOnce
  <2>1. CASE t \in W
    <3>1. state'[t] = "AVAILABLE" /\ readyCount'[t] = readyCount[t] + 1 /\ readyCount[t] = 0
      BY <2>1, Zenon DEF ReadyOnce, Blocked
    <3> QED
      BY <3>1
  <2>2. CASE t = p
    BY <2>2, Zenon
  <2>3. CASE t \notin W /\ t # p
    BY <2>3, Zenon DEF ReadyOnce
  <2> QED
    BY <2>1, <2>2, <2>3, Zenon
<1>3. WaitersQueued'
  <2> SUFFICES ASSUME NEW r \in WaitQueues
               PROVE  mProcesses'[r] = {EntryOf(t)' : t \in Waiters(r)'}
    BY Zenon DEF WaitersQueued
  <2>1. \A t \in Task : state'[t] = "WAITING" <=> state[t] = "WAITING" /\ t \notin W
    BY Zenon
  <2>2. \A t \in Task : state'[t] = "WAITING" => /\ wakeReason'[t] = wakeReason[t]
                                                  /\ waitToken'[t] = waitToken[t]
    BY <2>1, Zenon
  <2>3. Waiters(r)' = IF r \in Q THEN {} ELSE Waiters(r)
    BY <2>1, <2>2 DEF Waiters
  <2>4. \A t \in Waiters(r)' : EntryOf(t)' = EntryOf(t)
    BY <2>2, Zenon DEF EntryOf, Waiters
  <2>5. mProcesses'[r] = IF r \in Q THEN {} ELSE mProcesses[r]
    BY Zenon
  <2> QED
    BY <2>3, <2>4, <2>5 DEF WaitersQueued
<1>4. RunnerAvailable'
  BY Apart, Zenon DEF RunnerAvailable
<1> QED
  BY <1>1, <1>2, <1>3, <1>4, Zenon

(***************************************************************************)
(* The family under the steps that leave it alone.                         *)
(***************************************************************************)
\* The states of processes between two system calls of this module.
Roaming == {"AVAILABLE", "WAITING", "SLEEPING"}

LEMMA QuietFamily ==
    ASSUME FamilyInv, UNCHANGED familyVars, panic' => outOfEntries,
           \A t \in Task : \/ state'[t] = state[t]
                           \/ /\ state[t] \in Roaming /\ state'[t] \in Roaming
                              /\ t \in SystemTask => state'[t] # "SLEEPING",
           children[Collector] # <<>> => state'[Collector] # "WAITING",
           collected # {} => state'[Deleter] # "WAITING",
           ParkPlaces', ExitedOnly'
    PROVE  FamilyInv'
<1> USE DEF FamilyInv
<1>1. UNCHANGED <<table, ppid, children, collecting, doomed, collected, outOfEntries>>
  BY Zenon DEF familyVars
<1>2. \A t \in Task : /\ state'[t] = "EXITED" <=> state[t] = "EXITED"
                      /\ state'[t] = "COLLECTED" <=> state[t] = "COLLECTED"
                      /\ state'[t] = "COLLECTING" <=> state[t] = "COLLECTING"
                      /\ state'[t] \in Blocked \cup {"AVAILABLE"} <=> state[t] \in Blocked \cup {"AVAILABLE"}
  BY Zenon DEF Roaming, Blocked
<1>3. FamilyTypes'
  BY <1>1, Zenon DEF FamilyTypes
<1>4. SlotStates'
  <2> SUFFICES ASSUME NEW t \in Task
               PROVE  /\ t \notin table => state'[t] \in {"NEW", "COLLECTED"}
                      /\ t \in table => state'[t] \in Blocked \cup {"AVAILABLE", "EXITED", "COLLECTED"}
                      /\ t \in collected <=> t \in table /\ state'[t] = "COLLECTED"
                      /\ t \in SystemTask => state'[t] \in {"AVAILABLE", "WAITING", "COLLECTING"}
    BY <1>1, Zenon DEF SlotStates
  <2>1. CASE state'[t] = state[t]
    BY <2>1, Zenon DEF SlotStates
  <2>2. CASE state[t] \in Roaming /\ state'[t] \in Roaming /\ (t \in SystemTask => state'[t] # "SLEEPING")
    BY <2>2, Zenon DEF SlotStates, Roaming, Blocked
  <2> QED
    BY <2>1, <2>2, Zenon
<1>5. CollectsOwn'
  BY <1>1, <1>2, Zenon DEF CollectsOwn
<1>7. FamilyTree'
  <2>1. \A t \in table : t \in Task
    BY Zenon DEF FamilyTypes
  <2>2. Alive' = Alive
    BY <1>1, <1>2, <2>1, Zenon DEF Alive
  <2>3. \A c \in Process \cap table : state'[c] # "COLLECTED" =>
            ppid[c] \in Alive /\ ListedOnce(c, children[ppid[c]])
    BY <1>2, <2>1, Zenon DEF FamilyTree
  <2>4. \A t \in Task : \A c \in Members(children[t]) :
            c \in table /\ state'[c] # "COLLECTED" /\ ppid[c] = t
    BY <1>2, <2>1, Zenon DEF FamilyTree
  <2>5. current' # Scheduler => exited' = {t \in table' : state'[t] = "EXITED"}
    BY Zenon DEF ExitedOnly
  <2> QED
    BY <1>1, <2>2, <2>3, <2>4, <2>5, Zenon DEF FamilyTree
<1>8. NoMissedExit'
  <2>1. \A t \in table : t \in Task
    BY Zenon DEF FamilyTypes
  <2>2. \A p \in table : \A c \in collecting[p] : c \in Task
    BY <2>1, Apart, Zenon DEF FamilyTypes
  <2>3. \A p \in table : state'[p] = "COLLECTING" => \A c \in collecting[p] : state'[c] # "EXITED"
    BY <1>2, <2>1, <2>2, Zenon DEF NoMissedExit
  <2> QED
    BY <1>1, <2>3, Zenon DEF NoMissedExit
<1> QED
  BY <1>3, <1>4, <1>5, <1>7, <1>8, Zenon

\* If the exited table stays, and no process exits or is collected, it is right.
LEMMA QuietExited ==
    ASSUME FamilyInv, table' = table, exited' = exited, current' \in {current, Scheduler},
           \A t \in Task : state'[t] = "EXITED" <=> state[t] = "EXITED"
    PROVE  ExitedOnly'
<1>1. \A t \in table : t \in Task
  BY Zenon DEF FamilyInv, FamilyTypes
<1>2. {t \in table : state'[t] = "EXITED"} = {t \in table : state[t] = "EXITED"}
  BY <1>1, Zenon
<1> QED
  BY <1>2, Zenon DEF FamilyInv, ExitedOnly

\* The collector and the deleter stay parked, or are woken.
LEMMA StillParked ==
    ASSUME FamilyInv,
           \A t \in {Collector, Deleter} :
               state'[t] = "WAITING" => state[t] = "WAITING" /\ wakeReason'[t] = wakeReason[t]
    PROVE  /\ children[Collector] # <<>> => state'[Collector] # "WAITING"
           /\ collected # {} => state'[Deleter] # "WAITING"
           /\ ParkPlaces'
BY Zenon DEF FamilyInv, NoMissedExit, ParkPlaces

\* The lottery.
LEMMA ScheduleKeeps ==
    ASSUME PMInv, NEW t \in Task, Schedule(t), UNCHANGED familyVars PROVE PMInv'
<1> USE DEF PMInv
<1>1. QueueInv' /\ panic' = FALSE /\ exited' = exited \cup Departed /\ state' = state /\ wakeReason' = wakeReason
  BY ScheduleQueues, Zenon DEF Schedule
<1>2. ExitedOnly'
  <2>1. \A u \in Task : u \in Departed <=> state[u] = "EXITED" /\ u \notin exited
    BY DEF Departed, QueueInv, ReadyOnce
  <2>2. \A u \in table : u \in Task
    BY Zenon DEF FamilyInv, FamilyTypes
  <2>3. \A u \in Task : state[u] = "EXITED" => u \in table
    BY Zenon DEF FamilyInv, SlotStates
  <2>4. Departed \subseteq Task
    BY Zenon DEF Departed
  <2>5. exited \cup Departed = {u \in table : state[u] = "EXITED"}
    BY <2>1, <2>2, <2>3, <2>4, Zenon DEF FamilyInv, ExitedOnly
  <2>6. table' = table
    BY Zenon DEF familyVars
  <2> QED
    BY <1>1, <2>5, <2>6, Zenon DEF ExitedOnly
<1>3. FamilyInv'
  <2>1. panic' => outOfEntries
    BY <1>1, Zenon
  <2> QED
    BY <1>1, <1>2, <2>1, QuietFamily, StillParked, Zenon
<1> QED
  BY <1>1, <1>3, Zenon

\* The CPU or the clock moves on, or a process is marked for the reaper.
LEMMA StillKeeps ==
    ASSUME PMInv, UNCHANGED familyVars, current' \in {current, Scheduler}, now' \in Nat,
           UNCHANGED <<state, waitToken, wakeReason, sleeptill, readyCount, mProcesses,
                       sleepQueue, exited, panic>>
    PROVE  PMInv'
<1> USE DEF PMInv
<1>1. QueueInv'
  BY StillQueues, Zenon DEF QueueInv, TypeOK
<1>2. ExitedOnly'
  BY QuietExited, Zenon DEF familyVars
<1>3. panic' => outOfEntries
  BY Zenon DEF FamilyInv, FamilyTypes
<1>4. FamilyInv'
  BY <1>2, <1>3, QuietFamily, StillParked, Zenon
<1> QED
  BY <1>1, <1>4, Zenon

LEMMA KillKeeps ==
    ASSUME PMInv, NEW k, NEW p \in Process, Kill(k, p) PROVE PMInv'
<1> USE DEF PMInv
<1>1. /\ UNCHANGED schedVars /\ UNCHANGED <<table, ppid, children, collecting, collected, outOfEntries>>
      /\ doomed' = [doomed EXCEPT ![p] = TRUE]
  BY Zenon DEF Kill
<1>2. UNCHANGED <<current, state, waitToken, wakeReason, sleeptill, readyCount, mProcesses,
                  sleepQueue, exited, now, panic>>
  BY <1>1, Zenon DEF schedVars
<1>3. QueueInv'
  BY <1>2, StillQueues, Zenon DEF QueueInv, TypeOK
<1>4. FamilyTypes'
  BY <1>1, <1>2, Zenon DEF FamilyInv, FamilyTypes
<1>5. SlotStates' /\ ExitedOnly' /\ CollectsOwn' /\ ParkPlaces' /\ FamilyTree' /\ NoMissedExit'
  BY <1>1, <1>2 DEF FamilyInv, SlotStates, ExitedOnly, CollectsOwn, ParkPlaces, FamilyTree,
                    Alive, NoMissedExit
<1> QED
  BY <1>3, <1>4, <1>5, Zenon DEF FamilyInv

\* A process waits on an object's queue, the awaker or the collector parks.
LEMMA WaitKeeps ==
    ASSUME PMInv, NEW p \in Task \ {Deleter}, NEW q \in WaitQueues, Wait(p, q), UNCHANGED familyVars,
           p = Collector => q = CollectorQueue /\ children[Collector] = <<>>
    PROVE  PMInv'
<1> USE DEF PMInv
<1>1. /\ QueueInv'
      /\ state' = [t \in Task |-> IF t = p THEN "WAITING" ELSE state[t]]
      /\ wakeReason'[p].waitable = q
      /\ \A t \in Task \ {p} : wakeReason'[t] = wakeReason[t]
      /\ panic' = FALSE /\ current' = Scheduler /\ exited' = exited
      /\ state[p] = "AVAILABLE"
  BY WaitQueuesKept, Zenon
<1>2. ExitedOnly'
  BY <1>1, QuietExited, Zenon DEF familyVars
<1>3. panic' => outOfEntries
  BY <1>1, Zenon
<1>4. \A t \in Task : \/ state'[t] = state[t]
                      \/ /\ state[t] \in Roaming /\ state'[t] \in Roaming
                         /\ t \in SystemTask => state'[t] # "SLEEPING"
  BY <1>1, Zenon DEF Roaming
<1>5. /\ children[Collector] # <<>> => state'[Collector] # "WAITING"
      /\ collected # {} => state'[Deleter] # "WAITING"
      /\ ParkPlaces'
  BY <1>1, Apart, Zenon DEF FamilyInv, NoMissedExit, ParkPlaces
<1>6. FamilyInv'
  BY <1>2, <1>3, <1>4, <1>5, QuietFamily, Zenon
<1> QED
  BY <1>1, <1>6, Zenon

\* A queue is signalled by a process, or by an interrupt.
LEMMA WakeAllKeeps ==
    ASSUME PMInv, ~panic, NEW q \in WaitQueues, WakeAll(q), UNCHANGED familyVars PROVE PMInv'
<1> USE DEF PMInv
<1> DEFINE W == Woken(q)
<1>1. W = Waiters(q) /\ W \in SUBSET Task
  BY WokenWait, Zenon DEF Woken
<1>2. panic' = FALSE
  <2>1. panic' = (panic \/ (None \in Task /\ readyCount[None] > 1))
    BY Zenon DEF WakeAll, Awaken, Resched
  <2> QED
    BY <2>1, Apart, Zenon
<1>3. /\ state' = [t \in Task |-> IF t \in W THEN "AVAILABLE" ELSE IF t = None THEN "AVAILABLE" ELSE state[t]]
      /\ waitToken' = [t \in Task |-> IF t \in W THEN waitToken[t] + 1 ELSE waitToken[t]]
      /\ readyCount' = [t \in Task |-> IF t \in W THEN readyCount[t] + 1 ELSE readyCount[t]]
      /\ wakeReason' = [t \in Task |-> IF t \in W THEN BySignal(q) ELSE wakeReason[t]]
  <2>1. \A t \in Task : t # None
    BY Apart, Zenon
  <2> QED
    BY <2>1, Zenon DEF WakeAll, Awaken, Resched
<1>4. /\ mProcesses' = [r \in WaitQueues |-> IF r \in {q} THEN {} ELSE mProcesses[r]]
      /\ UNCHANGED <<current, sleeptill, sleepQueue, exited, now>>
  BY Zenon DEF WakeAll, QueueInv, TypeOK
<1> HIDE DEF W
<1>5. \A t \in Task : t \in W <=> state[t] = "WAITING" /\ wakeReason[t].waitable \in {q}
  BY <1>1, Zenon DEF Waiters
<1>6. QueueInv'
  <2>1. waitToken' \in [Task -> Nat] /\ readyCount' \in [Task -> Nat]
    BY <1>3 DEF QueueInv, TypeOK
  <2>2. wakeReason' \in [Task -> [timeout : BOOLEAN, waitable : WaitQueues \cup {None}]]
    BY <1>3, Zenon DEF QueueInv, TypeOK, BySignal
  <2>3. panic' \in BOOLEAN
    BY <1>2, Zenon
  <2>4. FrameTypes'
    BY <1>4, <2>1, <2>2, <2>3, Zenon DEF FrameTypes, QueueInv, TypeOK
  <2>5. SleepersOnly'
    <3>1. \A e \in sleepQueue : e.process \in Task /\ e.process \notin W
      BY <1>5, Zenon DEF SleepersOnly, QueueInv, TypeOK, SleepEntry
    <3>2. \A t \in Task : t \notin W => state'[t] = state[t] /\ waitToken'[t] = waitToken[t]
      BY <1>3, Apart, Zenon
    <3> QED
      BY <1>4, <3>1, <3>2, Zenon DEF SleepersOnly, QueueInv
  <2>6. WakeFrame(None, "AVAILABLE", W, {q})
    BY <1>1, <1>3, <1>4, <1>5, Apart, Zenon DEF WakeFrame, States, Blocked
  <2> QED
    BY <1>1, <2>4, <2>5, <2>6, WakeStep, Zenon
<1>7. FamilyInv'
  <2>1. \A t \in Task : /\ state'[t] = IF t \in W THEN "AVAILABLE" ELSE state[t]
                        /\ t \in W => state[t] = "WAITING"
                        /\ t \notin W => wakeReason'[t] = wakeReason[t]
    BY <1>1, <1>3, <1>5, Apart, Zenon
  <2>2. ExitedOnly'
    BY <1>4, <2>1, QuietExited, Zenon DEF familyVars
  <2>3. \A t \in Task : \/ state'[t] = state[t]
                        \/ /\ state[t] \in Roaming /\ state'[t] \in Roaming
                           /\ t \in SystemTask => state'[t] # "SLEEPING"
    BY <2>1, Zenon DEF Roaming
  <2>4. \A t \in {Collector, Deleter} :
           state'[t] = "WAITING" => state[t] = "WAITING" /\ wakeReason'[t] = wakeReason[t]
    BY <2>1, Apart, Zenon
  <2>5. panic' => outOfEntries
    BY <1>2, Zenon
  <2> QED
    BY <2>2, <2>3, <2>4, <2>5, QuietFamily, StillParked, Zenon
<1> QED
  BY <1>6, <1>7, Zenon

\* A process goes to sleep and calls the awaker.
LEMMA SleepKeeps ==
    ASSUME PMInv, NEW p \in Process, NEW d \in Nat, Sleep(p, d), UNCHANGED familyVars PROVE PMInv'
<1> USE DEF PMInv
<1> DEFINE W == Woken(AwakerQueue)
<1>1. p \in Task /\ AwakerQueue \in WaitQueues /\ p \notin SystemTask
  BY Apart, Zenon
<1>2. Running(p) /\ Resched(p, "SLEEPING", None, W, BySignal(AwakerQueue))
  BY Zenon DEF Sleep
<1>3. state[p] = "AVAILABLE" /\ current = p
  BY <1>1, <1>2, RunnerOnce, Zenon
<1>4. W = Waiters(AwakerQueue) /\ W \in SUBSET Task /\ p \notin W
  BY <1>1, <1>3, WokenWait, Zenon DEF Woken, Waiters
<1> HIDE DEF W
<1>5. /\ state' = [t \in Task |-> IF t \in W THEN "AVAILABLE"
                                  ELSE IF t = p THEN "SLEEPING" ELSE state[t]]
      /\ waitToken' = [t \in Task |-> IF t \in W THEN waitToken[t] + 1 ELSE waitToken[t]]
      /\ readyCount' = [t \in Task |-> IF t \in W THEN readyCount[t] + 1
                                       ELSE IF t = p THEN 0 ELSE readyCount[t]]
      /\ wakeReason' = [t \in Task |-> IF t \in W THEN BySignal(AwakerQueue)
                           ELSE IF t = p THEN [wakeReason[t] EXCEPT !.waitable = None]
                           ELSE wakeReason[t]]
      /\ panic' = FALSE
  <2>1. readyCount[p] > 0 /\ (panic \/ (p \in Task /\ readyCount[p] > 1)) = FALSE
    BY <1>1, <1>2, RunnerOnce, Zenon
  <2>2. panic' = FALSE
    BY <1>2, <2>1, Zenon DEF Resched
  <2> QED
    BY <1>1, <1>2, <1>4, <2>1, <2>2, Zenon DEF Resched, Erased
<1>6. /\ sleeptill' = [sleeptill EXCEPT ![p] = now + d]
      /\ sleepQueue' = sleepQueue \cup {SleepEntryOf(p, now + d)}
      /\ mProcesses' = [q \in WaitQueues |-> IF q \in {AwakerQueue} THEN {} ELSE mProcesses[q]]
      /\ current' = Scheduler /\ UNCHANGED <<exited, now>>
  BY Zenon DEF Sleep, QueueInv, TypeOK
<1>7. \A t \in Task : t \in W <=> state[t] = "WAITING" /\ wakeReason[t].waitable \in {AwakerQueue}
  BY <1>4, Zenon DEF Waiters
<1>8. QueueInv'
  <2>1. waitToken' \in [Task -> Nat] /\ readyCount' \in [Task -> Nat]
    BY <1>5 DEF QueueInv, TypeOK
  <2>2. wakeReason' \in [Task -> [timeout : BOOLEAN, waitable : WaitQueues \cup {None}]]
    BY <1>1, <1>5, Zenon DEF QueueInv, TypeOK, BySignal
  <2>3. panic' \in BOOLEAN
    BY <1>5, Zenon
  <2>4. now + d \in Nat /\ now \in Nat
    BY DEF QueueInv, TypeOK
  <2>5. sleepQueue' \subseteq SleepEntry /\ sleeptill' \in [Task -> Nat]
    BY <1>1, <1>6, <2>4 DEF QueueInv, TypeOK, SleepEntry, SleepEntryOf
  <2>6. FrameTypes'
    BY <1>6, <2>1, <2>2, <2>3, <2>4, <2>5, Zenon DEF FrameTypes, QueueInv, TypeOK
  <2>7. SleepersOnly'
    <3>1. \A e \in sleepQueue : e.process \in Task /\ e.process \notin W /\ e.process # p
      BY <1>3, <1>7, Zenon DEF SleepersOnly, QueueInv, TypeOK, SleepEntry
    <3>2. \A t \in Task : t \notin W /\ t # p => /\ state'[t] = state[t]
                                                /\ waitToken'[t] = waitToken[t]
                                                /\ sleeptill'[t] = sleeptill[t]
      BY <1>5, <1>6, Zenon DEF QueueInv, TypeOK
    <3>3. state'[p] = "SLEEPING" /\ waitToken'[p] = waitToken[p] /\ sleeptill'[p] = now + d
      BY <1>1, <1>4, <1>5, <1>6, Zenon DEF QueueInv, TypeOK
    <3>4. ASSUME NEW e \in sleepQueue'
          PROVE  /\ state'[e.process] = "SLEEPING"
                 /\ e.token = waitToken'[e.process] /\ e.till = sleeptill'[e.process]
      <4>1. CASE e \in sleepQueue
        BY <3>1, <3>2, <4>1, Zenon DEF SleepersOnly, QueueInv
      <4>2. CASE e = SleepEntryOf(p, now + d)
        BY <3>3, <4>2, Zenon DEF SleepEntryOf
      <4> QED
        BY <1>6, <4>1, <4>2, Zenon
    <3> QED
      BY <3>4, Zenon DEF SleepersOnly
  <2>8. WakeFrame(p, "SLEEPING", W, {AwakerQueue})
    <3>1. readyCount'[p] = 0
      BY <1>1, <1>4, <1>5, Zenon
    <3> QED
      BY <1>1, <1>3, <1>4, <1>5, <1>6, <1>7, <3>1, Apart, Zenon DEF WakeFrame, States, Blocked
  <2> QED
    BY <1>1, <1>4, <2>6, <2>7, <2>8, WakeStep, Zenon
<1>9. FamilyInv'
  <2>1. \A t \in Task : /\ state'[t] = IF t \in W THEN "AVAILABLE" ELSE IF t = p THEN "SLEEPING" ELSE state[t]
                        /\ t \in W => state[t] = "WAITING"
                        /\ t \notin W /\ t # p => wakeReason'[t] = wakeReason[t]
    BY <1>5, <1>7, Zenon
  <2>2. ExitedOnly'
    BY <1>3, <1>6, <2>1, QuietExited, Zenon DEF familyVars
  <2>3. \A t \in Task : \/ state'[t] = state[t]
                        \/ /\ state[t] \in Roaming /\ state'[t] \in Roaming
                           /\ t \in SystemTask => state'[t] # "SLEEPING"
    BY <1>1, <1>3, <2>1, Zenon DEF Roaming
  <2>4. \A t \in {Collector, Deleter} :
           state'[t] = "WAITING" => state[t] = "WAITING" /\ wakeReason'[t] = wakeReason[t]
    BY <1>1, <2>1, Apart, Zenon
  <2>5. panic' => outOfEntries
    BY <1>5, Zenon
  <2> QED
    BY <2>2, <2>3, <2>4, <2>5, QuietFamily, StillParked, Zenon
<1> QED
  BY <1>8, <1>9, Zenon

\* The awaker ends a sleep.
LEMMA AwakerWakeKeeps ==
    ASSUME PMInv, NEW e \in sleepQueue, AwakerWake(e), UNCHANGED familyVars PROVE PMInv'
<1> USE DEF PMInv
<1> DEFINE s == e.process
<1>1. /\ s \in Task /\ e \in SleepEntry /\ state[s] = "SLEEPING"
      /\ e.token = waitToken[s] /\ e.till = sleeptill[s]
  BY Zenon DEF QueueInv, TypeOK, SleepEntry, SleepersOnly
<1>2. Asleep(s) = {s}
  BY <1>1, Zenon DEF Asleep
<1>3. panic' = FALSE
  <2>1. panic' = (panic \/ (None \in Task /\ readyCount[None] > 1)) /\ ~panic
    BY Zenon DEF AwakerWake, Awaken, Resched, Running
  <2> QED
    BY <2>1, Apart, Zenon
<1>4. /\ state' = [t \in Task |-> IF t \in {s} THEN "AVAILABLE" ELSE IF t = None THEN "AVAILABLE" ELSE state[t]]
      /\ waitToken' = [t \in Task |-> IF t \in {s} THEN waitToken[t] + 1 ELSE waitToken[t]]
      /\ readyCount' = [t \in Task |-> IF t \in {s} THEN readyCount[t] + 1 ELSE readyCount[t]]
      /\ wakeReason' = [t \in Task |-> IF t \in {s} THEN ByTimeout ELSE wakeReason[t]]
  <2>1. \A t \in Task : t # None
    BY Apart, Zenon
  <2> QED
    BY <1>2, <2>1, Zenon DEF AwakerWake, Awaken, Resched
<1>5. sleepQueue' = sleepQueue \ {e} /\ UNCHANGED <<current, sleeptill, exited, now>>
  BY Zenon DEF AwakerWake
<1>6. mProcesses' = [q \in WaitQueues |-> IF q \in {} THEN {} ELSE mProcesses[q]]
  <2>1. \A q \in WaitQueues : \A x \in mProcesses[q] : x.process # s
    BY <1>1 DEF QueueInv, WaitersQueued, Waiters, EntryOf
  <2>2. \A q \in WaitQueues : {x \in mProcesses[q] : x.process # s} = mProcesses[q]
    BY <2>1, Zenon
  <2>3. mProcesses' = Dequeued(s)
    BY Zenon DEF AwakerWake
  <2> HIDE DEF s
  <2> QED
    BY <2>2, <2>3, Zenon DEF Dequeued
<1>7. QueueInv'
  <2>1. waitToken' \in [Task -> Nat] /\ readyCount' \in [Task -> Nat]
    BY <1>4 DEF QueueInv, TypeOK
  <2>2. wakeReason' \in [Task -> [timeout : BOOLEAN, waitable : WaitQueues \cup {None}]]
    BY <1>4, Zenon DEF QueueInv, TypeOK, ByTimeout
  <2>3. panic' \in BOOLEAN
    BY <1>3, Zenon
  <2>4. FrameTypes'
    BY <1>5, <2>1, <2>2, <2>3, Zenon DEF FrameTypes, QueueInv, TypeOK
  <2>5. SleepersOnly'
    <3>1. ASSUME NEW f \in sleepQueue \ {e} PROVE f.process \in Task /\ f.process # s
      <4>1. f \in SleepEntry
        BY Zenon DEF QueueInv, TypeOK
      <4>2. f.token = waitToken[f.process] /\ f.till = sleeptill[f.process]
        BY Zenon DEF QueueInv, SleepersOnly
      <4>3. f.process = e.process => f.token = e.token /\ f.till = e.till
        BY <1>1, <4>2, Zenon
      <4> QED
        BY <1>1, <4>1, <4>3 DEF SleepEntry
    <3>2. \A t \in Task : t # s => state'[t] = state[t] /\ waitToken'[t] = waitToken[t]
      BY <1>4, Apart, Zenon
    <3> QED
      BY <1>5, <3>1, <3>2, Zenon DEF SleepersOnly, QueueInv
  <2>6. WakeFrame(None, "AVAILABLE", {s}, {})
    BY <1>1, <1>4, <1>5, <1>6, Apart, Zenon DEF WakeFrame, States, Blocked
  <2> QED
    BY <1>1, <2>4, <2>5, <2>6, WakeStep
<1>8. FamilyInv'
  <2>1. \A t \in Task : /\ state'[t] = IF t = s THEN "AVAILABLE" ELSE state[t]
                        /\ t # s => wakeReason'[t] = wakeReason[t]
    BY <1>4, Apart, Zenon
  <2>2. ExitedOnly'
    BY <1>1, <1>5, <2>1, QuietExited, Zenon DEF familyVars
  <2>3. \A t \in Task : \/ state'[t] = state[t]
                        \/ /\ state[t] \in Roaming /\ state'[t] \in Roaming
                           /\ t \in SystemTask => state'[t] # "SLEEPING"
    BY <1>1, <2>1, Zenon DEF Roaming
  <2>4. \A t \in {Collector, Deleter} :
           state'[t] = "WAITING" => state[t] = "WAITING" /\ wakeReason'[t] = wakeReason[t]
    BY <2>1, Apart, Zenon
  <2>5. panic' => outOfEntries
    BY <1>3, Zenon
  <2> QED
    BY <2>2, <2>3, <2>4, <2>5, QuietFamily, StillParked, Zenon
<1> QED
  BY <1>7, <1>8, Zenon

(***************************************************************************)
(* Collecting.                                                             *)
(***************************************************************************)
\* What the search of collect() finds, and what it means that it finds nothing.
LEMMA SearchFinds ==
    ASSUME FamilyTypes, NEW p \in Task, NEW T \in SUBSET Members(children[p])
    PROVE  /\ \A c \in FirstExited(p, T) : c \in T /\ c \in Process /\ state[c] = "EXITED"
           /\ FirstExited(p, T) = {} => \A c \in T : state[c] # "EXITED"
<1> DEFINE s == children[p]
           S == {i \in DOMAIN s : s[i] \in T /\ state[s[i]] = "EXITED"}
<1>1. s \in Seq(Process) /\ DOMAIN s = 1..Len(s) /\ Len(s) \in Nat /\ \A i \in DOMAIN s : s[i] \in Process
  BY DEF FamilyTypes
<1>2. \A c \in FirstExited(p, T) : c \in T /\ c \in Process /\ state[c] = "EXITED"
  BY <1>1, Zenon DEF FirstExited
<1>3. ASSUME NEW c \in T, state[c] = "EXITED" PROVE FirstExited(p, T) # {}
  <2>1. PICK i \in DOMAIN s : s[i] = c
    BY Zenon DEF Members
  <2>2. i \in S /\ S \in SUBSET Nat
    BY <1>1, <1>3, <2>1
  <2>3. PICK m \in S : \A n \in S : m <= n
    BY <2>2, LeastNatural, Zenon
  <2>4. \A j \in 1..(m - 1) : j \notin S /\ j \in DOMAIN s
    BY <1>1, <2>2, <2>3
  <2>5. \A j \in 1..(m - 1) : ~(s[j] \in T /\ state[s[j]] = "EXITED")
    BY <2>4, Zenon
  <2>6. s[m] \in FirstExited(p, T)
    BY <2>3, <2>5, Zenon DEF FirstExited
  <2> QED
    BY <2>6, Zenon
<1> QED
  BY <1>2, <1>3, Zenon

\* A parent blocks in collect.
LEMMA AwaitExitKeeps ==
    ASSUME PMInv, NEW p \in Task \ {Deleter}, Running(p), NEW T \in SUBSET Members(children[p]),
           FirstExited(p, T) = {}, AwaitExit(p, T)
    PROVE  PMInv'
<1> USE DEF PMInv
<1>1. /\ state[p] = "AVAILABLE" /\ current = p /\ readyCount[p] > 0
      /\ (panic \/ (p \in Task /\ readyCount[p] > 1)) = FALSE
  BY RunnerOnce, Zenon
<1>2. panic' = FALSE
  BY <1>1, Zenon DEF AwaitExit, Resched
<1>3. /\ state' = [t \in Task |-> IF t \in {} THEN "AVAILABLE" ELSE IF t = p THEN "COLLECTING" ELSE state[t]]
      /\ waitToken' = [t \in Task |-> waitToken[t]]
      /\ readyCount' = [t \in Task |-> IF t = p THEN 0 ELSE readyCount[t]]
      /\ wakeReason' = [t \in Task |-> IF t = p THEN [wakeReason[t] EXCEPT !.waitable = None]
                                       ELSE wakeReason[t]]
  BY <1>1, Zenon DEF AwaitExit, Resched, Erased
<1>4. /\ collecting' = [collecting EXCEPT ![p] = T] /\ current' = Scheduler
      /\ UNCHANGED <<sleeptill, mProcesses, sleepQueue, exited, now,
                     table, ppid, children, doomed, collected, outOfEntries>>
  BY Zenon DEF AwaitExit
<1>5. QueueInv'
  <2>1. waitToken' \in [Task -> Nat] /\ readyCount' \in [Task -> Nat]
    BY <1>3, Zenon DEF QueueInv, TypeOK
  <2>2. wakeReason' \in [Task -> [timeout : BOOLEAN, waitable : WaitQueues \cup {None}]]
    BY <1>3, Zenon DEF QueueInv, TypeOK
  <2>3. panic' \in BOOLEAN
    BY <1>2, Zenon
  <2>4. FrameTypes'
    BY <1>4, <2>1, <2>2, <2>3, Zenon DEF FrameTypes, QueueInv, TypeOK
  <2>5. SleepersOnly'
    BY <1>1, <1>3, <1>4, Zenon DEF SleepersOnly, QueueInv, TypeOK, SleepEntry
  <2>6. mProcesses' = [q \in WaitQueues |-> IF q \in {} THEN {} ELSE mProcesses[q]]
    BY <1>4, Zenon DEF QueueInv, TypeOK
  <2>7. WakeFrame(p, "COLLECTING", {}, {})
    BY <1>1, <1>3, <1>4, <2>6, Apart, Zenon DEF WakeFrame, States, Blocked
  <2> QED
    BY <2>4, <2>5, <2>7, WakeStep, Zenon
<1> USE DEF FamilyInv
<1>6. /\ \A t \in Task : state'[t] = IF t = p THEN "COLLECTING" ELSE state[t]
      /\ \A t \in Task \ {p} : wakeReason'[t] = wakeReason[t] /\ collecting'[t] = collecting[t]
      /\ collecting'[p] = T
      /\ \A t \in table : t \in Task
  BY <1>3, <1>4, Zenon DEF FamilyTypes
<1>7. T \in SUBSET Process /\ \A c \in T : state[c] # "EXITED"
  <2>1. children[p] \in Seq(Process)
    BY Zenon DEF FamilyTypes
  <2> QED
    BY <2>1, SearchFinds DEF Members
<1>8. FamilyTypes'
  <2>1. panic' => outOfEntries'
    BY <1>2, Zenon
  <2> QED
    BY <1>4, <1>7, <2>1, Zenon DEF FamilyTypes
<1>9. SlotStates'
  BY <1>1, <1>4, <1>6, Zenon DEF SlotStates, Blocked
<1>10. ExitedOnly'
  BY <1>1, <1>4, <1>6, Zenon DEF ExitedOnly
<1>11. CollectsOwn'
  BY <1>1, <1>4, <1>6, Zenon DEF CollectsOwn, Blocked
<1>12. ParkPlaces'
  BY <1>1, <1>6, Apart, Zenon DEF ParkPlaces
<1>13. FamilyTree'
  <2>1. Alive' = Alive
    BY <1>1, <1>4, <1>6, Zenon DEF Alive
  <2> QED
    BY <1>1, <1>4, <1>6, <2>1 DEF FamilyTree
<1>14. NoMissedExit'
  <2>1. \A t \in table : \A c \in collecting[t] : c \in Task
    BY <1>6, Apart, Zenon DEF FamilyTypes
  <2>2. \A t \in table : state'[t] = "COLLECTING" => \A c \in collecting'[t] : state'[c] # "EXITED"
    BY <1>1, <1>6, <1>7, <2>1, Apart DEF NoMissedExit
  <2>3. state'[Collector] = "WAITING" => state[Collector] = "WAITING"
    BY <1>6, Apart, Zenon
  <2>4. state'[Deleter] = "WAITING" => state[Deleter] = "WAITING"
    BY <1>6, Apart, Zenon
  <2> QED
    BY <1>4, <2>2, <2>3, <2>4, Zenon DEF NoMissedExit
<1> QED
  BY <1>5, <1>8, <1>9, <1>10, <1>11, <1>12, <1>13, <1>14, Zenon

\* Whom WakeQueues makes ready: the waiters of the queues R, and P.
Roused(R, P) == {t \in Task : t \in P \/ (state[t] = "WAITING" /\ wakeReason[t].waitable \in R)}

\* What WakeQueues does while p changes its state.
RousedFrame(p, new, R, P) ==
    /\ state' = [t \in Task |-> IF t \in Roused(R, P) THEN "AVAILABLE"
                                ELSE IF t = p THEN new ELSE state[t]]
    /\ p \notin Roused(R, P) /\ \A t \in Roused(R, P) : state[t] \in Blocked
    /\ waitToken' \in [Task -> Nat] /\ readyCount' \in [Task -> Nat]
    /\ wakeReason' \in [Task -> [timeout : BOOLEAN, waitable : WaitQueues \cup {None}]]
    /\ \A t \in Roused(R, P) : readyCount'[t] = readyCount[t] + 1
    /\ \A t \in Task \ Roused(R, P) : /\ waitToken'[t] = waitToken[t]
                                      /\ readyCount'[t] = readyCount[t]
                                      /\ wakeReason'[t] = wakeReason[t]
    /\ mProcesses' = [q \in WaitQueues |-> IF q \in R THEN {} ELSE mProcesses[q]]

LEMMA WakeQueuesEffect ==
    ASSUME QueueInv, NEW p \in Task, NEW new, NEW R \in SUBSET WaitQueues, NEW P \in SUBSET Task,
           state[p] \notin Blocked, \A t \in P : state[t] \in Blocked,
           WakeQueues(R, P, [state EXCEPT ![p] = new])
    PROVE  RousedFrame(p, new, R, P)
<1> DEFINE V == {t \in Task : \E q \in R : t \in Woken(q)}
           U == V \cup P
<1> USE DEF QueueInv
<1>1. \A q \in R : Woken(q) = Waiters(q)
  BY WokenWait, Zenon
<1>2. \A t \in Task : t \in V <=> state[t] = "WAITING" /\ wakeReason[t].waitable \in R
  <2>1. \A t \in Task : t \in V <=> \E q \in R : t \in Waiters(q)
    BY <1>1, Zenon
  <2> QED
    BY <2>1, Zenon DEF Waiters
<1>3. U = Roused(R, P)
  BY <1>2, Zenon DEF Roused
<1>4. p \notin U /\ \A t \in U : state[t] \in Blocked
  BY <1>2, Zenon DEF Blocked
<1>5. /\ state' = [t \in Task |-> IF t \in U THEN "AVAILABLE" ELSE [state EXCEPT ![p] = new][t]]
      /\ waitToken' = [t \in Task |-> IF t \in U THEN waitToken[t] + 1 ELSE waitToken[t]]
      /\ readyCount' = [t \in Task |-> IF t \in U THEN readyCount[t] + 1 ELSE readyCount[t]]
      /\ wakeReason' = [t \in Task |-> IF t \in V THEN BySignal(CHOOSE q \in R : t \in Woken(q))
                                       ELSE wakeReason[t]]
      /\ mProcesses' = [q \in WaitQueues |-> IF q \in R THEN {} ELSE mProcesses[q]]
  BY Zenon DEF WakeQueues
<1>6. \A t \in Task : t \in V => (CHOOSE q \in R : t \in Woken(q)) \in R
  BY Zenon
<1> HIDE DEF V
<1>7. wakeReason' \in [Task -> [timeout : BOOLEAN, waitable : WaitQueues \cup {None}]]
  <2>1. ASSUME NEW t \in Task PROVE wakeReason'[t] \in [timeout : BOOLEAN, waitable : WaitQueues \cup {None}]
    <3>1. CASE t \in V
      <4>1. PICK q \in WaitQueues : wakeReason'[t] = BySignal(q)
        BY <1>5, <1>6, <3>1, Zenon
      <4> QED
        BY <4>1 DEF BySignal
    <3>2. CASE t \notin V
      BY <1>5, <3>2, Zenon DEF TypeOK
    <3> QED
      BY <3>1, <3>2, Zenon
  <2>2. wakeReason' = [t \in Task |-> wakeReason'[t]]
    BY <1>5
  <2> QED
    BY <2>1, <2>2, Zenon
<1>8. state' = [t \in Task |-> IF t \in U THEN "AVAILABLE" ELSE IF t = p THEN new ELSE state[t]]
  BY <1>5, Zenon DEF TypeOK
<1>9. waitToken' \in [Task -> Nat] /\ readyCount' \in [Task -> Nat]
  BY <1>5 DEF TypeOK
<1>10. \A t \in Task \ U : /\ waitToken'[t] = waitToken[t] /\ readyCount'[t] = readyCount[t]
                           /\ wakeReason'[t] = wakeReason[t]
  BY <1>5, Zenon
<1>11. \A t \in U : readyCount'[t] = readyCount[t] + 1
  <2>1. U \subseteq Task
    BY <1>3, Zenon DEF Roused
  <2> QED
    BY <1>5, <2>1, Zenon
<1> QED
  BY <1>3, <1>4, <1>5, <1>7, <1>8, <1>9, <1>10, <1>11, Zenon DEF RousedFrame

\* A parent reaps a child: the queues.
LEMMA ReapQueues ==
    ASSUME QueueInv, NEW p \in Task, Running(p), NEW c \in Task, state[c] = "EXITED", c \in exited,
           Reap(p, c)
    PROVE  /\ QueueInv'
           /\ state' = [t \in Task |-> IF t \in Roused({DeleterQueue}, {}) THEN "AVAILABLE"
                                       ELSE IF t = c THEN "COLLECTED" ELSE state[t]]
           /\ c \notin Roused({DeleterQueue}, {})
           /\ \A t \in Task \ Roused({DeleterQueue}, {}) : wakeReason'[t] = wakeReason[t]
<1> DEFINE W == Roused({DeleterQueue}, {})
<1>1. /\ WakeQueues({DeleterQueue}, {}, [state EXCEPT ![c] = "COLLECTED"])
      /\ exited' = exited \ {c}
      /\ UNCHANGED <<current, sleeptill, sleepQueue, now, panic>>
  BY Zenon DEF Reap
<1>2. state[p] = "AVAILABLE" /\ current = p /\ p # c
  BY RunnerOnce, Zenon
<1>3. /\ {DeleterQueue} \in SUBSET WaitQueues /\ {} \in SUBSET Task
      /\ state[c] \notin Blocked /\ \A t \in {} : state[t] \in Blocked
  BY Apart, Zenon DEF Blocked
<1>4. /\ state' = [t \in Task |-> IF t \in W THEN "AVAILABLE" ELSE IF t = c THEN "COLLECTED" ELSE state[t]]
      /\ c \notin W /\ \A t \in W : state[t] \in Blocked
      /\ waitToken' \in [Task -> Nat] /\ readyCount' \in [Task -> Nat]
      /\ wakeReason' \in [Task -> [timeout : BOOLEAN, waitable : WaitQueues \cup {None}]]
      /\ \A t \in W : readyCount'[t] = readyCount[t] + 1
      /\ \A t \in Task \ W : /\ waitToken'[t] = waitToken[t]
                             /\ readyCount'[t] = readyCount[t]
                             /\ wakeReason'[t] = wakeReason[t]
      /\ mProcesses' = [q \in WaitQueues |-> IF q \in {DeleterQueue} THEN {} ELSE mProcesses[q]]
  <2>1. RousedFrame(c, "COLLECTED", {DeleterQueue}, {})
    BY <1>1, <1>3, WakeQueuesEffect, Zenon
  <2> QED
    BY <2>1, Zenon DEF RousedFrame
<1>5. \A t \in Task : t \in W <=> state[t] = "WAITING" /\ wakeReason[t].waitable \in {DeleterQueue}
  BY Zenon DEF Roused
<1>6. W \in SUBSET Task
  BY Zenon DEF Roused
<1> HIDE DEF W
<1>7. QueueInv'
  <2>1. FrameTypes'
    BY <1>1, <1>4, Zenon DEF FrameTypes, QueueInv, TypeOK
  <2>2. SleepersOnly'
    <3>1. \A e \in sleepQueue : e.process \in Task /\ e.process \notin W /\ e.process # c
      BY <1>5, Zenon DEF SleepersOnly, QueueInv, TypeOK, SleepEntry
    <3> QED
      BY <1>1, <1>4, <3>1, Zenon DEF SleepersOnly, QueueInv
  <2>3. readyCount'[c] = 0
    BY <1>4, Zenon DEF QueueInv, ReadyOnce
  <2>4. WakeFrame(c, "COLLECTED", W, {DeleterQueue})
    BY <1>1, <1>2, <1>4, <1>5, <1>6, <2>3, Zenon DEF WakeFrame, States
  <2> QED
    BY <1>3, <1>6, <2>1, <2>2, <2>4, WakeStep, Zenon
<1> QED
  BY <1>4, <1>7, Zenon DEF W

\* A parent reaps a child: the family.
LEMMA ReapKeeps ==
    ASSUME PMInv, NEW p \in Task, Running(p), NEW c \in Members(children[p]), state[c] = "EXITED",
           Reap(p, c)
    PROVE  PMInv'
<1> USE DEF PMInv, FamilyInv
<1> DEFINE W == Roused({DeleterQueue}, {})
<1>1. /\ c \in Process /\ c \in Task /\ c \in table /\ ppid[c] = p
      /\ ListedOnce(c, children[p])
  <2>1. children[p] \in Seq(Process)
    BY Zenon DEF FamilyTypes
  <2>2. c \in Process
    BY <2>1 DEF Members
  <2>3. c \in table /\ state[c] # "COLLECTED" /\ ppid[c] = p
    BY Zenon DEF FamilyTree
  <2> QED
    BY <2>2, <2>3, Apart, Zenon DEF FamilyTree
<1>2. state[p] = "AVAILABLE" /\ current = p /\ p # c /\ p # Scheduler
  BY RunnerOnce, Apart, Zenon
<1>3. c \in exited
  BY <1>1, <1>2, Zenon DEF ExitedOnly
<1>4. /\ QueueInv'
      /\ state' = [t \in Task |-> IF t \in W THEN "AVAILABLE" ELSE IF t = c THEN "COLLECTED" ELSE state[t]]
      /\ c \notin W /\ \A t \in Task \ W : wakeReason'[t] = wakeReason[t]
  BY <1>1, <1>3, ReapQueues, Zenon
<1>5. /\ exited' = exited \ {c} /\ children' = [children EXCEPT ![p] = Without(@, c)]
      /\ collecting' = [collecting EXCEPT ![p] = {}] /\ collected' = collected \cup {c}
      /\ UNCHANGED <<current, panic, table, ppid, doomed, outOfEntries>>
  BY Zenon DEF Reap
<1>6. \A t \in Task : t \in W <=> state[t] = "WAITING" /\ wakeReason[t].waitable = DeleterQueue
  BY Zenon DEF Roused
<1> HIDE DEF W
<1>7. /\ \A t \in Task : state'[t] = IF t \in W THEN "AVAILABLE" ELSE IF t = c THEN "COLLECTED" ELSE state[t]
      /\ \A t \in table : t \in Task
      /\ \A t \in Task \ {p} : children'[t] = children[t] /\ collecting'[t] = collecting[t]
      /\ collecting'[p] = {} /\ children'[p] = Without(children[p], c)
      /\ Without(children[p], c) \in Seq(Process)
      /\ Members(children'[p]) = Members(children[p]) \ {c}
      /\ \A x \in Members(children[p]) \ {c} :
            ListedOnce(x, children[p]) => ListedOnce(x, Without(children[p], c))
  <2>1. children[p] \in Seq(Process)
    BY Zenon DEF FamilyTypes
  <2> QED
    BY <1>1, <1>4, <1>5, <2>1, TakeChild, Zenon DEF FamilyTypes
<1>8. FamilyTypes'
  BY <1>1, <1>5, <1>7 DEF FamilyTypes
<1>9. SlotStates'
  BY <1>1, <1>5, <1>6, <1>7, Apart DEF SlotStates, Blocked
<1>10. ExitedOnly'
  BY <1>1, <1>5, <1>6, <1>7 DEF ExitedOnly
<1>11. CollectsOwn'
  <2>1. \A t \in Task : state'[t] \in Blocked \cup {"AVAILABLE"} => state[t] \in Blocked \cup {"AVAILABLE"}
    BY <1>6, <1>7, Zenon DEF Blocked
  <2> QED
    BY <1>7, <2>1, Zenon DEF CollectsOwn
<1>12. ParkPlaces'
  BY <1>4, <1>7, Apart, Zenon DEF ParkPlaces
<1>13. FamilyTree'
  <2>1. Alive' = Alive
    BY <1>5, <1>6, <1>7, Zenon DEF Alive
  <2>2. ASSUME NEW x \in Process \cap table, state'[x] # "COLLECTED"
        PROVE  ppid[x] \in Alive /\ ListedOnce(x, children'[ppid[x]])
    <3>1. x # c /\ state[x] # "COLLECTED"
      BY <1>1, <1>4, <1>6, <1>7, <2>2, Zenon
    <3>2. ppid[x] \in Alive /\ ListedOnce(x, children[ppid[x]]) /\ ppid[x] \in Task
      BY <1>7, <3>1, Zenon DEF FamilyTree, FamilyTypes
    <3>3. CASE ppid[x] = p
      <4>1. x \in Members(children[p])
        BY <3>2, <3>3, Zenon DEF ListedOnce, Members
      <4> QED
        BY <1>7, <3>1, <3>2, <3>3, <4>1, Zenon
    <3>4. CASE ppid[x] # p
      BY <1>7, <3>2, <3>4, Zenon
    <3> QED
      BY <3>3, <3>4, Zenon
  <2>3. ASSUME NEW t \in Task, NEW x \in Members(children'[t])
        PROVE  x \in table /\ state'[x] # "COLLECTED" /\ ppid[x] = t
    <3>1. x \in Members(children[t]) /\ x # c
      <4>1. CASE t = p
        BY <1>7, <4>1, Zenon
      <4>2. CASE t # p
        BY <1>1, <1>7, <4>2 DEF FamilyTree
      <4> QED
        BY <4>1, <4>2, Zenon
    <3>2. x \in table /\ state[x] # "COLLECTED" /\ ppid[x] = t
      BY <3>1, Zenon DEF FamilyTree
    <3> QED
      BY <1>7, <3>1, <3>2, Zenon
  <2>4. current' # Scheduler => exited' = {t \in table' : state'[t] = "EXITED"}
    BY <1>10, Zenon DEF ExitedOnly
  <2> QED
    BY <1>5, <2>1, <2>2, <2>3, <2>4, Zenon DEF FamilyTree
<1>14. NoMissedExit'
  <2>1. ASSUME NEW t \in table, state'[t] = "COLLECTING", NEW x \in collecting'[t]
        PROVE  state'[x] # "EXITED"
    <3>1. t # p /\ state[t] = "COLLECTING" /\ x \in collecting[t] /\ x \in Task
      BY <1>2, <1>6, <1>7, <2>1, Apart, Zenon DEF FamilyTypes
    <3>2. state[x] # "EXITED"
      BY <3>1, Zenon DEF NoMissedExit
    <3> QED
      BY <1>7, <3>1, <3>2, Zenon
  <2>2. state'[Collector] = "WAITING" => state[Collector] = "WAITING" /\ children'[Collector] = children[Collector]
    BY <1>2, <1>7, Apart, Zenon
  <2>3. state'[Deleter] # "WAITING"
    BY <1>6, <1>7, Apart, Zenon DEF ParkPlaces
  <2> QED
    BY <1>5, <2>1, <2>2, <2>3, Zenon DEF NoMissedExit
<1> QED
  BY <1>4, <1>8, <1>9, <1>10, <1>11, <1>12, <1>13, <1>14, Zenon

\* The deleter frees the slots on its list and parks.
LEMMA DeleterKeeps == ASSUME PMInv, DeleterStep PROVE PMInv'
<1> USE DEF PMInv, FamilyInv
<1>1. /\ Wait(Deleter, DeleterQueue) /\ Deleter \in Task /\ DeleterQueue \in WaitQueues
      /\ table' = table \ collected /\ collected' = {}
      /\ UNCHANGED <<ppid, children, collecting, doomed, outOfEntries>>
  BY Apart, Zenon DEF DeleterStep, Freed
<1>2. /\ QueueInv'
      /\ state' = [t \in Task |-> IF t = Deleter THEN "WAITING" ELSE state[t]]
      /\ wakeReason'[Deleter].waitable = DeleterQueue
      /\ \A t \in Task \ {Deleter} : wakeReason'[t] = wakeReason[t]
      /\ panic' = FALSE /\ current' = Scheduler /\ exited' = exited
      /\ state[Deleter] = "AVAILABLE"
  BY <1>1, WaitQueuesKept, Zenon
<1>3. /\ \A t \in Task : state'[t] = IF t = Deleter THEN "WAITING" ELSE state[t]
      /\ \A t \in table : t \in Task
      /\ \A t \in Task : t \in collected <=> t \in table /\ state[t] = "COLLECTED"
      /\ Deleter \in Task \ Process
  BY <1>2, Apart, Zenon DEF FamilyTypes, SlotStates
<1>4. FamilyTypes'
  <2>1. panic' => outOfEntries'
    BY <1>2, Zenon
  <2>2. SystemTask \subseteq table'
    BY <1>1, Apart, Zenon DEF FamilyTypes
  <2> QED
    BY <1>1, <2>1, <2>2, Zenon DEF FamilyTypes
<1>5. SlotStates'
  BY <1>1, <1>2, <1>3, Zenon DEF SlotStates, Blocked
<1>6. ExitedOnly'
  BY <1>1, <1>2, <1>3, Zenon DEF ExitedOnly
<1>7. CollectsOwn'
  BY <1>1, <1>2, <1>3, Zenon DEF CollectsOwn, Blocked
<1>8. ParkPlaces'
  BY <1>2, <1>3, Apart, Zenon DEF ParkPlaces
<1>9. FamilyTree'
  <2>1. Alive' = Alive
    BY <1>1, <1>2, <1>3, Zenon DEF Alive
  <2> QED
    BY <1>1, <1>2, <1>3, <2>1, Zenon DEF FamilyTree
<1>10. NoMissedExit'
  <2>1. \A t \in table : \A c \in collecting[t] : c \in Task /\ c # Deleter
    BY <1>3, Apart DEF FamilyTypes
  <2>2. \A t \in table' : state'[t] = "COLLECTING" => \A c \in collecting'[t] : state'[c] # "EXITED"
    BY <1>1, <1>3, <2>1, Zenon DEF NoMissedExit
  <2> QED
    BY <1>1, <1>3, <2>2, Apart, Zenon DEF NoMissedExit
<1> QED
  BY <1>2, <1>4, <1>5, <1>6, <1>7, <1>8, <1>9, <1>10, Zenon

(***************************************************************************)
(* Birth and death.                                                        *)
(***************************************************************************)
LEMMA SpawnFailsKeeps == ASSUME PMInv, NEW p, SpawnFails(p) PROVE PMInv'
<1> USE DEF PMInv
<1>1. /\ panic' = TRUE /\ outOfEntries' = TRUE
      /\ UNCHANGED <<current, state, waitToken, wakeReason, sleeptill, readyCount,
                     mProcesses, sleepQueue, exited, now, table, ppid, children,
                     collecting, doomed, collected>>
  BY Zenon DEF SpawnFails
<1>2. panic' \in BOOLEAN /\ (panic' => outOfEntries')
  BY <1>1, Zenon
<1>3. QueueInv'
  BY <1>1, <1>2, StillQueues, Zenon DEF QueueInv, TypeOK
<1>4. FamilyTypes'
  BY <1>1, <1>2, Zenon DEF FamilyInv, FamilyTypes
<1>5. SlotStates' /\ ExitedOnly' /\ CollectsOwn' /\ ParkPlaces' /\ FamilyTree' /\ NoMissedExit'
  BY <1>1 DEF FamilyInv, SlotStates, ExitedOnly, CollectsOwn, ParkPlaces, FamilyTree,
              Alive, NoMissedExit
<1> QED
  BY <1>3, <1>4, <1>5, Zenon DEF FamilyInv

\* A process or init spawns a child in a free slot.
LEMMA SpawnKeeps ==
    ASSUME PMInv, NEW p \in Process \cup {Root}, NEW c \in Process, Spawn(p, c) PROVE PMInv'
<1> USE DEF PMInv, FamilyInv
<1>1. /\ Running(p) /\ c \in Process \ table /\ p \in Task /\ c \in Task
      /\ p # Collector /\ c # Collector /\ c # Deleter /\ c \notin SystemTask
  BY Apart, Zenon DEF Spawn
<1>2. state[p] = "AVAILABLE" /\ current = p /\ p # Scheduler
  BY <1>1, RunnerOnce, Apart, Zenon
<1>3. p \in table /\ c \notin table /\ p # c /\ state[c] \in {"NEW", "COLLECTED"}
  BY <1>1, <1>2, Zenon DEF SlotStates
<1>4. /\ state' = [state EXCEPT ![c] = "AVAILABLE"]
      /\ waitToken' = [waitToken EXCEPT ![c] = 1]
      /\ wakeReason' = [wakeReason EXCEPT ![c] = [timeout |-> FALSE, waitable |-> None]]
      /\ sleeptill' = [sleeptill EXCEPT ![c] = 0]
      /\ readyCount' = [readyCount EXCEPT ![c] = @ + 1]
      /\ UNCHANGED <<current, mProcesses, sleepQueue, exited, now, panic>>
  BY Zenon DEF Spawn
<1>5. QueueInv'
  <2> USE DEF QueueInv
  <2>1. waitToken' \in [Task -> Nat] /\ readyCount' \in [Task -> Nat] /\ sleeptill' \in [Task -> Nat]
    <3>1. waitToken \in [Task -> Nat] /\ readyCount \in [Task -> Nat] /\ sleeptill \in [Task -> Nat]
      BY Zenon DEF TypeOK
    <3> QED
      BY ONLY <1>1, <1>4, <3>1
  <2>2. wakeReason' \in [Task -> [timeout : BOOLEAN, waitable : WaitQueues \cup {None}]]
    BY <1>4, Zenon DEF TypeOK
  <2>3. FrameTypes'
    BY <1>4, <2>1, <2>2, Zenon DEF FrameTypes, TypeOK
  <2>4. SleepersOnly'
    <3>1. \A e \in sleepQueue : e.process \in Task /\ e.process # c
      BY <1>3, Zenon DEF SleepersOnly, TypeOK, SleepEntry
    <3> QED
      BY <1>4, <3>1, Zenon DEF SleepersOnly, TypeOK
  <2>5. readyCount'[c] = 1
    <3>1. readyCount[c] = 0
      BY <1>1, <1>3, Zenon DEF ReadyOnce
    <3> QED
      BY <1>1, <1>4, <3>1 DEF TypeOK
  <2>6. /\ state' = [t \in Task |-> IF t \in {} THEN "AVAILABLE" ELSE IF t = c THEN "AVAILABLE" ELSE state[t]]
        /\ mProcesses' = [q \in WaitQueues |-> IF q \in {} THEN {} ELSE mProcesses[q]]
    BY <1>4, Zenon DEF TypeOK
  <2>7. \A t \in Task \ {c} : /\ waitToken'[t] = waitToken[t] /\ readyCount'[t] = readyCount[t]
                              /\ wakeReason'[t] = wakeReason[t]
    BY <1>4, Zenon DEF TypeOK
  <2>8. WakeFrame(c, "AVAILABLE", {}, {})
    BY <1>1, <1>3, <1>4, <2>5, <2>6, <2>7, Zenon DEF WakeFrame, States
  <2> QED
    BY <2>3, <2>4, <2>8, WakeStep
<1>6. /\ table' = table \cup {c} /\ ppid' = [ppid EXCEPT ![c] = p]
      /\ children' = [children EXCEPT ![c] = <<>>, ![p] = Append(@, c)]
      /\ collecting' = [collecting EXCEPT ![c] = {}] /\ doomed' = [doomed EXCEPT ![c] = FALSE]
      /\ UNCHANGED <<collected, outOfEntries>>
  BY Zenon DEF Spawn
<1>7. /\ \A t \in Task : state'[t] = IF t = c THEN "AVAILABLE" ELSE state[t]
      /\ \A t \in Task : ppid'[t] = IF t = c THEN p ELSE ppid[t]
      /\ \A t \in Task : collecting'[t] = IF t = c THEN {} ELSE collecting[t]
      /\ \A t \in Task : t # c => wakeReason'[t] = wakeReason[t]
      /\ \A t \in table : t \in Task
  BY <1>4, <1>6, Zenon DEF FamilyTypes, QueueInv, TypeOK
<1>8. c \notin Members(children[p])
  BY <1>1, <1>3, Zenon DEF FamilyTree
<1>9. /\ children[p] \in Seq(Process) /\ Append(children[p], c) \in Seq(Process)
      /\ Members(Append(children[p], c)) = Members(children[p]) \cup {c}
      /\ ListedOnce(c, Append(children[p], c))
      /\ \A x \in Members(children[p]) : ListedOnce(x, children[p]) => ListedOnce(x, Append(children[p], c))
  <2>1. children[p] \in Seq(Process)
    BY <1>1, Zenon DEF FamilyTypes
  <2> QED
    BY <1>8, <2>1, AppendChild, Zenon
<1>10. /\ \A t \in Task : children'[t] = IF t = p THEN Append(children[p], c)
                                         ELSE IF t = c THEN <<>> ELSE children[t]
       /\ children' \in [Task -> Seq(Process)]
  <2>1. children \in [Task -> Seq(Process)] /\ <<>> \in Seq(Process)
    BY DEF FamilyTypes
  <2>2. children' = [t \in Task |-> IF t = p THEN Append(children[p], c)
                                   ELSE IF t = c THEN <<>> ELSE children[t]]
    BY ONLY <1>1, <1>3, <1>6, <2>1, Zenon
  <2> QED
    BY ONLY <1>9, <2>1, <2>2, Zenon
<1>11. FamilyTypes'
  BY <1>1, <1>4, <1>6, <1>10, Zenon DEF FamilyTypes
<1>12. SlotStates'
  BY <1>1, <1>3, <1>6, <1>7, Zenon DEF SlotStates, Blocked
<1>13. ExitedOnly'
  BY <1>3, <1>4, <1>6, <1>7 DEF ExitedOnly
<1>14. CollectsOwn'
  BY <1>3, <1>7, <1>9, <1>10, Zenon DEF CollectsOwn, Blocked
<1>15. ParkPlaces'
  BY <1>1, <1>7, Apart, Zenon DEF ParkPlaces
<1>16. FamilyTree'
  <2>1. Alive' = Alive \cup {c}
    BY <1>1, <1>3, <1>6, <1>7, Zenon DEF Alive
  <2>2. p \in Alive
    BY <1>2, <1>3, Zenon DEF Alive
  <2>3. ASSUME NEW x \in Process \cap table', state'[x] # "COLLECTED"
        PROVE  ppid'[x] \in Alive' /\ ListedOnce(x, children'[ppid'[x]])
    <3>1. CASE x = c
      BY <1>1, <1>7, <1>9, <1>10, <2>1, <2>2, <3>1, Zenon
    <3>2. CASE x # c
      <4>1. x \in Process \cap table /\ x \in Task /\ state[x] # "COLLECTED" /\ ppid'[x] = ppid[x]
        BY <1>6, <1>7, <2>3, <3>2, Zenon
      <4>2. ppid[x] \in Alive /\ ListedOnce(x, children[ppid[x]])
        BY <4>1, Zenon DEF FamilyTree
      <4>3. ppid[x] \in Task /\ ppid[x] # c
        BY <1>3, <1>7, <4>2, Zenon DEF Alive
      <4>4. CASE ppid[x] = p
        <5>1. x \in Members(children[p])
          BY <4>2, <4>4, Zenon DEF ListedOnce, Members
        <5> QED
          BY <1>9, <1>10, <2>1, <4>1, <4>2, <4>3, <4>4, <5>1, Zenon
      <4>5. CASE ppid[x] # p
        BY <1>10, <2>1, <4>1, <4>2, <4>3, <4>5, Zenon
      <4> QED
        BY <4>4, <4>5, Zenon
    <3> QED
      BY <3>1, <3>2, Zenon
  <2>4. ASSUME NEW t \in Task, NEW x \in Members(children'[t])
        PROVE  x \in table' /\ state'[x] # "COLLECTED" /\ ppid'[x] = t
    <3>1. t # c
      <4>1. Members(<<>>) = {}
        BY DEF Members
      <4> QED
        BY <1>3, <1>10, <2>4, <4>1, Zenon
    <3>2. x \in Members(children[t]) \/ (x = c /\ t = p)
      BY <1>9, <1>10, <3>1, Zenon
    <3>3. CASE x \in Members(children[t])
      <4>1. x \in table /\ state[x] # "COLLECTED" /\ ppid[x] = t
        BY <3>3, Zenon DEF FamilyTree
      <4> QED
        BY <1>3, <1>6, <1>7, <4>1
    <3>4. CASE x = c /\ t = p
      BY <1>1, <1>6, <1>7, <3>4, Zenon
    <3> QED
      BY <3>2, <3>3, <3>4, Zenon
  <2>5. current' # Scheduler => exited' = {t \in table' : state'[t] = "EXITED"}
    BY <1>13, Zenon DEF ExitedOnly
  <2> QED
    BY <2>3, <2>4, <2>5, Zenon DEF FamilyTree
<1>17. NoMissedExit'
  <2>1. ASSUME NEW t \in table', state'[t] = "COLLECTING", NEW x \in collecting'[t]
        PROVE  state'[x] # "EXITED"
    <3>1. t # c /\ t \in table /\ t \in Task /\ state[t] = "COLLECTING" /\ x \in collecting[t]
      BY <1>1, <1>6, <1>7, <2>1, Zenon
    <3>2. x \in Task /\ state[x] # "EXITED"
      BY <3>1, Apart, Zenon DEF NoMissedExit, FamilyTypes
    <3> QED
      BY <1>7, <3>2, Zenon
  <2>2. /\ state'[Collector] = state[Collector] /\ children'[Collector] = children[Collector]
        /\ state'[Deleter] = state[Deleter]
    BY <1>1, <1>7, <1>10, Apart, Zenon
  <2> QED
    BY <1>6, <2>1, <2>2, Zenon DEF NoMissedExit
<1> QED
  BY <1>5, <1>11, <1>12, <1>13, <1>14, <1>15, <1>16, <1>17, Zenon

\* A process exits: the queues.
LEMMA ExitQueues ==
    ASSUME PMInv, NEW p \in Process, NEW Q \in SUBSET ObjectQueues, Exit(p, Q)
    PROVE  /\ QueueInv'
           /\ RousedFrame(p, "EXITED", ExitWakes(p, Q), WaitingParent(p))
           /\ state[p] = "AVAILABLE" /\ ExitWakes(p, Q) \in SUBSET WaitQueues
<1> DEFINE R == ExitWakes(p, Q)
           P == WaitingParent(p)
           W == Roused(R, P)
<1>1. /\ Running(p) /\ WakeQueues(R, P, [state EXCEPT ![p] = "EXITED"]) /\ current' = Scheduler
      /\ UNCHANGED <<sleeptill, sleepQueue, exited, now, panic>>
  BY Zenon DEF Exit
<1>2. p \in Task /\ R \in SUBSET WaitQueues
  BY Apart, Zenon DEF ExitWakes
<1>3. state[p] = "AVAILABLE" /\ state[p] \notin Blocked /\ readyCount[p] = 1
  BY <1>1, <1>2, RunnerOnce, Zenon DEF PMInv, Blocked
<1>4. P \in SUBSET Task /\ \A t \in P : state[t] = "COLLECTING" /\ state[t] \in Blocked
  BY <1>2, Zenon DEF WaitingParent, PMInv, FamilyInv, FamilyTypes, Blocked
<1>5. W \in SUBSET Task
  BY Zenon DEF Roused
<1>6. \A t \in Task : t \in W <=> t \in P \/ (state[t] = "WAITING" /\ wakeReason[t].waitable \in R)
  BY Zenon DEF Roused
<1> HIDE DEF R, P
<1>7. RousedFrame(p, "EXITED", R, P)
  BY <1>1, <1>2, <1>3, <1>4, WakeQueuesEffect, Zenon DEF PMInv
<1>8. /\ state' = [t \in Task |-> IF t \in W THEN "AVAILABLE" ELSE IF t = p THEN "EXITED" ELSE state[t]]
      /\ p \notin W /\ \A t \in W : state[t] \in Blocked
      /\ waitToken' \in [Task -> Nat] /\ readyCount' \in [Task -> Nat]
      /\ wakeReason' \in [Task -> [timeout : BOOLEAN, waitable : WaitQueues \cup {None}]]
      /\ \A t \in W : readyCount'[t] = readyCount[t] + 1
      /\ \A t \in Task \ W : /\ waitToken'[t] = waitToken[t]
                             /\ readyCount'[t] = readyCount[t]
                             /\ wakeReason'[t] = wakeReason[t]
      /\ mProcesses' = [q \in WaitQueues |-> IF q \in R THEN {} ELSE mProcesses[q]]
  BY <1>7, Zenon DEF RousedFrame
<1> HIDE DEF W
<1>9. QueueInv'
  <2> USE DEF PMInv, QueueInv
  <2>1. FrameTypes'
    BY <1>1, <1>8, Zenon DEF FrameTypes, TypeOK
  <2>2. SleepersOnly'
    <3>1. \A e \in sleepQueue : e.process \in Task /\ e.process \notin W /\ e.process # p
      BY <1>3, <1>4, <1>6, Zenon DEF SleepersOnly, TypeOK, SleepEntry
    <3> QED
      BY <1>1, <1>8, <3>1, Zenon DEF SleepersOnly
  <2>3. readyCount'[p] = 1 /\ p \notin exited'
    BY <1>1, <1>2, <1>3, <1>8, Zenon DEF FamilyInv, ExitedOnly
  <2>4. /\ \A t \in W : state[t] = "WAITING" => wakeReason[t].waitable \in R
        /\ \A t \in Task : state[t] = "WAITING" /\ wakeReason[t].waitable \in R => t \in W
    BY <1>4, <1>5, <1>6, Zenon
  <2>5. current' = Scheduler /\ Scheduler # p /\ "EXITED" \in States \ {"WAITING"}
    BY <1>1, <1>2, Apart, Zenon DEF States
  <2>6. WakeFrame(p, "EXITED", W, R)
    BY ONLY <1>1, <1>3, <1>5, <1>8, <2>3, <2>4, <2>5, Zenon DEF WakeFrame
  <2> QED
    BY <1>2, <1>5, <2>1, <2>2, <2>6, WakeStep, Zenon
<1> QED
  BY <1>2, <1>3, <1>7, <1>9, Zenon DEF R, P

\* A process exits: the family.
LEMMA ExitKeeps ==
    ASSUME PMInv, NEW p \in Process, NEW Q \in SUBSET ObjectQueues, Exit(p, Q) PROVE PMInv'
<1> DEFINE R == ExitWakes(p, Q)
           P == WaitingParent(p)
           W == Roused(R, P)
           kids == Members(children[p])
<1> USE DEF PMInv, FamilyInv
<1>1. /\ QueueInv' /\ RousedFrame(p, "EXITED", R, P) /\ state[p] = "AVAILABLE"
  BY ExitQueues, Zenon
<1>2. /\ children' = [children EXCEPT ![Collector] = @ \o children[p], ![p] = <<>>]
      /\ ppid' = [t \in Task |-> IF t \in kids THEN Collector ELSE ppid[t]]
      /\ current' = Scheduler
      /\ UNCHANGED <<exited, panic, table, collecting, doomed, collected, outOfEntries>>
  BY Zenon DEF Exit, Adopted, Orphaned
<1>3. p \in Task /\ p \in table /\ p # Collector /\ p # Deleter /\ Collector \in Task /\ Deleter \in Task
  BY <1>1, Apart, Zenon DEF SlotStates
<1>4. /\ \A t \in Task : t \in W => state[t] \in Blocked
      /\ \A t \in Task : state'[t] = IF t \in W THEN "AVAILABLE" ELSE IF t = p THEN "EXITED" ELSE state[t]
      /\ \A t \in Task \ W : wakeReason'[t] = wakeReason[t]
      /\ p \notin W
  BY <1>1, Zenon DEF RousedFrame
<1>5. /\ \A t \in Task : state[t] = "WAITING" /\ wakeReason[t].waitable \in R => t \in W
      /\ ppid[p] \in Task /\ state[ppid[p]] = "COLLECTING" => ppid[p] \in W
  BY Zenon DEF Roused, WaitingParent
<1>6. children[p] # <<>> => CollectorQueue \in R
  BY Zenon DEF ExitWakes
<1> HIDE DEF R, P, W, kids
<1>7. \A t \in table : t \in Task
  BY Zenon DEF FamilyTypes
<1>8. /\ children[Collector] \o children[p] \in Seq(Process)
      /\ Members(children[Collector] \o children[p]) = Members(children[Collector]) \cup kids
      /\ \A x \in Members(children[Collector]) : ListedOnce(x, children[Collector]) =>
            ListedOnce(x, children[Collector] \o children[p])
      /\ \A x \in kids : ListedOnce(x, children[p]) => ListedOnce(x, children[Collector] \o children[p])
      /\ children[Collector] = <<>> /\ children[p] = <<>> => children[Collector] \o children[p] = <<>>
  <2>1. children[Collector] \in Seq(Process) /\ children[p] \in Seq(Process)
    BY <1>3, Zenon DEF FamilyTypes
  <2>2. Members(children[Collector]) \cap Members(children[p]) = {}
    BY <1>3 DEF FamilyTree
  <2> QED
    BY ONLY <2>1, <2>2, JoinChildren, Zenon DEF kids
<1>9. /\ children' \in [Task -> Seq(Process)]
      /\ \A t \in Task : children'[t] = IF t = p THEN <<>>
                            ELSE IF t = Collector THEN children[Collector] \o children[p] ELSE children[t]
  <2>1. children \in [Task -> Seq(Process)] /\ <<>> \in Seq(Process)
    BY DEF FamilyTypes
  <2>2. children' = [t \in Task |-> IF t = p THEN <<>>
                        ELSE IF t = Collector THEN children[Collector] \o children[p] ELSE children[t]]
    BY ONLY <1>2, <1>3, <2>1, Zenon
  <2> QED
    BY ONLY <1>8, <2>1, <2>2, Zenon
<1>10. FamilyTypes'
  BY <1>2, <1>3, <1>9, Zenon DEF FamilyTypes
<1>11. SlotStates'
  BY <1>1, <1>2, <1>3, <1>4, Apart DEF SlotStates, Blocked
<1>12. ExitedOnly'
  <2>1. \A t \in exited : t \in table /\ t \in Task /\ state[t] = "EXITED"
    BY <1>7, Zenon DEF ExitedOnly
  <2>2. \A t \in exited : state'[t] = "EXITED"
    BY <1>4, <2>1, Zenon DEF Blocked
  <2> QED
    BY <1>2, <2>1, <2>2, Zenon DEF ExitedOnly
<1>13. CollectsOwn'
  <2> SUFFICES ASSUME NEW t \in Task, state'[t] \in Blocked \cup {"AVAILABLE"}
               PROVE  collecting'[t] \subseteq Members(children'[t])
    BY Zenon DEF CollectsOwn
  <2>1. t # p /\ state[t] \in Blocked \cup {"AVAILABLE"}
    BY <1>4, Zenon DEF Blocked
  <2>2. Members(children[t]) \subseteq Members(children'[t])
    BY <1>8, <1>9, <2>1, Zenon
  <2> QED
    BY <1>2, <2>1, <2>2, Zenon DEF CollectsOwn
<1>14. ParkPlaces'
  BY <1>3, <1>4, Zenon DEF ParkPlaces
<1>15. FamilyTree'
  <2>1. Alive' = Alive \ {p}
    BY <1>2, <1>3, <1>4, <1>7, Zenon DEF Alive, Blocked
  <2>2. Collector \in Alive \ {p}
    BY <1>3, Apart, Zenon DEF Alive, FamilyTypes, SlotStates
  <2>3. \A t \in Task : state'[t] = "COLLECTED" <=> state[t] = "COLLECTED"
    BY <1>1, <1>4, Zenon DEF Blocked
  <2>4. ASSUME NEW x \in Process \cap table, state[x] # "COLLECTED"
        PROVE  ppid'[x] \in Alive \ {p} /\ ListedOnce(x, children'[ppid'[x]])
    <3>1. x \in Task /\ ppid[x] \in Alive /\ ppid[x] \in Task /\ ListedOnce(x, children[ppid[x]])
      BY <1>7, <2>4, Zenon DEF FamilyTree, FamilyTypes
    <3>2. x \in Members(children[ppid[x]])
      BY <3>1, Zenon DEF ListedOnce, Members
    <3>3. CASE x \in kids
      <4>1. ppid[x] = p
        BY <1>3, <3>3, Zenon DEF FamilyTree, kids
      <4> QED
        BY <1>2, <1>3, <1>8, <1>9, <2>2, <3>1, <3>3, <4>1, Zenon
    <3>4. CASE x \notin kids
      <4>1. ppid[x] # p /\ ppid'[x] = ppid[x]
        BY <1>2, <3>1, <3>2, <3>4, Zenon DEF kids
      <4> QED
        BY <1>8, <1>9, <3>1, <3>2, <4>1, Zenon
    <3> QED
      BY <3>3, <3>4, Zenon
  <2>5. ASSUME NEW t \in Task, NEW x \in Members(children'[t])
        PROVE  x \in table /\ state[x] # "COLLECTED" /\ ppid'[x] = t
    <3>1. t # p
      <4>1. Members(<<>>) = {}
        BY DEF Members
      <4> QED
        BY <1>9, <2>5, <4>1, Zenon
    <3>2. x \in Members(children[t]) \/ (x \in kids /\ t = Collector)
      BY <1>8, <1>9, <3>1, Zenon
    <3>3. CASE x \in Members(children[t])
      <4>1. x \in table /\ x \in Task /\ state[x] # "COLLECTED" /\ ppid[x] = t
        BY <1>7, <3>3, Zenon DEF FamilyTree
      <4>2. x \notin kids
        BY <1>3, <3>1, <4>1, Zenon DEF FamilyTree, kids
      <4> QED
        BY <1>2, <4>1, <4>2, Zenon
    <3>4. CASE x \in kids /\ t = Collector
      <4>1. x \in table /\ x \in Task /\ state[x] # "COLLECTED"
        BY <1>3, <1>7, <3>4, Zenon DEF FamilyTree, kids
      <4> QED
        BY <1>2, <3>4, <4>1, Zenon
    <3> QED
      BY <3>2, <3>3, <3>4, Zenon
  <2> QED
    BY <1>2, <1>7, <2>1, <2>3, <2>4, <2>5, Zenon DEF FamilyTree
<1>16. NoMissedExit'
  <2>1. ASSUME NEW t \in table, state'[t] = "COLLECTING", NEW x \in collecting[t]
        PROVE  state'[x] # "EXITED"
    <3>1. t \in Task /\ t \notin W /\ state[t] = "COLLECTING" /\ x \in Task /\ state[x] # "EXITED"
      BY <1>4, <1>7, <2>1, Apart, Zenon DEF NoMissedExit, FamilyTypes
    <3>2. x # p
      <4>1. x = p => x \in Members(children[t])
        BY <3>1, Zenon DEF CollectsOwn, Blocked
      <4>2. x = p => ppid[p] = t
        BY <3>1, <4>1, Zenon DEF FamilyTree
      <4> QED
        BY <1>5, <3>1, <4>2, Zenon
    <3> QED
      BY <1>4, <3>1, <3>2, Zenon
  <2>2. children'[Collector] # <<>> => state'[Collector] # "WAITING"
    <3>1. children'[Collector] = children[Collector] \o children[p]
      BY <1>3, <1>9, Zenon
    <3>2. CASE children[p] = <<>>
      BY <1>3, <1>4, <1>8, <3>1, <3>2, Zenon DEF NoMissedExit
    <3>3. CASE children[p] # <<>>
      BY <1>3, <1>4, <1>5, <1>6, <3>3, Zenon DEF ParkPlaces
    <3> QED
      BY <3>2, <3>3, Zenon
  <2>3. collected # {} => state'[Deleter] # "WAITING"
    BY <1>3, <1>4, Zenon DEF NoMissedExit
  <2> QED
    BY <1>2, <2>1, <2>2, <2>3, Zenon DEF NoMissedExit
<1> QED
  BY <1>1, <1>10, <1>11, <1>12, <1>13, <1>14, <1>15, <1>16, Zenon

(***************************************************************************)
(* The system.                                                             *)
(***************************************************************************)
\* Boot ends in a state of the invariant.
LEMMA InitPMInv == PMInit => PMInv
<1> SUFFICES ASSUME PMInit PROVE PMInv
    BY Zenon
<1>1. /\ current = Scheduler /\ sleepQueue = {} /\ exited = {} /\ now = 0 /\ panic = FALSE
      /\ sleeptill = [t \in Task |-> 0] /\ table = SystemTask
      /\ ppid = [t \in Task |-> Dummy] /\ children = [t \in Task |-> <<>>]
      /\ collecting = [t \in Task |-> {}] /\ doomed = [p \in Process |-> FALSE]
      /\ collected = {} /\ outOfEntries = FALSE
      /\ waitToken = [t \in Task |-> IF t \in Process \cup {Dummy} THEN 0 ELSE 1]
      /\ readyCount = [t \in Task |-> IF state[t] = "AVAILABLE" THEN 1 ELSE 0]
  BY Zenon DEF PMInit
<1>2. state = [t \in Task |-> IF t \in Process THEN "NEW"
                              ELSE IF t \in {Collector, Deleter} THEN "WAITING" ELSE "AVAILABLE"]
  BY DEF PMInit, Parked
<1>3. wakeReason = [t \in Task |-> [timeout |-> FALSE,
                       waitable |-> IF t = Collector THEN CollectorQueue
                                    ELSE IF t = Deleter THEN DeleterQueue ELSE None]]
  BY Zenon DEF PMInit
<1>4. mProcesses = [q \in WaitQueues |-> {EntryOf(k[1]) : k \in {k \in Parked : k[2] = q}}]
  BY Zenon DEF PMInit
<1>5. \A q \in WaitQueues : \A e :
         e \in mProcesses[q] <=> \/ q = CollectorQueue /\ e = EntryOf(Collector)
                                 \/ q = DeleterQueue /\ e = EntryOf(Deleter)
  <2>1. \A q \in WaitQueues : \A e : e \in mProcesses[q] <=> \E k \in Parked : k[2] = q /\ e = EntryOf(k[1])
    BY <1>4, Zenon
  <2>2. \A k : k \in Parked <=> k = <<Collector, CollectorQueue>> \/ k = <<Deleter, DeleterQueue>>
    BY Zenon DEF Parked
  <2>3. \A k \in Parked : \/ k[1] = Collector /\ k[2] = CollectorQueue
                          \/ k[1] = Deleter /\ k[2] = DeleterQueue
    BY <2>2
  <2>4. \E k \in Parked : k[1] = Collector /\ k[2] = CollectorQueue
    <3>1. <<Collector, CollectorQueue>> \in Parked
      BY Zenon DEF Parked
    <3> WITNESS <<Collector, CollectorQueue>> \in Parked
    <3> QED
      BY Zenon
  <2>5. \E k \in Parked : k[1] = Deleter /\ k[2] = DeleterQueue
    <3>1. <<Deleter, DeleterQueue>> \in Parked
      BY Zenon DEF Parked
    <3> WITNESS <<Deleter, DeleterQueue>> \in Parked
    <3> QED
      BY Zenon
  <2> QED
    BY ONLY <2>1, <2>3, <2>4, <2>5
<1>6. Collector \in Task /\ Deleter \in Task /\ Collector \notin Process /\ Deleter \notin Process
  BY Apart, Zenon
<1>7. QueueInv
  <2>1. TypeOK
    <3>1. \A t \in Task : EntryOf(t) \in Entry
      BY <1>1, Zenon DEF EntryOf, Entry
    <3>2. mProcesses \in [WaitQueues -> SUBSET Entry]
      BY <1>4, <1>5, <1>6, <3>1
    <3>3. wakeReason \in [Task -> [timeout : BOOLEAN, waitable : WaitQueues \cup {None}]]
      BY <1>3, Apart, Zenon
    <3>4. panic \in BOOLEAN
      BY <1>1, Zenon
    <3> QED
      BY <1>1, <1>2, <3>2, <3>3, <3>4, Zenon DEF TypeOK, States
  <2>2. ReadyOnce
    BY <1>1, <1>2, Zenon DEF ReadyOnce
  <2>3. WaitersQueued
    <3> SUFFICES ASSUME NEW q \in WaitQueues PROVE mProcesses[q] = {EntryOf(t) : t \in Waiters(q)}
      BY Zenon DEF WaitersQueued
    <3>1. \A t : t \in Waiters(q) <=> \/ q = CollectorQueue /\ t = Collector
                                      \/ q = DeleterQueue /\ t = Deleter
      BY <1>2, <1>3, <1>6, Apart, Zenon DEF Waiters
    <3> QED
      BY <1>5, <3>1
  <2>4. SleepersOnly /\ RunnerAvailable
    BY <1>1, Apart, Zenon DEF SleepersOnly, RunnerAvailable
  <2> QED
    BY <2>1, <2>2, <2>3, <2>4, Zenon DEF QueueInv
<1>8. Members(<<>>) = {}
  BY DEF Members
<1>9. FamilyTypes
  <2>1. panic => outOfEntries
    BY <1>1, Zenon
  <2> QED
    BY <1>1, <2>1, Apart DEF FamilyTypes
<1>10. SlotStates /\ ExitedOnly /\ ParkPlaces
  BY <1>1, <1>2, <1>3, <1>6, Apart, Zenon DEF SlotStates, ExitedOnly, ParkPlaces, Blocked
<1>11. CollectsOwn /\ FamilyTree
  BY <1>1, <1>8, Apart, Zenon DEF CollectsOwn, FamilyTree
<1>12. NoMissedExit
  <2>1. \A t \in table : t \in Task /\ state[t] # "COLLECTING"
    BY <1>1, <1>2, Apart, Zenon
  <2> QED
    BY <1>1, <1>6, <2>1, Zenon DEF NoMissedExit
<1> QED
  BY <1>7, <1>9, <1>10, <1>11, <1>12, Zenon DEF PMInv, FamilyInv

\* collect() and collectany(), for children of p only.
LEMMA CollectKeeps ==
    ASSUME PMInv, NEW p \in Task \ {Deleter}, NEW T \in SUBSET Members(children[p]), Collect(p, T)
    PROVE  PMInv'
<1>1. Running(p)
  BY Zenon DEF Collect
<1>2. ASSUME NEW c \in FirstExited(p, T), Reap(p, c) PROVE PMInv'
  <2>1. c \in Members(children[p]) /\ state[c] = "EXITED"
    BY SearchFinds, Zenon DEF PMInv, FamilyInv
  <2> QED
    BY <1>1, <1>2, <2>1, ReapKeeps, Zenon
<1>3. ASSUME FirstExited(p, T) = {}, AwaitExit(p, T) PROVE PMInv'
  BY <1>1, <1>3, AwaitExitKeeps, Zenon
<1> QED
  BY <1>2, <1>3, Zenon DEF Collect

\* What a process may ask collect for are children of its own.
LEMMA CollectableOwn ==
    ASSUME PMInv, NEW p \in Task, Running(p), NEW T \in Collectable(p) PROVE T \in SUBSET Members(children[p])
<1>1. state[p] = "AVAILABLE"
  BY RunnerOnce, Zenon DEF PMInv
<1>2. collecting[p] \subseteq Members(children[p])
  BY <1>1, Zenon DEF PMInv, FamilyInv, CollectsOwn
<1> QED
  BY <1>2, Zenon DEF Collectable

LEMMA YieldKeeps == ASSUME PMInv, NEW p, Yield(p), UNCHANGED familyVars PROVE PMInv'
BY StillKeeps, Zenon DEF Yield, PMInv, QueueInv, TypeOK

LEMMA ProcessStepKeeps ==
    ASSUME PMInv, NEW p \in Process, ProcessStep(p), UNCHANGED familyVars PROVE PMInv'
<1>1. p \in Task /\ p # Collector /\ p # Deleter
  BY Apart, Zenon
<1>2. CASE Yield(p)
  BY <1>2, YieldKeeps, Zenon
<1>3. ASSUME NEW d \in Sleeps, Sleep(p, d) PROVE PMInv'
  <2>1. d \in Nat
    BY Apart, Zenon
  <2> QED
    BY <1>3, <2>1, SleepKeeps, Zenon
<1>4. ASSUME NEW q \in ObjectQueues, Wait(p, q) PROVE PMInv'
  <2>1. q \in WaitQueues
    BY Apart, Zenon
  <2> QED
    BY <1>1, <1>4, <2>1, WaitKeeps, Zenon
<1>5. ASSUME NEW q \in ObjectQueues, Signal(p, q) PROVE PMInv'
  <2>1. q \in WaitQueues
    BY Apart, Zenon
  <2> QED
    BY <1>5, <2>1, WakeAllKeeps, Zenon DEF Signal, Running
<1> QED
  BY <1>2, <1>3, <1>4, <1>5, Apart, Zenon DEF ProcessStep

LEMMA ProgramStepKeeps == ASSUME PMInv, NEW p \in Process, ProgramStep(p) PROVE PMInv'
<1>1. CASE ProcessStep(p) /\ UNCHANGED familyVars
  BY <1>1, ProcessStepKeeps, Zenon
<1>2. ASSUME NEW k \in Process, Kill(p, k) PROVE PMInv'
  BY <1>2, KillKeeps, Zenon
<1>3. ASSUME NEW Q \in SUBSET ObjectQueues, Exit(p, Q) PROVE PMInv'
  BY <1>3, ExitKeeps, Zenon
<1> QED
  BY <1>1, <1>2, <1>3, Zenon DEF ProgramStep

LEMMA ParentStepKeeps == ASSUME PMInv, NEW p \in Process \cup {Root}, ParentStep(p) PROVE PMInv'
<1>1. p \in Task \ {Deleter}
  BY Apart, Zenon
<1>2. ASSUME NEW c \in Process, Spawn(p, c) PROVE PMInv'
  BY <1>2, SpawnKeeps, Zenon
<1>3. ASSUME SpawnFails(p) PROVE PMInv'
  BY <1>3, SpawnFailsKeeps, Zenon
<1>4. ASSUME NEW T \in Collectable(p), Collect(p, T) PROVE PMInv'
  <2>1. T \in SUBSET Members(children[p])
    BY <1>1, <1>4, CollectableOwn, Zenon DEF Collect
  <2> QED
    BY <1>1, <1>4, <2>1, CollectKeeps, Zenon
<1> QED
  BY <1>2, <1>3, <1>4, Zenon DEF ParentStep

LEMMA AwakerTaskKeeps == ASSUME PMInv, AwakerTask PROVE PMInv'
<1>1. UNCHANGED familyVars /\ AwakerStep
  BY Zenon DEF AwakerTask
<1>2. ASSUME NEW e \in sleepQueue,
             AwakerBury(e) \/ AwakerWake(e) \/ AwakerIgnore(e) \/ AwakerPoll(e)
      PROVE  PMInv'
  <2>1. state[e.process] # "EXITED"
    BY Zenon DEF PMInv, QueueInv, SleepersOnly
  <2>2. CASE AwakerWake(e)
    BY <1>1, <2>2, AwakerWakeKeeps, Zenon
  <2>3. CASE AwakerIgnore(e)
    BY <1>1, <2>3, StillKeeps, Zenon DEF AwakerIgnore, schedVars, PMInv, QueueInv, TypeOK
  <2>4. CASE AwakerPoll(e)
    BY <1>1, <2>4, YieldKeeps, Zenon DEF AwakerPoll
  <2> QED
    BY <1>2, <2>1, <2>2, <2>3, <2>4, Zenon DEF AwakerBury
<1>3. CASE AwakerPark
  <2>1. Awaker \in Task \ {Deleter} /\ Awaker # Collector /\ AwakerQueue \in WaitQueues
    BY Apart, Zenon
  <2> QED
    BY <1>1, <1>3, <2>1, WaitKeeps, Zenon DEF AwakerPark
<1> QED
  BY <1>1, <1>2, <1>3, Zenon DEF AwakerStep

LEMMA CollectorStepKeeps == ASSUME PMInv, CollectorStep PROVE PMInv'
<1>1. Collector \in Task \ {Deleter} /\ CollectorQueue \in WaitQueues
  BY Apart, Zenon
<1>2. CASE children[Collector] # <<>> /\ Collect(Collector, {Head(children[Collector])})
  <2>1. children[Collector] \in Seq(Process)
    BY <1>1, Zenon DEF PMInv, FamilyInv, FamilyTypes
  <2>2. Head(children[Collector]) = children[Collector][1] /\ 1 \in DOMAIN children[Collector]
    BY <1>2, <2>1
  <2>3. {Head(children[Collector])} \in SUBSET Members(children[Collector])
    BY <2>2, Zenon DEF Members
  <2> QED
    BY <1>1, <1>2, <2>3, CollectKeeps, Zenon
<1>3. CASE children[Collector] = <<>> /\ Wait(Collector, CollectorQueue) /\ UNCHANGED familyVars
  BY <1>1, <1>3, WaitKeeps, Zenon
<1> QED
  BY <1>2, <1>3, Zenon DEF CollectorStep

\* Every step preserves the invariant.
LEMMA NextPMInv == PMInv /\ [PMNext]_pmVars => PMInv'
<1> SUFFICES ASSUME PMInv, [PMNext]_pmVars PROVE PMInv'
    BY Zenon
<1>1. ASSUME NEW t \in Task, Schedule(t), UNCHANGED familyVars PROVE PMInv'
  BY <1>1, ScheduleKeeps, Zenon
<1>2. ASSUME NEW p \in Process, ProgramStep(p) PROVE PMInv'
  BY <1>2, ProgramStepKeeps, Zenon
<1>3. ASSUME NEW p \in Process \cup {Root}, ParentStep(p) PROVE PMInv'
  BY <1>3, ParentStepKeeps, Zenon
<1>4. ASSUME NEW p \in {Dummy, Root}, Yield(p), UNCHANGED familyVars PROVE PMInv'
  BY <1>4, YieldKeeps, Zenon
<1>5. ASSUME NEW q \in IrqQueues, IrqWake(q), UNCHANGED familyVars PROVE PMInv'
  <2>1. q \in WaitQueues
    BY Apart, Zenon
  <2> QED
    BY <1>5, <2>1, WakeAllKeeps, Zenon DEF IrqWake
<1>6. CASE Tick /\ UNCHANGED familyVars
  BY <1>6, StillKeeps DEF Tick, PMInv, QueueInv, TypeOK
<1>7. CASE UNCHANGED pmVars
  BY <1>7, StillKeeps, Zenon DEF pmVars, schedVars, PMInv, QueueInv, TypeOK
<1> QED
  BY <1>1, <1>2, <1>3, <1>4, <1>5, <1>6, <1>7, AwakerTaskKeeps, CollectorStepKeeps, DeleterKeeps, Zenon
     DEF PMNext

\* The queues, the family tree, the exited table and the slots agree with each
\* other at all times.
THEOREM PMInvHolds == PMSpec => []PMInv
BY InitPMInv, NextPMInv, PTL DEF PMSpec

\* A process that has not been collected has a living parent that lists it once.
THEOREM FamilyKept == PMSpec => []FamilyTree
<1>1. PMInv => FamilyTree
  BY Zenon DEF PMInv, FamilyInv
<1> QED
  BY <1>1, PMInvHolds, PTL

\* Neither a parent nor the collector nor the deleter waits for a death that has
\* happened.
THEOREM NoExitMissed == PMSpec => []NoMissedExit
<1>1. PMInv => NoMissedExit
  BY Zenon DEF PMInv, FamilyInv
<1> QED
  BY <1>1, PMInvHolds, PTL

\* Nothing refers to a slot that was given back, and only a full table panics.
THEOREM NothingDangles == PMSpec => []NoDangling
<1>1. PMInv => NoDangling
  <2> SUFFICES ASSUME PMInv PROVE NoDangling
    BY Zenon
  <2> USE DEF PMInv, QueueInv, FamilyInv
  <2>1. ASSUME NEW t \in Task \ table
        PROVE  /\ readyCount[t] = 0
               /\ t \notin exited \cup collected
               /\ \A q \in WaitQueues : \A e \in mProcesses[q] : e.process # t
               /\ \A e \in sleepQueue : e.process # t
               /\ \A u \in table : t \notin Members(children[u])
    <3>1. state[t] \in {"NEW", "COLLECTED"}
      BY Zenon DEF SlotStates
    <3>2. readyCount[t] = 0
      BY <3>1, Zenon DEF ReadyOnce
    <3>3. t \notin exited \cup collected
      BY Zenon DEF ExitedOnly, SlotStates
    <3>4. \A q \in WaitQueues : \A e \in mProcesses[q] : e.process # t
      BY <3>1 DEF WaitersQueued, Waiters, EntryOf
    <3>5. \A e \in sleepQueue : e.process # t
      BY <3>1, Zenon DEF SleepersOnly
    <3>6. \A u \in table : t \notin Members(children[u])
      BY Zenon DEF FamilyTree, FamilyTypes
    <3> QED
      BY <3>2, <3>3, <3>4, <3>5, <3>6, Zenon
  <2>2. panic => outOfEntries
    BY Zenon DEF FamilyTypes
  <2> QED
    BY <2>1, <2>2, Zenon DEF NoDangling
<1> QED
  BY <1>1, PMInvHolds, PTL

(***************************************************************************)
(* The refinement of ProcessLife.                                          *)
(***************************************************************************)
LifeMap == [c \in Process |-> LifeOf(c)]
ParentMap == [c \in Process |-> ParentOf(c)]

Stage(c) ==
    IF c \notin table THEN "free"
    ELSE IF state[c] = "EXITED" THEN "zombie"
    ELSE IF state[c] = "COLLECTED" THEN "reaped" ELSE "live"

\* The stages of a slot, before a step and after it.
LEMMA Stages ==
    ASSUME NEW c \in Process
    PROVE  /\ LifeMap[c] = Stage(c) /\ LifeMap'[c] = Stage(c)'
           /\ ParentMap[c] = IF Stage(c) \in {"live", "zombie"} THEN ppid[c] ELSE None
           /\ ParentMap'[c] = IF Stage(c)' \in {"live", "zombie"} THEN ppid'[c] ELSE None
<1>1. LifeOf(c) = Stage(c) /\ LifeOf(c)' = Stage(c)'
  BY Zenon DEF LifeOf, Stage
<1>2. LifeMap[c] = LifeOf(c) /\ ParentMap[c] = ParentOf(c)
  BY Zenon DEF LifeMap, ParentMap
<1>3. LifeMap'[c] = LifeOf(c)' /\ ParentMap'[c] = ParentOf(c)'
  BY Zenon DEF LifeMap, ParentMap
<1> QED
  BY <1>1, <1>2, <1>3, Zenon DEF ParentOf

\* The maps are functions on the slots.
LEMMA MapsAreFunctions ==
    /\ LifeMap' = [c \in Process |-> LifeMap'[c]] /\ ParentMap' = [c \in Process |-> ParentMap'[c]]
    /\ LifeMap = [c \in Process |-> LifeMap[c]] /\ ParentMap = [c \in Process |-> ParentMap[c]]
BY Zenon DEF LifeMap, ParentMap

\* A step that frees, buries and orphans nobody is not seen.
LEMMA QuietLife ==
    ASSUME UNCHANGED <<table, ppid>>,
           \A t \in Process : /\ state'[t] = "EXITED" <=> state[t] = "EXITED"
                              /\ state'[t] = "COLLECTED" <=> state[t] = "COLLECTED"
    PROVE  LifeMap' = LifeMap /\ ParentMap' = ParentMap
<1>1. \A c \in Process : Stage(c)' = Stage(c)
  BY Zenon DEF Stage
<1>2. \A c \in Process : LifeMap'[c] = LifeMap[c] /\ ParentMap'[c] = ParentMap[c]
  BY <1>1, Stages, Zenon
<1> QED
  BY <1>2, MapsAreFunctions, Zenon

\* Blocking and waking are not seen either.
LEMMA WakeAllUnseen ==
    ASSUME NEW q, WakeAll(q), UNCHANGED familyVars PROVE LifeMap' = LifeMap /\ ParentMap' = ParentMap
<1>1. Resched(None, "AVAILABLE", None, Woken(q), BySignal(q)) /\ UNCHANGED <<table, ppid>>
  BY Zenon DEF WakeAll, Awaken, familyVars
<1>2. \A t \in Task : t = None \/ t \in Woken(q) => state[t] \notin {"EXITED", "COLLECTED"}
  BY Apart, Zenon DEF Woken
<1>3. \A t \in Process : /\ state'[t] = "EXITED" <=> state[t] = "EXITED"
                         /\ state'[t] = "COLLECTED" <=> state[t] = "COLLECTED"
  BY <1>1, <1>2, Apart, Zenon DEF Resched
<1> QED
  BY <1>1, <1>3, QuietLife, Zenon

LEMMA WaitUnseen ==
    ASSUME PMInv, NEW p \in Task, NEW q \in WaitQueues, Wait(p, q), UNCHANGED familyVars
    PROVE  LifeMap' = LifeMap /\ ParentMap' = ParentMap
<1>1. state' = [t \in Task |-> IF t = p THEN "WAITING" ELSE state[t]] /\ state[p] = "AVAILABLE"
  BY WaitQueuesKept, Zenon DEF PMInv
<1>2. \A t \in Process : /\ state'[t] = "EXITED" <=> state[t] = "EXITED"
                         /\ state'[t] = "COLLECTED" <=> state[t] = "COLLECTED"
  BY <1>1, Apart, Zenon
<1> QED
  BY <1>2, QuietLife, Zenon DEF familyVars

LEMMA SleepUnseen ==
    ASSUME PMInv, NEW p \in Process, NEW d, Sleep(p, d), UNCHANGED familyVars
    PROVE  LifeMap' = LifeMap /\ ParentMap' = ParentMap
<1> DEFINE W == Woken(AwakerQueue)
<1>1. Resched(p, "SLEEPING", None, W, BySignal(AwakerQueue)) /\ Running(p) /\ p \in Task
  BY Apart, Zenon DEF Sleep
<1>2. state[p] = "AVAILABLE"
  BY <1>1, RunnerOnce, Zenon DEF PMInv
<1>3. \A t \in Task : t = p \/ t \in W => state[t] \notin {"EXITED", "COLLECTED"}
  BY <1>2, Zenon DEF Woken
<1>4. \A t \in Process : /\ state'[t] = "EXITED" <=> state[t] = "EXITED"
                         /\ state'[t] = "COLLECTED" <=> state[t] = "COLLECTED"
  <2> HIDE DEF W
  <2> QED
    BY <1>1, <1>3, Apart, Zenon DEF Resched
<1> QED
  BY <1>4, QuietLife, Zenon DEF familyVars

LEMMA AwakerWakeUnseen ==
    ASSUME PMInv, NEW e \in sleepQueue, AwakerWake(e), UNCHANGED familyVars
    PROVE  LifeMap' = LifeMap /\ ParentMap' = ParentMap
<1>1. Resched(None, "AVAILABLE", None, Asleep(e.process), ByTimeout)
  BY Zenon DEF AwakerWake, Awaken
<1>2. \A t \in Task : t = None \/ t \in Asleep(e.process) => state[t] \notin {"EXITED", "COLLECTED"}
  BY Apart, Zenon DEF Asleep, PMInv, QueueInv, SleepersOnly
<1>3. \A t \in Process : /\ state'[t] = "EXITED" <=> state[t] = "EXITED"
                         /\ state'[t] = "COLLECTED" <=> state[t] = "COLLECTED"
  BY <1>1, <1>2, Apart, Zenon DEF Resched
<1> QED
  BY <1>3, QuietLife, Zenon DEF familyVars

\* A parent that blocks is not seen.
LEMMA AwaitUnseen ==
    ASSUME PMInv, NEW p \in Task, Running(p), NEW T, AwaitExit(p, T)
    PROVE  LifeMap' = LifeMap /\ ParentMap' = ParentMap
<1>1. Resched(p, "COLLECTING", None, {}, ByTimeout) /\ UNCHANGED <<table, ppid>>
  BY Zenon DEF AwaitExit
<1>2. state[p] = "AVAILABLE"
  BY RunnerOnce, Zenon DEF PMInv
<1>3. \A t \in Process : /\ state'[t] = "EXITED" <=> state[t] = "EXITED"
                         /\ state'[t] = "COLLECTED" <=> state[t] = "COLLECTED"
  BY <1>1, <1>2, Apart, Zenon DEF Resched
<1> QED
  BY <1>1, <1>3, QuietLife, Zenon

\* Whoever runs is alive in the abstract specification too.
LEMMA RunnerLives ==
    ASSUME PMInv, NEW p \in Task, Running(p) PROVE p \in Life!Living
<1>1. state[p] = "AVAILABLE"
  BY RunnerOnce, Zenon DEF PMInv
<1>2. p \in table
  BY <1>1, Zenon DEF PMInv, FamilyInv, SlotStates
<1>3. p \in Process => LifeMap[p] = "live"
  BY <1>1, <1>2, Stages, Zenon DEF Stage
<1> QED
  BY <1>3, Apart, Zenon DEF Life!Living, LifeMap

\* spawn() is a birth.
LEMMA SpawnIsBirth ==
    ASSUME PMInv, NEW p \in Process \cup {Root}, NEW c \in Process, Spawn(p, c) PROVE Life!Birth(p, c)
<1>1. /\ Running(p) /\ c \notin table /\ table' = table \cup {c} /\ ppid' = [ppid EXCEPT ![c] = p]
      /\ state' = [state EXCEPT ![c] = "AVAILABLE"] /\ p \in Task /\ c \in Task
  BY Apart, Zenon DEF Spawn
<1>2. Stage(c) = "free" /\ Stage(c)' = "live" /\ ppid'[c] = p
  BY <1>1, Zenon DEF Stage, PMInv, QueueInv, TypeOK, FamilyInv, FamilyTypes
<1>3. \A x \in Process \ {c} : Stage(x)' = Stage(x) /\ ppid'[x] = ppid[x]
  BY <1>1, Apart, Zenon DEF Stage, PMInv, QueueInv, TypeOK, FamilyInv, FamilyTypes
<1>4. /\ \A x \in Process : LifeMap'[x] = IF x = c THEN "live" ELSE LifeMap[x]
      /\ \A x \in Process : ParentMap'[x] = IF x = c THEN p ELSE ParentMap[x]
      /\ LifeMap[c] = "free"
  BY <1>2, <1>3, Stages, Zenon
<1>5. /\ LifeMap' = [LifeMap EXCEPT ![c] = "live"]
      /\ ParentMap' = [ParentMap EXCEPT ![c] = p]
  BY <1>4, MapsAreFunctions, Zenon
<1>6. p \in Life!Living
  BY <1>1, RunnerLives, Zenon
<1> QED
  BY <1>4, <1>5, <1>6, Zenon DEF Life!Birth, LifeMap, ParentMap

\* collect() is a reaping.
LEMMA ReapIsReap ==
    ASSUME PMInv, NEW p \in Task, Running(p), NEW c \in Members(children[p]), state[c] = "EXITED",
           Reap(p, c)
    PROVE  c \in Process /\ Life!Reap(p, c)
<1>1. c \in Process /\ c \in Task /\ c \in table /\ ppid[c] = p
  <2>1. children[p] \in Seq(Process)
    BY Zenon DEF PMInv, FamilyInv, FamilyTypes
  <2> QED
    BY <2>1, Apart DEF PMInv, FamilyInv, FamilyTree, Members
<1>2. current # Scheduler
  BY Apart, Zenon DEF Running
<1>3. c \in exited
  BY <1>1, <1>2, Zenon DEF PMInv, FamilyInv, ExitedOnly
<1>4. /\ state' = [t \in Task |-> IF t \in Roused({DeleterQueue}, {}) THEN "AVAILABLE"
                                  ELSE IF t = c THEN "COLLECTED" ELSE state[t]]
      /\ c \notin Roused({DeleterQueue}, {})
  BY <1>1, <1>3, ReapQueues, Zenon DEF PMInv
<1>5. \A t \in Roused({DeleterQueue}, {}) : state[t] = "WAITING"
  BY Zenon DEF Roused
<1>6. UNCHANGED <<table, ppid>>
  BY Zenon DEF Reap
<1>7. Stage(c) = "zombie" /\ Stage(c)' = "reaped"
  BY <1>1, <1>4, <1>6, Zenon DEF Stage
<1>8. \A x \in Process \ {c} : Stage(x)' = Stage(x)
  BY <1>4, <1>5, <1>6, Apart, Zenon DEF Stage
<1>9. /\ \A x \in Process : LifeMap'[x] = IF x = c THEN "reaped" ELSE LifeMap[x]
      /\ \A x \in Process : ParentMap'[x] = IF x = c THEN None ELSE ParentMap[x]
      /\ LifeMap[c] = "zombie" /\ ParentMap[c] = p
  BY <1>1, <1>6, <1>7, <1>8, Stages, Zenon
<1>10. /\ LifeMap' = [LifeMap EXCEPT ![c] = "reaped"]
       /\ ParentMap' = [ParentMap EXCEPT ![c] = None]
  BY <1>1, <1>9, MapsAreFunctions, Zenon
<1>11. p \in Life!Living
  BY RunnerLives, Zenon
<1> QED
  BY <1>1, <1>9, <1>10, <1>11, Zenon DEF Life!Reap, LifeMap, ParentMap

\* exit() is a death, and the orphans change hands in the same step.
LEMMA ExitIsDeath ==
    ASSUME PMInv, NEW p \in Process, NEW Q \in SUBSET ObjectQueues, Exit(p, Q) PROVE Life!Death(p)
<1> DEFINE W == Roused(ExitWakes(p, Q), WaitingParent(p))
           kids == Members(children[p])
<1>1. RousedFrame(p, "EXITED", ExitWakes(p, Q), WaitingParent(p)) /\ state[p] = "AVAILABLE"
  BY ExitQueues, Zenon
<1>2. /\ ppid' = [t \in Task |-> IF t \in kids THEN Collector ELSE ppid[t]]
      /\ table' = table
  BY Zenon DEF Exit, Orphaned
<1>3. /\ \A t \in Task : state'[t] = IF t \in W THEN "AVAILABLE" ELSE IF t = p THEN "EXITED" ELSE state[t]
      /\ p \notin W
      /\ \A t \in W : state[t] \notin {"EXITED", "COLLECTED"}
  BY <1>1, Zenon DEF RousedFrame, Blocked
<1> HIDE DEF W
<1>4. p \in Task /\ p \in table
  BY <1>1, Apart, Zenon DEF PMInv, FamilyInv, SlotStates
<1>5. Stage(p) = "live" /\ Stage(p)' = "zombie"
  BY <1>1, <1>2, <1>3, <1>4, Zenon DEF Stage
<1>6. \A x \in Process \ {p} : Stage(x)' = Stage(x)
  BY <1>2, <1>3, Apart, Zenon DEF Stage
<1>7. ASSUME NEW x \in Process PROVE x \in kids <=> ParentMap[x] = p
  <2>1. x \in kids => ppid[x] = p /\ Stage(x) \in {"live", "zombie"}
    BY <1>4, Zenon DEF PMInv, FamilyInv, FamilyTree, Stage, kids
  <2>2. ASSUME Stage(x) \in {"live", "zombie"}, ppid[x] = p PROVE x \in kids
    <3>1. x \in table /\ state[x] # "COLLECTED"
      BY <2>2, Zenon DEF Stage
    <3>2. ListedOnce(x, children[p])
      BY <2>2, <3>1, Zenon DEF PMInv, FamilyInv, FamilyTree
    <3> QED
      BY <3>2, Zenon DEF ListedOnce, Members, kids
  <2>3. p # None
    BY <1>4, Apart, Zenon
  <2> QED
    BY <2>1, <2>2, <2>3, Stages
<1> HIDE DEF kids
<1>8. \A x \in Process : ParentMap'[x] = IF ParentMap[x] = p THEN Collector ELSE ParentMap[x]
  <2> TAKE x \in Process
  <2>1. Stage(x)' \in {"live", "zombie"} <=> Stage(x) \in {"live", "zombie"}
    BY <1>5, <1>6, Zenon
  <2>2. ppid'[x] = IF x \in kids THEN Collector ELSE ppid[x]
    BY <1>2, Apart, Zenon
  <2>3. ParentMap[x] = p => Stage(x) \in {"live", "zombie"}
    BY <1>4, Stages, Apart, Zenon
  <2> QED
    BY <1>7, <2>1, <2>2, <2>3, Stages, Zenon
<1>9. /\ \A x \in Process : LifeMap'[x] = IF x = p THEN "zombie" ELSE LifeMap[x]
      /\ LifeMap[p] = "live"
  BY <1>5, <1>6, Stages, Zenon
<1>10. /\ LifeMap' = [LifeMap EXCEPT ![p] = "zombie"]
       /\ ParentMap' = [c \in Process |-> IF c \in {x \in Process : ParentMap[x] = p}
                                          THEN Collector ELSE ParentMap[c]]
  BY <1>8, <1>9, MapsAreFunctions, Zenon
<1> QED
  BY <1>9, <1>10, Zenon DEF Life!Death, Life!Orphans, LifeMap, ParentMap

\* The deleter releases everything that is reaped, if anything is.
LEMMA DeleterReleases ==
    ASSUME PMInv, DeleterStep PROVE Life!Release \/ (LifeMap' = LifeMap /\ ParentMap' = ParentMap)
<1>1. /\ Wait(Deleter, DeleterQueue) /\ table' = table \ collected /\ ppid' = ppid
      /\ Deleter \in Task \ Process /\ DeleterQueue \in WaitQueues
  BY Apart, Zenon DEF DeleterStep, Freed
<1>2. state' = [t \in Task |-> IF t = Deleter THEN "WAITING" ELSE state[t]]
  BY <1>1, WaitQueuesKept, Zenon DEF PMInv
<1>3. \A x \in Process : x \in collected <=> x \in table /\ state[x] = "COLLECTED"
  BY Apart, Zenon DEF PMInv, FamilyInv, SlotStates
<1>4. \A x \in Process : Stage(x)' = IF Stage(x) = "reaped" THEN "free" ELSE Stage(x)
  BY <1>1, <1>2, <1>3, Apart, Zenon DEF Stage
<1>5. /\ \A x \in Process : LifeMap'[x] = IF LifeMap[x] = "reaped" THEN "free" ELSE LifeMap[x]
      /\ \A x \in Process : ParentMap'[x] = ParentMap[x]
  BY <1>1, <1>4, Stages, Zenon
<1>6. ParentMap' = ParentMap
  BY <1>5, MapsAreFunctions, Zenon
<1>7. CASE \E x \in Process : LifeMap[x] = "reaped"
  <2>1. LifeMap' = [c \in Process |-> IF LifeMap[c] = "reaped" THEN "free" ELSE LifeMap[c]]
    BY <1>5, MapsAreFunctions, Zenon
  <2> QED
    BY <1>6, <1>7, <2>1, Zenon DEF Life!Release, LifeMap, ParentMap
<1>8. CASE \A x \in Process : LifeMap[x] # "reaped"
  <2>1. LifeMap' = LifeMap
    BY <1>5, <1>8, MapsAreFunctions, Zenon
  <2> QED
    BY <1>6, <2>1, Zenon
<1> QED
  BY <1>7, <1>8, Zenon

\* Every step is one of ProcessLife, or not seen there.
LEMMA StepsRefine ==
    ASSUME PMInv, [PMNext]_pmVars PROVE Life!LifeNext \/ (LifeMap' = LifeMap /\ ParentMap' = ParentMap)
<1> DEFINE Unseen == LifeMap' = LifeMap /\ ParentMap' = ParentMap
           Goal == Life!LifeNext \/ Unseen
<1>1. ASSUME state' = state, UNCHANGED <<table, ppid>> PROVE Goal
  BY <1>1, QuietLife, Zenon
<1>2. ASSUME NEW p \in Task \ {Deleter}, NEW T \in SUBSET Members(children[p]), Collect(p, T) PROVE Goal
  <2>1. Running(p)
    BY <1>2, Zenon DEF Collect
  <2>2. ASSUME NEW c \in FirstExited(p, T), Reap(p, c) PROVE Goal
    <3>1. c \in Members(children[p]) /\ state[c] = "EXITED"
      BY SearchFinds, Zenon DEF PMInv, FamilyInv
    <3>2. c \in Process /\ Life!Reap(p, c) /\ p \in Process \cup SystemTask
      BY <2>1, <2>2, <3>1, ReapIsReap, Zenon DEF Task
    <3> QED
      BY <3>2, Zenon DEF Life!LifeNext
  <2>3. ASSUME AwaitExit(p, T) PROVE Goal
    BY <2>1, <2>3, AwaitUnseen, Zenon
  <2> QED
    BY <1>2, <2>2, <2>3, Zenon DEF Collect
<1>3. ASSUME NEW p \in Process, ProcessStep(p), UNCHANGED familyVars PROVE Goal
  <2>1. p \in Task /\ ObjectQueues \subseteq WaitQueues
    BY Apart, Zenon
  <2>2. CASE Yield(p)
    BY <1>1, <1>3, <2>2, Zenon DEF Yield, familyVars
  <2>3. ASSUME NEW d \in Sleeps, Sleep(p, d) PROVE Goal
    BY <1>3, <2>3, SleepUnseen, Zenon
  <2>4. ASSUME NEW q \in ObjectQueues, Wait(p, q) PROVE Goal
    BY <1>3, <2>1, <2>4, WaitUnseen, Zenon
  <2>5. ASSUME NEW q \in ObjectQueues, Signal(p, q) PROVE Goal
    BY <1>3, <2>5, WakeAllUnseen, Zenon DEF Signal
  <2> QED
    BY <1>3, <2>2, <2>3, <2>4, <2>5, Apart, Zenon DEF ProcessStep
<1>4. ASSUME NEW p \in Process, ProgramStep(p) PROVE Goal
  <2>1. ASSUME NEW k \in Process, Kill(p, k) PROVE Goal
    BY <1>1, <2>1, Zenon DEF Kill, schedVars
  <2>2. ASSUME NEW Q \in SUBSET ObjectQueues, Exit(p, Q) PROVE Goal
    BY <2>2, ExitIsDeath, Zenon DEF Life!LifeNext
  <2> QED
    BY <1>3, <1>4, <2>1, <2>2, Zenon DEF ProgramStep
<1>5. ASSUME NEW p \in Process \cup {Root}, ParentStep(p) PROVE Goal
  <2>1. p \in Task \ {Deleter} /\ p \in Process \cup SystemTask
    BY Apart, Zenon
  <2>2. ASSUME NEW c \in Process, Spawn(p, c) PROVE Goal
    BY <2>1, <2>2, SpawnIsBirth, Zenon DEF Life!LifeNext
  <2>3. ASSUME SpawnFails(p) PROVE Goal
    BY <1>1, <2>3, Zenon DEF SpawnFails
  <2>4. ASSUME NEW T \in Collectable(p), Collect(p, T) PROVE Goal
    <3>1. T \in SUBSET Members(children[p])
      BY <2>1, <2>4, CollectableOwn, Zenon DEF Collect
    <3> QED
      BY <1>2, <2>1, <2>4, <3>1, Zenon
  <2> QED
    BY <1>5, <2>2, <2>3, <2>4, Zenon DEF ParentStep
<1>6. ASSUME AwakerTask PROVE Goal
  <2>1. UNCHANGED familyVars /\ AwakerStep /\ Awaker \in Task /\ AwakerQueue \in WaitQueues
    BY <1>6, Apart, Zenon DEF AwakerTask
  <2>2. ASSUME NEW e \in sleepQueue,
               AwakerBury(e) \/ AwakerWake(e) \/ AwakerIgnore(e) \/ AwakerPoll(e)
        PROVE  Goal
    <3>1. state[e.process] # "EXITED"
      BY Zenon DEF PMInv, QueueInv, SleepersOnly
    <3>2. CASE AwakerWake(e)
      BY <2>1, <3>2, AwakerWakeUnseen, Zenon
    <3>3. CASE AwakerIgnore(e)
      BY <1>1, <2>1, <3>3, Zenon DEF AwakerIgnore, schedVars, familyVars
    <3>4. CASE AwakerPoll(e)
      BY <1>1, <2>1, <3>4, Zenon DEF AwakerPoll, Yield, familyVars
    <3> QED
      BY <2>2, <3>1, <3>2, <3>3, <3>4, Zenon DEF AwakerBury
  <2>3. CASE AwakerPark
    BY <2>1, <2>3, WaitUnseen, Zenon DEF AwakerPark
  <2> QED
    BY <2>1, <2>2, <2>3, Zenon DEF AwakerStep
<1>7. ASSUME CollectorStep PROVE Goal
  <2>1. Collector \in Task \ {Deleter} /\ CollectorQueue \in WaitQueues
    BY Apart, Zenon
  <2>2. CASE children[Collector] # <<>> /\ Collect(Collector, {Head(children[Collector])})
    <3>1. children[Collector] \in Seq(Process)
      BY <2>1, Zenon DEF PMInv, FamilyInv, FamilyTypes
    <3>2. Head(children[Collector]) = children[Collector][1] /\ 1 \in DOMAIN children[Collector]
      BY <2>2, <3>1
    <3>3. {Head(children[Collector])} \in SUBSET Members(children[Collector])
      BY <3>2, Zenon DEF Members
    <3> QED
      BY <1>2, <2>1, <2>2, <3>3, Zenon
  <2>3. CASE Wait(Collector, CollectorQueue) /\ UNCHANGED familyVars
    BY <2>1, <2>3, WaitUnseen, Zenon
  <2> QED
    BY <1>7, <2>2, <2>3, Zenon DEF CollectorStep
<1>8. ASSUME DeleterStep PROVE Goal
  BY <1>8, DeleterReleases, Zenon DEF Life!LifeNext
<1>9. ASSUME NEW t \in Task, Schedule(t), UNCHANGED familyVars PROVE Goal
  BY <1>1, <1>9, Zenon DEF Schedule, familyVars
<1>10. ASSUME NEW p \in {Dummy, Root}, Yield(p), UNCHANGED familyVars PROVE Goal
  BY <1>1, <1>10, Zenon DEF Yield, familyVars
<1>11. ASSUME NEW q \in IrqQueues, IrqWake(q), UNCHANGED familyVars PROVE Goal
  BY <1>11, WakeAllUnseen, Zenon DEF IrqWake
<1>12. ASSUME Tick, UNCHANGED familyVars PROVE Goal
  BY <1>1, <1>12, Zenon DEF Tick, familyVars
<1>13. ASSUME UNCHANGED pmVars PROVE Goal
  BY <1>1, <1>13, Zenon DEF pmVars, schedVars, familyVars
<1> HIDE DEF Goal
<1>14. Goal
  BY <1>4, <1>5, <1>6, <1>7, <1>8, <1>9, <1>10, <1>11, <1>12, <1>13, Zenon DEF PMNext
<1> QED
  BY <1>14, Zenon DEF Goal

\* Whatever processes, interrupts and the lottery do, the slots, seen from
\* outside, are born, die with their orphans adopted, are reaped by their parent
\* and released, and nothing else happens to them.
THEOREM LifeRefined == PMSpec => ImplementsLife
<1>1. PMInit => Life!LifeInit
  <2> SUFFICES ASSUME PMInit PROVE Life!LifeInit
    BY Zenon
  <2>1. table = SystemTask
    BY Zenon DEF PMInit
  <2>2. \A c \in Process : Stage(c) = "free"
    BY <2>1, Apart, Zenon DEF Stage
  <2>3. \A c \in Process : LifeMap[c] = "free" /\ ParentMap[c] = None
    BY <2>2, Stages, Zenon
  <2>4. LifeMap = [c \in Process |-> "free"] /\ ParentMap = [c \in Process |-> None]
    BY <2>3, MapsAreFunctions, Zenon
  <2> QED
    BY <2>4, Zenon DEF Life!LifeInit, LifeMap, ParentMap
<1>2. PMInv /\ [PMNext]_pmVars => [Life!LifeNext]_(Life!lifeVars)
  <2> SUFFICES ASSUME PMInv, [PMNext]_pmVars PROVE [Life!LifeNext]_(Life!lifeVars)
    BY Zenon
  <2>1. LifeMap' = LifeMap /\ ParentMap' = ParentMap => UNCHANGED Life!lifeVars
    BY Zenon DEF Life!lifeVars, LifeMap, ParentMap
  <2> QED
    BY <2>1, StepsRefine, Zenon
<1> QED
  BY <1>1, <1>2, PMInvHolds, PTL DEF PMSpec, ImplementsLife, Life!LifeSpec
===============================================================================
