---------------------------- MODULE ProcessManager ----------------------------
(***************************************************************************)
(* The life of a process: spawn, exit, kill, collect and collectany, the   *)
(* collector task that adopts orphans and the deleter task that gives      *)
(* process slots back (process/manager.cpp, tasks/collector.cpp,           *)
(* tasks/deleter.cpp), on top of Scheduling.                               *)
(*                                                                         *)
(* A process is identified with its slot: the pid and the pages of its     *)
(* process_t, which spawn takes from the free ones and the deleter gives   *)
(* back.  Programs collect only their own children, as the PANICs of       *)
(* collect demand, and wait without timeouts (Timeouts is empty): the      *)
(* entry a timed wait leaves in the sleep queue outlives its process.      *)
(***************************************************************************)
EXTENDS Scheduling, Sequences

CONSTANTS
    Collector,      \* gCollectorTask, parent of orphans
    Deleter,        \* gDeleterTask
    Root,           \* gInitTask, which spawns the first programs
    CollectorQueue, \* the queue the collector parks on
    DeleterQueue,   \* the queue the deleter parks on
    MaxWakes        \* bound: times a system task is woken

ASSUME ProcessAssumption ==
    /\ {Collector, Deleter, Root} \subseteq SystemTask \ {Dummy, Awaker}
    /\ Collector # Deleter /\ Root # Collector /\ Root # Deleter
    /\ {CollectorQueue, DeleterQueue} \subseteq
           WaitQueues \ ({AwakerQueue} \cup ObjectQueues \cup IrqQueues)
    /\ CollectorQueue # DeleterQueue
    /\ MaxWakes \in Nat
    /\ Timeouts = {}

VARIABLES
    table,          \* gProcessTable (and gPidBitmap): the slots in use
    ppid,           \* process_t::ppid
    children,       \* process_t::children, in the order of the list
    collecting,     \* the children a blocked collect or collectany waits for
    doomed,         \* kill() made the process resume in the reaper
    collected,      \* gCollectedProcessList
    outOfEntries    \* the PANIC was for want of a free slot

familyVars == <<table, ppid, children, collecting, doomed, collected, outOfEntries>>
pmVars == <<schedVars, familyVars>>

Members(s) == {s[i] : i \in DOMAIN s}

\* collect() takes the first entry of the child out of the list.
Without(s, c) ==
    LET at == CHOOSE i \in DOMAIN s : s[i] = c /\ \A j \in 1..(i - 1) : s[j] # c
    IN [i \in 1..(Len(s) - 1) |-> s[IF i < at THEN i ELSE i + 1]]

ListedOnce(c, s) == \E i \in DOMAIN s : \A j \in DOMAIN s : s[j] = c <=> j = i

\* Boot is over: the collector and the deleter have parked, the awaker has not
\* run yet, init is about to.
Parked == {<<Collector, CollectorQueue>>, <<Deleter, DeleterQueue>>}

PMInit ==
    /\ current = Scheduler
    /\ state = [t \in Task |-> IF t \in Process THEN "NEW"
                               ELSE IF \E k \in Parked : k[1] = t THEN "WAITING"
                               ELSE "AVAILABLE"]
    /\ waitToken = [t \in Task |-> IF t \in Process \cup {Dummy} THEN 0 ELSE 1]
    /\ wakeReason = [t \in Task |->
            [timeout |-> FALSE,
             waitable |-> IF t = Collector THEN CollectorQueue
                          ELSE IF t = Deleter THEN DeleterQueue ELSE None]]
    /\ sleeptill = [t \in Task |-> 0]
    /\ readyCount = [t \in Task |-> IF state[t] = "AVAILABLE" THEN 1 ELSE 0]
    /\ mProcesses = [q \in WaitQueues |-> {EntryOf(k[1]) : k \in {k \in Parked : k[2] = q}}]
    /\ sleepQueue = {}
    /\ exited = {}
    /\ now = 0
    /\ panic = FALSE
    /\ table = SystemTask
    /\ ppid = [t \in Task |-> Dummy]
    /\ children = [t \in Task |-> <<>>]
    /\ collecting = [t \in Task |-> {}]
    /\ doomed = [p \in Process |-> FALSE]
    /\ collected = {}
    /\ outOfEntries = FALSE

(***************************************************************************)
(* WakeQueues(Q, P, st): from states st, the queues of Q are woken and the *)
(* processes of P are rescheduled without being told why.                  *)
(***************************************************************************)
WakeQueues(Q, P, st) ==
    LET W == {t \in Task : \E q \in Q : t \in Woken(q)} IN
    /\ state' = [t \in Task |-> IF t \in W \cup P THEN "AVAILABLE" ELSE st[t]]
    /\ waitToken' = [t \in Task |->
            IF t \in W \cup P THEN waitToken[t] + 1 ELSE waitToken[t]]
    /\ readyCount' = [t \in Task |->
            IF t \in W \cup P THEN readyCount[t] + 1 ELSE readyCount[t]]
    /\ wakeReason' = [t \in Task |->
            IF t \in W THEN BySignal(CHOOSE q \in Q : t \in Woken(q))
            ELSE wakeReason[t]]
    /\ mProcesses' = [q \in WaitQueues |-> IF q \in Q THEN {} ELSE mProcesses[q]]

(***************************************************************************)
(* Birth.                                                                  *)
(***************************************************************************)
\* p spawns a process in the free slot c and goes on running.
Spawn(p, c) ==
    /\ Running(p)
    /\ c \in Process \ table
    /\ state' = [state EXCEPT ![c] = "AVAILABLE"]
    /\ waitToken' = [waitToken EXCEPT ![c] = 1]
    /\ wakeReason' = [wakeReason EXCEPT ![c] = [timeout |-> FALSE, waitable |-> None]]
    /\ sleeptill' = [sleeptill EXCEPT ![c] = 0]
    /\ readyCount' = [readyCount EXCEPT ![c] = @ + 1]
    /\ table' = table \cup {c}
    /\ ppid' = [ppid EXCEPT ![c] = p]
    /\ children' = [children EXCEPT ![c] = <<>>, ![p] = Append(@, c)]
    /\ collecting' = [collecting EXCEPT ![c] = {}]
    /\ doomed' = [doomed EXCEPT ![c] = FALSE]
    /\ UNCHANGED <<current, mProcesses, sleepQueue, exited, now, panic,
                   collected, outOfEntries>>

\* There is no free slot: PANIC.
SpawnFails(p) ==
    /\ Running(p)
    /\ Process \subseteq table
    /\ panic' = TRUE
    /\ outOfEntries' = TRUE
    /\ UNCHANGED <<current, state, waitToken, wakeReason, sleeptill, readyCount,
                   mProcesses, sleepQueue, exited, now, table, ppid, children,
                   collecting, doomed, collected>>

(***************************************************************************)
(* Death.                                                                  *)
(***************************************************************************)
\* The parent that exit() finds waiting to collect.  The mutants reschedule
\* nobody, and the parent whatever it does.
WaitingParentNever(p) == {}
WaitingParentAlways(p) == {ppid[p]}
WaitingParent(p) == {t \in {ppid[p]} : state[t] = "COLLECTING"}

\* The children of p get the collector as their parent.  The mutant leaves
\* the dead parent's pid.
OrphanedNever(p) == ppid
Orphaned(p) == [t \in Task |-> IF t \in Members(children[p]) THEN Collector ELSE ppid[t]]

\* The collector's list of children grows.  The mutant forgets to add them.
AdoptedNone(p) == [children EXCEPT ![p] = <<>>]
Adopted(p) == [children EXCEPT ![Collector] = @ \o children[p], ![p] = <<>>]

\* The queues exit() wakes: those behind the files it closes and the terminal,
\* and the collector's if there are orphans.  The mutant does not wake it.
ExitWakesFiles(p, Q) == Q
ExitWakes(p, Q) == IF children[p] = <<>> THEN Q ELSE Q \cup {CollectorQueue}

\* p exits, by itself or in the reaper.
Exit(p, Q) ==
    /\ Running(p)
    /\ WakeQueues(ExitWakes(p, Q), WaitingParent(p), [state EXCEPT ![p] = "EXITED"])
    /\ children' = Adopted(p)
    /\ ppid' = Orphaned(p)
    /\ current' = Scheduler
    /\ UNCHANGED <<sleeptill, sleepQueue, exited, now, panic, table, collecting,
                   doomed, collected, outOfEntries>>

\* k kills p, which is not running: p will resume in the reaper.
Kill(k, p) ==
    /\ Running(k)
    /\ p \in table \ {k}
    /\ doomed' = [doomed EXCEPT ![p] = TRUE]
    /\ UNCHANGED <<schedVars, table, ppid, children, collecting, collected, outOfEntries>>

(***************************************************************************)
(* Burial.                                                                 *)
(***************************************************************************)
\* p takes the EXITED child c out of the exited table and hands it to the
\* deleter.
Reap(p, c) ==
    /\ WakeQueues({DeleterQueue}, {}, [state EXCEPT ![c] = "COLLECTED"])
    /\ exited' = exited \ {c}
    /\ children' = [children EXCEPT ![p] = Without(@, c)]
    /\ collecting' = [collecting EXCEPT ![p] = {}]
    /\ collected' = collected \cup {c}
    /\ UNCHANGED <<current, sleeptill, sleepQueue, now, panic, table, ppid, doomed,
                   outOfEntries>>

\* p leaves the CPU until one of its children exits.
AwaitExit(p, T) ==
    /\ Resched(p, "COLLECTING", None, {}, ByTimeout)
    /\ collecting' = [collecting EXCEPT ![p] = T]
    /\ current' = Scheduler
    /\ UNCHANGED <<sleeptill, mProcesses, sleepQueue, exited, now,
                   table, ppid, children, doomed, collected, outOfEntries>>

\* The first child of p, in the order of the list, that is in T and EXITED.
FirstExited(p, T) ==
    {children[p][i] : i \in {i \in DOMAIN children[p] :
        /\ children[p][i] \in T /\ state[children[p][i]] = "EXITED"
        /\ \A j \in 1..(i - 1) :
              ~(children[p][j] \in T /\ state[children[p][j]] = "EXITED")}}

\* collect() when T is one child, collectany() when it is all of them.
Collect(p, T) ==
    /\ Running(p)
    /\ \/ \E c \in FirstExited(p, T) : Reap(p, c)
       \/ FirstExited(p, T) = {} /\ AwaitExit(p, T)

\* What p may collect: what it blocked for, or whatever it asks for now.
Collectable(p) ==
    IF collecting[p] # {} THEN {collecting[p]}
    ELSE {{c} : c \in Members(children[p])} \cup {Members(children[p])}

CollectorStep ==
    \/ children[Collector] # <<>> /\ Collect(Collector, {Head(children[Collector])})
    \/ children[Collector] = <<>> /\ Wait(Collector, CollectorQueue) /\ UNCHANGED familyVars

\* The slots the deleter frees.  The mutant takes the uncollected ones too.
FreedEarly == collected \cup exited
Freed == collected

\* The deleter frees everything on its list, then parks.
DeleterStep ==
    /\ Wait(Deleter, DeleterQueue)
    /\ table' = table \ Freed
    /\ collected' = {}
    /\ UNCHANGED <<ppid, children, collecting, doomed, outOfEntries>>

(***************************************************************************)
(* The system.                                                             *)
(***************************************************************************)
\* Bound: the system tasks have not been woken too often.
MaySpawn == waitToken[Deleter] < MaxWakes /\ waitToken[Collector] < MaxWakes

\* Bound: p may still block in collect.
MayCollect(p) == waitToken[p] < IF p = Root THEN MaxWakes ELSE MaxToken

\* p is in user code: neither inside collect nor headed for the reaper.
InUserCode(p) == collecting[p] = {} /\ (p \in Process => ~doomed[p])

\* What an ordinary program does between two system calls.
ProgramStep(p) ==
    \/ InUserCode(p) /\ ProcessStep(p) /\ UNCHANGED familyVars
    \/ \E k \in Process : InUserCode(p) /\ Kill(p, k)
    \/ \E Q \in SUBSET ObjectQueues : (InUserCode(p) \/ doomed[p]) /\ Exit(p, Q)

\* What init and ordinary programs do.
ParentStep(p) ==
    \/ \E c \in Process : InUserCode(p) /\ MaySpawn /\ Spawn(p, c)
    \/ InUserCode(p) /\ MaySpawn /\ SpawnFails(p)
    \/ \E T \in Collectable(p) : /\ p \in Process => ~doomed[p]
                                 /\ MayCollect(p) \/ FirstExited(p, T) # {}
                                 /\ Collect(p, T)

AwakerTask == AwakerStep /\ UNCHANGED familyVars

PMNext ==
    \/ \E t \in Task : Schedule(t) /\ UNCHANGED familyVars
    \/ \E p \in Process : ProgramStep(p)
    \/ \E p \in Process \cup {Root} : ParentStep(p)
    \/ \E p \in {Dummy, Root} : InUserCode(p) /\ Yield(p) /\ UNCHANGED familyVars
    \/ AwakerTask
    \/ CollectorStep
    \/ DeleterStep
    \/ \E q \in IrqQueues : IrqWake(q) /\ UNCHANGED familyVars
    \/ Tick /\ UNCHANGED familyVars

PMSpec == PMInit /\ [][PMNext]_pmVars

(***************************************************************************)
(* The abstract view of a process slot.                                    *)
(***************************************************************************)
LifeOf(c) ==
    IF c \notin table THEN "free"
    ELSE CASE state[c] = "EXITED"    -> "zombie"
           [] state[c] = "COLLECTED" -> "reaped"
           [] OTHER                  -> "live"

ParentOf(c) == IF LifeOf(c) \in {"live", "zombie"} THEN ppid[c] ELSE None

Life == INSTANCE ProcessLife
            WITH Slot <- Process, System <- SystemTask, Orphanage <- Collector,
                 NoParent <- None,
                 life <- [c \in Process |-> LifeOf(c)],
                 parent <- [c \in Process |-> ParentOf(c)]

(***************************************************************************)
(* Fairness: the timer preempts user code and the idle loop; kernel code   *)
(* that has the CPU, a collect that resumes and the reaper run on; and the *)
(* lottery eventually draws whoever is ready again and again.              *)
(***************************************************************************)
FairPMSpec ==
    /\ PMSpec
    /\ \A p \in Process \cup {Dummy, Root} :
          WF_pmVars(InUserCode(p) /\ Yield(p) /\ UNCHANGED familyVars)
    /\ \A p \in Process \cup {Root} :
          WF_pmVars(collecting[p] # {} /\ Collect(p, collecting[p]))
    /\ \A p \in Process : WF_pmVars(doomed[p] /\ Exit(p, {}))
    /\ WF_pmVars(AwakerTask)
    /\ WF_pmVars(CollectorStep)
    /\ WF_pmVars(DeleterStep)
    /\ \A t \in Task : SF_pmVars(Schedule(t) /\ UNCHANGED familyVars)

(***************************************************************************)
(* Properties.                                                             *)
(***************************************************************************)
\* The states of the processes that still count as somebody's child.
Alive == {t \in table : state[t] \notin {"EXITED", "COLLECTED"}}

\* Every process that has not been collected has a living parent that lists it
\* exactly once, and nobody else lists it: exit() never dereferences a missing
\* parent, and collect() never finds a child unlisted.  Whenever a process runs,
\* the exited table, where collect() looks, holds exactly the EXITED ones.
FamilyTree ==
    /\ \A c \in Process \cap table : state[c] # "COLLECTED" =>
          /\ ppid[c] \in Alive
          /\ ListedOnce(c, children[ppid[c]])
    /\ \A t \in Task : \A c \in Members(children[t]) :
          c \in table /\ state[c] # "COLLECTED" /\ ppid[c] = t
    /\ current # Scheduler => exited = {t \in table : state[t] = "EXITED"}

\* Nobody sleeps on a death that has happened: no parent waits for a child that
\* has exited already, and the collector and the deleter are not parked while they
\* have work.
NoMissedExit ==
    /\ \A p \in table : state[p] = "COLLECTING" =>
          \A c \in collecting[p] : state[c] # "EXITED"
    /\ children[Collector] # <<>> => state[Collector] # "WAITING"
    /\ collected # {} => state[Deleter] # "WAITING"

\* Nothing refers to a slot that was given back, and no step finds a process
\* where it should not be: the only PANIC is the one for want of a free slot.
NoDangling ==
    /\ \A t \in Task \ table :
          /\ readyCount[t] = 0
          /\ t \notin exited \cup collected
          /\ \A q \in WaitQueues : \A e \in mProcesses[q] : e.process # t
          /\ \A e \in sleepQueue : e.process # t
          /\ \A u \in table : t \notin Members(children[u])
    /\ panic => outOfEntries

\* Every step of the process manager is a step of ProcessLife or invisible
\* there: a slot is reused only after its parent reaped it, a child's parent is
\* always alive, and orphans change hands in the very step in which their
\* parent dies.
ImplementsLife == Life!LifeSpec

\* A process that has exited, or was killed and is not blocked, loses its slot
\* once the collector has come to it: the reaper, the collector and the deleter
\* each do their part.
SlotGivenBack ==
    \A c \in Process :
        /\ children[Collector] # <<>> /\ Head(children[Collector]) = c
        /\ state[c] = "EXITED" \/ (doomed[c] /\ state[c] = "AVAILABLE")
        ~> c \notin table \/ panic
===============================================================================
