-------------------------------- MODULE Synch ---------------------------------
(***************************************************************************)
(* Mutexes, semaphores and events (synch/mutex.cpp, semaphore.cpp,         *)
(* event.cpp, waitobj.cpp) and the calls programs reach them with: wait1   *)
(* with or without a timeout, and the ioctls of MutexFS, SemaphoreFS and   *)
(* EventFS.  The objects block and wake processes through Scheduling; an   *)
(* object is identified with its wait queue.                               *)
(***************************************************************************)
EXTENDS Scheduling

CONSTANTS
    Mutexes, Semaphores, Events,    \* the objects
    Initial,                        \* value a semaphore starts with
    Limits,                         \* values for its maximum
    MaxSignals                      \* bound: unlocks, signals or raises of an object

\* A wait: on what, for how long (0: for ever), and whether it is the ioctl of a
\* mutex, which throws the answer away (as that of a semaphore does, where it
\* makes no difference to what is modelled).
Call ==
    {c \in [object : ObjectQueues, timeout : Timeouts \cup {0}, ioctl : BOOLEAN] :
        c.ioctl => c.timeout = 0 /\ c.object \in Mutexes}

ASSUME SynchAssumption ==
    /\ Mutexes \cup Semaphores \cup Events = ObjectQueues
    /\ Mutexes \cap Semaphores = {} /\ (Mutexes \cup Semaphores) \cap Events = {}
    /\ Initial \in Nat /\ Limits \subseteq Nat
    /\ MaxSignals \in Nat
    /\ None \notin Call

VARIABLES
    owner,          \* Mutex: mPid while mLocked, None otherwise
    mValue,         \* Semaphore
    mMaxValue,      \* Semaphore
    mRaised,        \* Event
    call,           \* the wait each process is inside of, or None
    told,           \* mutexes wait1 or trylock said the process has
    signals,        \* unlocks, signals or raises of each object so far
    grants          \* successful waits on each semaphore so far

objectVars == <<owner, mValue, mMaxValue, mRaised>>
callVars == <<call, told, signals, grants>>
synchVars == <<schedVars, objectVars, callVars>>

SynchInit ==
    /\ Init
    /\ owner = [m \in Mutexes |-> None]
    /\ mValue = [s \in Semaphores |-> Initial]
    /\ mMaxValue \in [Semaphores -> Limits]
    /\ mRaised = [e \in Events |-> FALSE]
    /\ call = [p \in Process |-> None]
    /\ told = [p \in Process |-> {}]
    /\ signals = [o \in ObjectQueues |-> 0]
    /\ grants = [s \in Semaphores |-> 0]

InUserCode(p) == Running(p) /\ call[p] = None

\* o is signalled once more (a ghost), within its bound.
Count(o) ==
    /\ signals[o] < MaxSignals
    /\ signals' = [signals EXCEPT ![o] = @ + 1]

(***************************************************************************)
(* wait().                                                                 *)
(***************************************************************************)
\* Can a wait on o succeed now?
Available(o) ==
    \/ o \in Mutexes /\ owner[o] = None
    \/ o \in Semaphores /\ mValue[o] > 0
    \/ o \in Events /\ mRaised[o]

\* p takes o: dolock, or the semaphore's compare-and-swap.  The mutant forgets
\* to decrement.
TakeNoCount(p, o) ==
    /\ owner' = [m \in Mutexes |-> IF m = o THEN p ELSE owner[m]]
    /\ mValue' = mValue
Take(p, o) ==
    /\ owner' = [m \in Mutexes |-> IF m = o THEN p ELSE owner[m]]
    /\ mValue' = [s \in Semaphores |-> IF s = o THEN mValue[s] - 1 ELSE mValue[s]]

\* The wait c of p returns ok.
Return(p, c, ok) ==
    /\ call' = [call EXCEPT ![p] = None]
    /\ told' = [told EXCEPT ![p] = IF ok /\ ~c.ioctl
                                   THEN @ \cup ({c.object} \cap Mutexes) ELSE @]
    /\ grants' = [s \in Semaphores |->
                     IF ok /\ s = c.object THEN grants[s] + 1 ELSE grants[s]]
    /\ UNCHANGED <<schedVars, signals>>

\* WaitQueue::yield.
Enqueue(p, c) ==
    /\ IF c.timeout = 0 THEN Wait(p, c.object) ELSE TimedWait(p, c.object, c.timeout)
    /\ call' = [call EXCEPT ![p] = c]
    /\ UNCHANGED <<objectVars, told, signals, grants>>

\* One turn of the loop in wait(): may says whether it may still block.
Attempt(p, c, may) ==
    \/ /\ Available(c.object)
       /\ Take(p, c.object)
       /\ Return(p, c, TRUE)
       /\ UNCHANGED <<mMaxValue, mRaised>>
    \/ /\ ~Available(c.object) /\ may
       /\ Enqueue(p, c)
    \/ /\ ~Available(c.object) /\ ~may
       /\ Return(p, c, FALSE)
       /\ UNCHANGED objectVars

\* A wait that was woken may block again only if it has a timeout.  The mutant
\* gives up in any case.
PatientNever(c) == FALSE
Patient(c) == c.timeout > 0

\* WaitableObject::myWake.
MyWake(p, o) == wakeReason[p].waitable = o

BeginWait(p, c) == InUserCode(p) /\ Attempt(p, c, TRUE)

\* p runs again inside its wait: an event says whether it was signalled, the
\* others look again.
ResumeWait(p) ==
    /\ Running(p)
    /\ call[p] # None
    /\ LET c == call[p] IN
       \/ /\ ~MyWake(p, c.object) \/ c.object \in Events
          /\ Return(p, c, MyWake(p, c.object))
          /\ UNCHANGED objectVars
       \/ /\ MyWake(p, c.object) /\ c.object \notin Events
          /\ Attempt(p, c, Patient(c))

(***************************************************************************)
(* The other calls.                                                        *)
(***************************************************************************)
TryLock(p, m) ==
    /\ InUserCode(p)
    /\ \/ /\ owner[m] = None
          /\ owner' = [owner EXCEPT ![m] = p]
          /\ told' = [told EXCEPT ![p] = @ \cup {m}]
       \/ /\ owner[m] # None
          /\ UNCHANGED <<owner, told>>
    /\ UNCHANGED <<schedVars, mValue, mMaxValue, mRaised, call, signals, grants>>

\* Who may unlock m.  The mutant lets anybody.
UnlockerAny(p, m) == owner[m] # None
Unlocker(p, m) == owner[m] = p

\* Those who wait for m are woken.  The mutant forgets them.
UnlockedQuietly(m) == UNCHANGED schedVars
Unlocked(m) == WakeAll(m)

Unlock(p, m) ==
    /\ InUserCode(p)
    /\ \/ /\ Unlocker(p, m)
          /\ owner' = [owner EXCEPT ![m] = None]
          /\ Unlocked(m)
          /\ Count(m)
       \/ /\ ~Unlocker(p, m)
          /\ UNCHANGED <<owner, schedVars, signals>>
    /\ told' = [told EXCEPT ![p] = @ \ {m}]
    /\ UNCHANGED <<mValue, mMaxValue, mRaised, call, grants>>

\* The value after a signal: above the maximum it is the maximum.
Signalled(s) == IF mValue[s] + 1 > mMaxValue[s] THEN mMaxValue[s] ELSE mValue[s] + 1

SignalSemaphore(p, s) ==
    /\ InUserCode(p)
    /\ Count(s)
    /\ WakeAll(s)
    /\ mValue' = [mValue EXCEPT ![s] = Signalled(s)]
    /\ UNCHANGED <<owner, mMaxValue, mRaised, call, told, grants>>

SetMax(p, s, n) ==
    /\ InUserCode(p)
    /\ mMaxValue' = [mMaxValue EXCEPT ![s] = n]
    /\ UNCHANGED <<schedVars, owner, mValue, mRaised, callVars>>

\* Event::raise; an edge leaves the event lowered.  The mutant wakes only for
\* edges.
RaisedWakesEdge(e, level) ==
    IF level THEN UNCHANGED schedVars ELSE WakeAll(e)
RaisedWakes(e, level) == WakeAll(e)

Raise(p, e, level) ==
    /\ InUserCode(p)
    /\ mRaised' = [mRaised EXCEPT ![e] = @ \/ level]
    /\ RaisedWakes(e, level)
    /\ Count(e)
    /\ UNCHANGED <<owner, mValue, mMaxValue, call, told, grants>>

Lower(p, e) ==
    /\ InUserCode(p)
    /\ mRaised' = [mRaised EXCEPT ![e] = FALSE]
    /\ UNCHANGED <<schedVars, owner, mValue, mMaxValue, callVars>>

(***************************************************************************)
(* The system.                                                             *)
(***************************************************************************)
\* Bounds: see MayBlock and InTime.
MayWait(p, c) == MayBlock(p) /\ InTime(c.timeout)

ProgramStep(p) ==
    \/ InUserCode(p) /\ Yield(p) /\ UNCHANGED <<objectVars, callVars>>
    \/ \E c \in Call : MayWait(p, c) /\ BeginWait(p, c)
    \/ ResumeWait(p)
    \/ \E m \in Mutexes : TryLock(p, m) \/ Unlock(p, m)
    \/ \E s \in Semaphores : SignalSemaphore(p, s) \/ \E n \in Limits : SetMax(p, s, n)
    \/ \E e \in Events : Lower(p, e) \/ \E level \in BOOLEAN : Raise(p, e, level)

KernelStep ==
    \/ \E t \in Task : Schedule(t)
    \/ Yield(Dummy)
    \/ AwakerStep
    \/ Tick

SynchNext ==
    \/ \E p \in Process : ProgramStep(p)
    \/ KernelStep /\ UNCHANGED <<objectVars, callVars>>

SynchSpec == SynchInit /\ [][SynchNext]_synchVars

\* Fairness: as in Scheduling, and a wait that resumes runs on.
Fairness ==
    /\ \A p \in Process : WF_synchVars(ResumeWait(p))
    /\ \A p \in Process \cup {Dummy} :
          WF_synchVars((p = Dummy \/ InUserCode(p)) /\ Yield(p) /\ UNCHANGED <<objectVars, callVars>>)
    /\ WF_synchVars(AwakerStep /\ UNCHANGED <<objectVars, callVars>>)
    /\ \A t \in Task : SF_synchVars(Schedule(t) /\ UNCHANGED <<objectVars, callVars>>)

(***************************************************************************)
(* Properties.                                                             *)
(***************************************************************************)
\* A mutex belongs to the process that wait1 or trylock said has it, until that
\* process unlocks it: in particular to one process only.
GrantedIsOwned == \A p \in Process : \A m \in told[p] : owner[m] = p

\* Nobody waits for what is there: no process is blocked on a free mutex, on a
\* semaphore above zero or on a raised event.
NoMissedSignal == \A o \in ObjectQueues : Available(o) => Waiters(o) = {}

\* Semaphores make no permits up: the waits that succeeded and the value left
\* are never more than the initial value and the signals.
PermitsConserved ==
    \A s \in Semaphores : mValue[s] + grants[s] <= Initial + signals[s]

\* The wait of p comes back in this step.
Returns(p) == call[p] # None /\ call'[p] = None

\* A wait with a timeout that comes back with nothing has waited its time: no
\* other process that was faster makes it fail early.
GivesUpInTime ==
    [][\A p \in Process :
          /\ Returns(p) /\ call[p].timeout > 0
          /\ UNCHANGED objectVars
          /\ call[p].object \in Events => ~MyWake(p, call[p].object)
          => sleeptill[p] <= now]_synchVars

\* A process blocked in a wait without a timeout comes back once the object is
\* there, even if others take it first, unless the awaker is kept busy by an
\* entry that a finished wait left in the sleep queue.
ComesBack ==
    \A p \in Process :
        /\ call[p] # None /\ call[p].timeout = 0
        /\ Available(call[p].object)
        ~> call[p] = None \/ \E e \in sleepQueue : Stale(e)

\* IOCTL_MUTEX_LOCK comes back with the mutex held.
LockMeansHeld ==
    [][\A p \in Process :
          Returns(p) /\ call[p].ioctl => owner'[call[p].object] = p]_synchVars
===============================================================================
