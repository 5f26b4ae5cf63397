------------------------------- MODULE MCSynch --------------------------------
(***************************************************************************)
(* Synch for TLC: two processes, and a mutex, a semaphore and an event.    *)
(* Objects do not interact, so the programs of a behaviour use the one     *)
(* that its initial state chooses, and the states to check are a sum.      *)
(***************************************************************************)
EXTENDS Synch

VARIABLE used       \* the object the programs use

mcVars == <<synchVars, used>>

MCInit ==
    /\ SynchInit
    /\ used \in ObjectQueues
    /\ used \notin Semaphores => \A s \in Semaphores : mMaxValue[s] = Initial

\* The objects that are not used stay as they are.
Only ==
    /\ \A p \in Process : call'[p] # None => call'[p].object = used
    /\ \A o \in ObjectQueues \ {used} :
          /\ signals'[o] = signals[o]
          /\ o \in Mutexes => owner'[o] = owner[o]
          /\ o \in Semaphores => mValue'[o] = mValue[o] /\ mMaxValue'[o] = mMaxValue[o]
          /\ o \in Events => mRaised'[o] = mRaised[o]

MCNext == SynchNext /\ Only /\ UNCHANGED used

MCSpec == MCInit /\ [][MCNext]_mcVars /\ Fairness
===============================================================================
