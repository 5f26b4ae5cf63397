----------------------------- MODULE TickHandlers -----------------------------
(***************************************************************************)
(* The periodic callbacks of the timer (time/manager.cpp): a table of      *)
(* slots, each with a callback, a period every_N and a countdown.          *)
(***************************************************************************)
EXTENDS Integers

CONSTANTS
    Slots,          \* number of slots: gMaxTickFunctions
    Periods         \* values of every_N that are registered

ASSUME TickAssumption == Periods \subseteq Nat

VARIABLES
    callback,       \* is the slot taken?
    every_N,
    every_countdown,
    ran,            \* the slots whose callback the last tick ran
    since           \* ticks since the slot was registered or last ran

tickVars == <<callback, every_N, every_countdown, ran, since>>

Handler == 0..(Slots - 1)

TickInit ==
    /\ callback = [i \in Handler |-> FALSE]
    /\ every_N = [i \in Handler |-> 0]
    /\ every_countdown = [i \in Handler |-> 0]
    /\ ran = {}
    /\ since = [i \in Handler |-> 0]

\* The slots registerTickHandler can take: it takes the first.
Free == {i \in Handler : ~callback[i]}

\* The countdown a new handler starts with.  The mutant keeps the one that the
\* previous handler of the slot left.
StartLeft(i, n) == every_countdown[i]
Start(i, n) == n

RegisterTickHandler(n) ==
    /\ \E i \in Free :
          /\ \A j \in Free : i <= j
          /\ callback' = [callback EXCEPT ![i] = TRUE]
          /\ every_N' = [every_N EXCEPT ![i] = n]
          /\ every_countdown' = [every_countdown EXCEPT ![i] = Start(i, n)]
          /\ since' = [since EXCEPT ![i] = 0]
    /\ ran' = {}

UnregisterTickHandler(i) ==
    /\ callback' = [callback EXCEPT ![i] = FALSE]
    /\ ran' = {}
    /\ UNCHANGED <<every_N, every_countdown, since>>

\* The slots whose callback a tick runs.
Elapsed == {i \in Handler : callback[i] /\ every_countdown[i] = 0}

Tick ==
    /\ ran' = Elapsed
    /\ every_countdown' = [i \in Handler |->
            IF i \in Elapsed THEN every_N[i]
            ELSE IF callback[i] THEN every_countdown[i] - 1 ELSE every_countdown[i]]
    /\ since' = [i \in Handler |->
            IF i \in Elapsed \/ ~callback[i] THEN 0 ELSE since[i] + 1]
    /\ UNCHANGED <<callback, every_N>>

TickNext ==
    \/ \E n \in Periods : RegisterTickHandler(n)
    \/ \E i \in Handler : UnregisterTickHandler(i)
    \/ Tick

TickSpec == TickInit /\ [][TickNext]_tickVars

(***************************************************************************)
(* Properties.                                                             *)
(***************************************************************************)
\* A handler runs at its own pace from the moment it is registered: at each of
\* its runs exactly every_N ticks have passed it over since the last one, however
\* often its slot was cleared and taken again, and a cleared handler never runs.
OnSchedule ==
    [][Tick => \A i \in Handler :
          i \in ran' <=> callback[i] /\ since[i] = every_N[i]]_tickVars
===============================================================================
