---------------------------- MODULE MCBookkeeping -----------------------------
(***************************************************************************)
(* The small tables and counters of the kernel for TLC: the lottery, time  *)
(* slices, tick handlers, process slots and the lives of processes.  They  *)
(* do not interact, so a behaviour moves one of them, the part chosen in   *)
(* its initial state, and the states to check are a sum, not a product.    *)
(***************************************************************************)
EXTENDS Quantum, ProcessSlots, ProcessLife, TickHandlers, Lottery

VARIABLE part       \* the part that moves

bookVars == <<part, vars, slotVars, lifeVars, lotteryVars, tickVars>>

\* A part that does not move starts in one state.
Fixed ==
    /\ part # "quantum" => quantum = [p \in Process |-> 1]
    /\ part # "lottery" => tickets = [t \in Task |-> 1]

BookInit ==
    /\ part \in {"quantum", "slots", "life", "lottery", "ticks"}
    /\ Init /\ SlotsInit /\ LifeInit /\ LotteryInit /\ TickInit
    /\ Fixed

BookNext ==
    \/ part = "quantum" /\ Next /\ UNCHANGED <<part, slotVars, lifeVars, lotteryVars, tickVars>>
    \/ part = "slots" /\ SlotsNext /\ UNCHANGED <<part, vars, lifeVars, lotteryVars, tickVars>>
    \/ part = "life" /\ LifeNext /\ UNCHANGED <<part, vars, slotVars, lotteryVars, tickVars>>
    \/ part = "lottery" /\ LotteryNext /\ UNCHANGED <<part, vars, slotVars, lifeVars, tickVars>>
    \/ part = "ticks" /\ TickNext /\ UNCHANGED <<part, vars, slotVars, lifeVars, lotteryVars>>

BookSpec == BookInit /\ [][BookNext]_bookVars /\ Fairness
===============================================================================
