------------------------------ MODULE MCChannels ------------------------------
(***************************************************************************)
(* A message queue and a pipe for TLC: three processes and two places      *)
(* each.  They do not interact, so a behaviour moves the one that its      *)
(* initial state chooses, and the states to check are a sum.               *)
(***************************************************************************)
EXTENDS MessageQueue, Pipe

VARIABLE part       \* the one that moves

ChannelsInit == part \in {"queue", "pipe"} /\ Init /\ PipeInit

ChannelsNext ==
    \/ part = "queue" /\ Next /\ UNCHANGED <<part, pipeVars>>
    \/ part = "pipe" /\ PipeNext /\ UNCHANGED <<part, vars>>

ChannelsSpec ==
    ChannelsInit /\ [][ChannelsNext]_<<part, vars, pipeVars>> /\ PipeFairness
===============================================================================
