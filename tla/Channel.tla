------------------------------- MODULE Channel --------------------------------
(***************************************************************************)
(* What pipes and message queues promise: a first-in first-out channel of  *)
(* bounded capacity.  Items come out once each, in the order they went in, *)
(* and nothing else comes out; the channel may be emptied when the last    *)
(* client goes.                                                            *)
(***************************************************************************)
EXTENDS Integers, Sequences

CONSTANTS Item, Capacity

VARIABLES
    queue,          \* what is in the channel
    out             \* what came out in the last step

Init == queue = <<>> /\ out = <<>>

\* Items go in at the end.
Send ==
    /\ Len(queue) < Len(queue') /\ Len(queue') <= Capacity
    /\ queue = SubSeq(queue', 1, Len(queue))
    /\ out' = <<>>

\* Items come out at the front.
Receive == out' # <<>> /\ queue = out' \o queue'

\* The channel goes away with what it holds.
Discard == queue' = <<>> /\ out' = <<>>

\* A step of somebody that moves nothing.
Idle == queue' = queue /\ out' = <<>>

Next == Send \/ Receive \/ Discard \/ Idle

Spec == Init /\ [][Next]_<<queue, out>>
===============================================================================
