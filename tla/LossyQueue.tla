----------------------------- MODULE LossyQueue -----------------------------
(***************************************************************************)
(* What a receive FIFO promises: words come out in the order they went in, *)
(* each once; a word is lost only when Capacity newer ones are behind it,  *)
(* and then it is the oldest.                                              *)
(***************************************************************************)
EXTENDS Integers, Sequences

CONSTANTS Capacity, Value, Nothing

VARIABLES queue, out   \* the words inside, and the one handed out last

Init == queue = <<>> /\ out = Nothing

Put ==
    \E v \in Value :
        /\ queue' = Append(IF Len(queue) = Capacity THEN Tail(queue) ELSE queue, v)
        /\ UNCHANGED out

Get == queue # <<>> /\ out' = Head(queue) /\ queue' = Tail(queue)

\* Reading an empty queue.
GetNothing == queue = <<>> /\ out' = Nothing /\ UNCHANGED queue

Next == Put \/ Get \/ GetNothing

Spec == Init /\ [][Next]_<<queue, out>>
=============================================================================
