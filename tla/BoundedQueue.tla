---------------------------- MODULE BoundedQueue ----------------------------
(* What a message queue promises: messages are received in the order they were
   sent, a jammed one first, each by one receiver, and no more than Max wait. *)
EXTENDS Naturals, Sequences

CONSTANTS Messages, Max, NoMessage

VARIABLES
    queue,
    received  \* the last message given out

Init == queue = << >> /\ received = NoMessage

Send(m) == Len(queue) < Max /\ queue' = Append(queue, m) /\ UNCHANGED received

Jam(m) == Len(queue) < Max /\ queue' = <<m>> \o queue /\ UNCHANGED received

Receive ==
    /\ queue # << >>
    /\ queue' = Tail(queue)
    /\ received' = Head(queue)

Next == Receive \/ \E m \in Messages : Send(m) \/ Jam(m)

Spec == Init /\ [][Next]_<<queue, received>>
=============================================================================
