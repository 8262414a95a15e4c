------------------------------ MODULE SendQueue ------------------------------
(***************************************************************************)
(* The kernel's queue of messages to one service (apps/kernel/SendQueue.h).*)
(* At most Capacity messages are with the service; the others wait in the  *)
(* kernel, copied to the heap, until an answer makes room.                 *)
(***************************************************************************)
EXTENDS Integers, Sequences

CONSTANTS Msg, Capacity

VARIABLE sq     \* the queue: see Empty

\* A sequence without its i-th element.
Without(s, i) == SubSeq(s, 1, i - 1) \o SubSeq(s, i + 1, Len(s))

\* "given" are the messages the service has not answered, "queue" is _queue.
Empty == [given |-> << >>, queue |-> << >>, inflight |-> 0]

pending(s) == s.inflight + Len(s.queue)

\* SendQueue::do_send: the message goes to the service.
do_send(s, m) ==
    [given |-> Append(s.given, m), queue |-> s.queue, inflight |-> s.inflight + 1]

\* SendQueue::send.
send(s, m) ==
    IF s.inflight < Capacity THEN do_send(s, m)
                             ELSE [s EXCEPT !.queue = Append(@, m)]

\* SendQueue::received_reply for the answer to the i-th message, up to the
\* point where the queue is looked at.
answered(s, i) ==
    [given |-> Without(s.given, i), queue |-> s.queue, inflight |-> s.inflight - 1]

\* Mutant: the message that is sent stays in the queue.
Mut_received_reply(s, i) ==
    LET r == answered(s, i) IN
    IF r.queue = << >> THEN r ELSE do_send(r, Head(r.queue))

\* ... and the message that waits longest is sent.
received_reply(s, i) ==
    LET r == answered(s, i) IN
    IF r.queue = << >> THEN r
    ELSE do_send([r EXCEPT !.queue = Tail(@)], Head(r.queue))

Init == sq = Empty

Send(m) == sq' = send(sq, m)

ReceivedReply(i) ==
    /\ i \in 1..Len(sq.given)
    /\ sq' = received_reply(sq, i)

Next == (\E m \in Msg : Send(m)) \/ (\E i \in 1..Capacity : ReceivedReply(i))

Spec == Init /\ [][Next]_sq

\* The messages the service has are counted, and one waits in the kernel only
\* when the service has as many as it may.
QueueInv ==
    /\ sq.inflight = Len(sq.given) /\ sq.inflight <= Capacity
    /\ sq.queue # << >> => sq.inflight = Capacity

\* The queue is a FIFO: given messages first, then the waiting ones.
Abstract == INSTANCE Fifo WITH q <- sq.given \o sq.queue

IsFifo == Abstract!Spec
=============================================================================
