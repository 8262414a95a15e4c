-------------------------------- MODULE Fifo --------------------------------
(***************************************************************************)
(* What a queue of requests to a service promises: requests are taken over *)
(* in the order in which they were given, and only the oldest Capacity of  *)
(* them can be answered.                                                   *)
(***************************************************************************)
EXTENDS Integers, Sequences

CONSTANTS Msg, Capacity

VARIABLE q

\* A sequence without its i-th element.
Without(s, i) == SubSeq(s, 1, i - 1) \o SubSeq(s, i + 1, Len(s))

Init == q = << >>

\* One or more requests are given at a time.
Put ==
    /\ Len(q') > Len(q) /\ SubSeq(q', 1, Len(q)) = q
    /\ q' \in Seq(Msg)

Answer(i) ==
    /\ i \in 1..Len(q) /\ i <= Capacity
    /\ q' = Without(q, i)

Next == Put \/ (\E i \in 1..Capacity : Answer(i))

Spec == Init /\ [][Next]_q
=============================================================================
