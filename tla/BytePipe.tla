------------------------------- MODULE BytePipe -------------------------------
(***************************************************************************)
(* What a pipe promises: the bytes written come out once each and in       *)
(* order, and the pipe never holds more than its memory.  The i-th byte    *)
(* that is written has the value i.                                        *)
(***************************************************************************)
EXTENDS Integers, Sequences

CONSTANT Size       \* bytes of shared memory

VARIABLES q,        \* the bytes in the pipe
          n,        \* number of bytes written so far
          got       \* what the last read returned

Init == q = << >> /\ n = 0 /\ got = << >>

Write ==
    \E c \in 1..(Size - Len(q)) :
        /\ q' = q \o [i \in 1..c |-> n + i]
        /\ n' = n + c
        /\ UNCHANGED got

Read ==
    \E c \in 1..Len(q) :
        /\ got' = SubSeq(q, 1, c)
        /\ q' = SubSeq(q, c + 1, Len(q))
        /\ UNCHANGED n

Next == Write \/ Read
Spec == Init /\ [][Next]_<<q, n, got>>
=============================================================================
