---------------------------- MODULE SendQueue_fifo ----------------------------
(***************************************************************************)
(* The queue of messages to a service implements Fifo, whatever its        *)
(* capacity and the messages.  The step that matters is received_reply:    *)
(* removing an answered message and giving the service the next one is a   *)
(* single removal from the messages of service and queue taken together.   *)
(***************************************************************************)
EXTENDS SendQueue, SequenceTheorems, TLAPS

\* The type of the queue.
Typed == sq \in [given : Seq(Msg), queue : Seq(Msg), inflight : Nat]

Inv == Typed /\ QueueInv

\* What Without returns, element by element.
LEMMA WithoutProperties ==
    ASSUME NEW S, NEW s \in Seq(S), NEW i \in 1..Len(s)
    PROVE  /\ Without(s, i) \in Seq(S)
           /\ Len(Without(s, i)) = Len(s) - 1
           /\ \A j \in 1..(Len(s) - 1) :
                Without(s, i)[j] = IF j < i THEN s[j] ELSE s[j + 1]
<1> DEFINE a == SubSeq(s, 1, i - 1)
           b == SubSeq(s, i + 1, Len(s))
<1>1. Len(s) \in Nat /\ \A j \in 1..Len(s) : s[j] \in S
    BY LenProperties, ElementOfSeq
<1>2. a \in Seq(S) /\ Len(a) = i - 1 /\ \A j \in 1..(i - 1) : a[j] = s[j]
    <2>1. \A j \in 1..(i - 1) : s[j] \in S
        BY <1>1
    <2>2. /\ SubSeq(s, 1, i - 1) \in Seq(S)
          /\ Len(SubSeq(s, 1, i - 1)) = IF 1 <= i - 1 THEN (i - 1) - 1 + 1 ELSE 0
          /\ \A j \in 1..((i - 1) - 1 + 1) : SubSeq(s, 1, i - 1)[j] = s[1 + j - 1]
        <3>1. 1 \in Int /\ i - 1 \in Int
            BY <1>1
        <3> QED
            BY <2>1, <3>1, SubSeqProperties
    <2> QED
        BY <1>1, <2>2
<1>3. b \in Seq(S) /\ Len(b) = Len(s) - i /\ \A j \in 1..(Len(s) - i) : b[j] = s[i + j]
    <2>1. \A j \in (i + 1)..Len(s) : s[j] \in S
        BY <1>1
    <2>2. /\ SubSeq(s, i + 1, Len(s)) \in Seq(S)
          /\ Len(SubSeq(s, i + 1, Len(s))) = IF i + 1 <= Len(s) THEN Len(s) - (i + 1) + 1 ELSE 0
          /\ \A j \in 1..(Len(s) - (i + 1) + 1) : SubSeq(s, i + 1, Len(s))[j] = s[(i + 1) + j - 1]
        BY <1>1, <2>1, SubSeqProperties
    <2> QED
        BY <1>1, <2>2
<1>4. Without(s, i) = a \o b
    BY DEF Without
<1> HIDE DEF a, b
<1>5. /\ a \o b \in Seq(S)
      /\ Len(a \o b) = Len(a) + Len(b)
      /\ \A j \in 1..(Len(a) + Len(b)) : (a \o b)[j] = IF j <= Len(a) THEN a[j] ELSE b[j - Len(a)]
    BY <1>2, <1>3, ConcatProperties, Zenon
<1>6. ASSUME NEW j \in 1..(Len(s) - 1)
      PROVE  (a \o b)[j] = IF j < i THEN s[j] ELSE s[j + 1]
    <2>1. CASE j < i
        BY <1>1, <1>2, <1>3, <1>5, <2>1
    <2>2. CASE ~(j < i)
        <3>1. (a \o b)[j] = b[j - (i - 1)]
            BY <1>1, <1>2, <1>3, <1>5, <2>2
        <3>2. b[j - (i - 1)] = s[i + (j - (i - 1))]
            <4>1. j - (i - 1) \in 1..(Len(s) - i)
                BY <1>1, <2>2
            <4> QED
                BY <1>3, <4>1, Zenon
        <3> QED
            BY <1>1, <2>2, <3>1, <3>2
    <2> QED
        BY <2>1, <2>2
<1> QED
    BY <1>1, <1>2, <1>3, <1>4, <1>5, <1>6

\* Removing from the front part of a sequence leaves the rest as it is.
LEMMA WithoutConcat ==
    ASSUME NEW S, NEW s \in Seq(S), NEW t \in Seq(S), NEW i \in 1..Len(s)
    PROVE  Without(s \o t, i) = Without(s, i) \o t
<1> DEFINE l == Without(s \o t, i)
           u == Without(s, i)
<1>1. Len(s) \in Nat /\ Len(t) \in Nat
    BY LenProperties
<1>2. /\ s \o t \in Seq(S) /\ Len(s \o t) = Len(s) + Len(t)
      /\ \A j \in 1..(Len(s) + Len(t)) : (s \o t)[j] = IF j <= Len(s) THEN s[j] ELSE t[j - Len(s)]
    BY ConcatProperties, Zenon
<1>3. i \in 1..Len(s \o t)
    BY <1>1, <1>2
<1>4. /\ l \in Seq(S) /\ Len(l) = Len(s \o t) - 1
      /\ \A j \in 1..(Len(s \o t) - 1) : l[j] = IF j < i THEN (s \o t)[j] ELSE (s \o t)[j + 1]
    BY <1>2, <1>3, WithoutProperties, Zenon
<1>5. /\ u \in Seq(S) /\ Len(u) = Len(s) - 1
      /\ \A j \in 1..(Len(s) - 1) : u[j] = IF j < i THEN s[j] ELSE s[j + 1]
    BY WithoutProperties, Zenon
<1> HIDE DEF l, u
<1>6. /\ u \o t \in Seq(S) /\ Len(u \o t) = Len(u) + Len(t)
      /\ \A j \in 1..(Len(u) + Len(t)) : (u \o t)[j] = IF j <= Len(u) THEN u[j] ELSE t[j - Len(u)]
    BY <1>5, ConcatProperties, Zenon
<1>7. Len(l) = Len(u \o t)
    BY <1>1, <1>2, <1>4, <1>5, <1>6
<1>8. ASSUME NEW j \in 1..Len(l)
      PROVE  l[j] = (u \o t)[j]
    <2>1. j \in 1..(Len(s) + Len(t) - 1) /\ j \in Nat
        BY <1>1, <1>2, <1>4
    <2>2. CASE j <= Len(s) - 1
        BY <1>1, <1>2, <1>4, <1>5, <1>6, <2>1, <2>2
    <2>3. CASE ~(j <= Len(s) - 1)
        <3>1. l[j] = (s \o t)[j + 1]
            BY <1>1, <1>2, <1>4, <2>1, <2>3
        <3>2. (s \o t)[j + 1] = t[(j + 1) - Len(s)]
            BY <1>1, <1>2, <2>1, <2>3
        <3>3. (u \o t)[j] = t[j - (Len(s) - 1)]
            BY <1>1, <1>5, <1>6, <2>1, <2>3
        <3> QED
            BY <1>1, <2>1, <3>1, <3>2, <3>3
    <2> QED
        BY <2>2, <2>3
<1>9. l = u \o t
    BY <1>4, <1>6, <1>7, <1>8, SeqEqual, Zenon
<1> QED
    BY <1>9 DEF l, u

\* Appending to the second part of a sequence appends to the sequence.
LEMMA ConcatAppend ==
    ASSUME NEW S, NEW s \in Seq(S), NEW t \in Seq(S), NEW e \in S
    PROVE  s \o Append(t, e) = Append(s \o t, e)
<1>1. Append(t, e) = t \o <<e>> /\ <<e>> \in Seq(S)
    BY AppendIsConcat
<1>2. s \o t \in Seq(S)
    BY ConcatProperties, Zenon
<1>3. Append(s \o t, e) = (s \o t) \o <<e>>
    BY <1>2, AppendIsConcat, Zenon
<1>4. (s \o t) \o <<e>> = s \o (t \o <<e>>)
    <2>1. \A u \in Seq(S) : (s \o t) \o u = s \o (t \o u)
        BY ConcatAssociative
    <2> QED
        BY <1>1, <2>1
<1> QED
    BY <1>1, <1>3, <1>4

\* The head of the second part can be moved to the end of the first.
LEMMA ConcatMove ==
    ASSUME NEW S, NEW s \in Seq(S), NEW t \in Seq(S), t # << >>
    PROVE  Append(s, Head(t)) \o Tail(t) = s \o t
<1>1. Head(t) \in S /\ Tail(t) \in Seq(S) /\ <<Head(t)>> \in Seq(S)
    BY HeadTailProperties
<1>2. <<Head(t)>> \o Tail(t) = t
    BY <1>1
<1>3. Append(s, Head(t)) = s \o <<Head(t)>>
    BY <1>1, AppendIsConcat, Zenon
<1>4. (s \o <<Head(t)>>) \o Tail(t) = s \o (<<Head(t)>> \o Tail(t))
    <2>1. \A u \in Seq(S) : (s \o u) \o Tail(t) = s \o (u \o Tail(t))
        BY <1>1, ConcatAssociative
    <2> QED
        BY <1>1, <2>1
<1> QED
    BY <1>2, <1>3, <1>4

\* The parts of the queue.
LEMMA Parts ==
    ASSUME Inv
    PROVE  \E g \in Seq(Msg), w \in Seq(Msg), n \in Nat :
              sq = [given |-> g, queue |-> w, inflight |-> n]
<1>1. /\ sq = [given |-> sq.given, queue |-> sq.queue, inflight |-> sq.inflight]
      /\ sq.given \in Seq(Msg) /\ sq.queue \in Seq(Msg) /\ sq.inflight \in Nat
    BY DEF Inv, Typed
<1> QED
    BY <1>1, Zenon

\* A message is sent: the invariant is kept, and the messages of service and
\* queue grow by it at the end (SendQueue::send).
LEMMA SendStep ==
    ASSUME Capacity \in Nat, Inv, NEW m \in Msg, Send(m)
    PROVE  /\ Inv'
           /\ (sq.given \o sq.queue)' = Append(sq.given \o sq.queue, m)
<1>1. PICK g \in Seq(Msg), w \in Seq(Msg), n \in Nat :
          sq = [given |-> g, queue |-> w, inflight |-> n]
    BY Parts, Zenon
<1>2. n = Len(g) /\ n <= Capacity /\ (w # << >> => n = Capacity)
    BY <1>1 DEF Inv, QueueInv
<1>3. sq.given = g /\ sq.queue = w
    BY <1>1
<1>4. CASE n < Capacity
    <2>1. sq' = [given |-> Append(g, m), queue |-> w, inflight |-> n + 1]
        BY <1>1, <1>4 DEF Send, send, do_send
    <2>2. w = << >>
        BY <1>2, <1>4
    <2>3. Inv'
        BY <1>2, <1>4, <2>1, <2>2 DEF Inv, Typed, QueueInv
    <2>4. (sq.given \o sq.queue)' = Append(g, m) \o << >>
        BY <2>1, <2>2
    <2>5. Append(g, m) \in Seq(Msg)
        BY AppendProperties
    <2>6. Append(g, m) \o << >> = Append(g, m) /\ g \o << >> = g
        BY <2>5, ConcatEmptySeq
    <2> QED
        BY <1>3, <2>2, <2>3, <2>4, <2>6
<1>5. CASE ~(n < Capacity)
    <2>1. sq' = [given |-> g, queue |-> Append(w, m), inflight |-> n]
        BY <1>1, <1>5 DEF Send, send
    <2>2. Inv'
        BY <1>2, <1>5, <2>1 DEF Inv, Typed, QueueInv
    <2>3. g \o Append(w, m) = Append(g \o w, m)
        <3>1. w \o <<m>> = Append(w, m) /\ <<m>> \in Seq(Msg)
            BY AppendIsConcat
        <3> QED
            BY ConcatAppend
    <2> QED
        BY <1>3, <2>1, <2>2, <2>3
<1> QED
    BY <1>4, <1>5

\* The service answers: the invariant is kept, and the answered message is
\* removed from those of service and queue (SendQueue::received_reply).
LEMMA ReplyStep ==
    ASSUME Capacity \in Nat, Inv, NEW i \in 1..Capacity, ReceivedReply(i)
    PROVE  /\ Inv'
           /\ i \in 1..Len(sq.given \o sq.queue)
           /\ (sq.given \o sq.queue)' = Without(sq.given \o sq.queue, i)
<1>1. PICK g \in Seq(Msg), w \in Seq(Msg), n \in Nat :
          sq = [given |-> g, queue |-> w, inflight |-> n]
    BY Parts, Zenon
<1>2. n = Len(g) /\ n <= Capacity /\ (w # << >> => n = Capacity)
    BY <1>1 DEF Inv, QueueInv
<1>3. sq.given = g /\ sq.queue = w
    BY <1>1
<1>4. i \in 1..Len(g)
    BY <1>3 DEF ReceivedReply
<1>5. PICK r \in Seq(Msg) : r = Without(g, i)
    BY <1>4, WithoutProperties, Zenon
<1>6. r \in Seq(Msg) /\ Len(r) = n - 1
    BY <1>2, <1>4, <1>5, WithoutProperties
<1>7. Without(g \o w, i) = r \o w
    BY <1>4, <1>5, WithoutConcat, Zenon
<1>8. i \in 1..Len(g \o w)
    <2>1. Len(g \o w) = Len(g) + Len(w) /\ Len(w) \in Nat /\ Len(g) \in Nat
        BY ConcatProperties
    <2> QED
        BY <1>4, <2>1
<1>9. answered(sq, i) = [given |-> r, queue |-> w, inflight |-> n - 1]
    BY <1>1, <1>3, <1>5 DEF answered
<1>10. CASE w = << >>
    <2>1. sq' = [given |-> r, queue |-> w, inflight |-> n - 1]
        BY <1>9, <1>10 DEF ReceivedReply, received_reply
    <2>2. Inv'
        BY <1>2, <1>4, <1>6, <1>10, <2>1 DEF Inv, Typed, QueueInv
    <2> QED
        BY <1>3, <1>7, <1>8, <2>1, <2>2
<1>11. CASE w # << >>
    <2> DEFINE a == answered(sq, i)
    <2>1. PICK h \in Msg, v \in Seq(Msg) : h = Head(w) /\ v = Tail(w)
        BY <1>11, HeadTailProperties, Zenon
    <2>2. sq' = do_send([a EXCEPT !.queue = Tail(a.queue)], Head(a.queue))
        <3>1. a.queue # << >>
            BY <1>9, <1>11
        <3> QED
            BY <3>1, Zenon DEF ReceivedReply, received_reply
    <2>3. a.queue = w /\ [a EXCEPT !.queue = v] = [given |-> r, queue |-> v, inflight |-> n - 1]
        BY <1>9
    <2> HIDE DEF a
    <2>4. sq' = do_send([given |-> r, queue |-> v, inflight |-> n - 1], h)
        BY <2>1, <2>2, <2>3
    <2>5. sq' = [given |-> Append(r, h), queue |-> v, inflight |-> n]
        BY <2>4 DEF do_send
    <2>6. sq' = [given |-> Append(r, Head(w)), queue |-> Tail(w), inflight |-> n]
        BY <2>1, <2>5
    <2>7. Head(w) \in Msg /\ Tail(w) \in Seq(Msg) /\ Append(r, Head(w)) \in Seq(Msg)
          /\ Len(Append(r, Head(w))) = n
        BY <1>6, <1>11
    <2>8. Inv'
        BY <1>2, <1>11, <2>6, <2>7 DEF Inv, Typed, QueueInv
    <2>9. Append(r, Head(w)) \o Tail(w) = r \o w
        BY <1>6, <1>11, ConcatMove, Zenon
    <2> QED
        BY <1>3, <1>7, <1>8, <2>6, <2>8, <2>9
<1> QED
    BY <1>10, <1>11

\* Every step keeps the invariant and is one of Fifo.
LEMMA NextStep ==
    ASSUME Capacity \in Nat, Inv, [Next]_sq
    PROVE  Inv' /\ [Abstract!Next]_(sq.given \o sq.queue)
<1>1. CASE UNCHANGED sq
    BY <1>1 DEF Inv, Typed, QueueInv
<1>2. ASSUME NEW m \in Msg, Send(m)
      PROVE  Inv' /\ Abstract!Next
    <2> DEFINE q == sq.given \o sq.queue
    <2>1. Inv' /\ q' = Append(q, m)
        BY <1>2, SendStep
    <2>2. q \in Seq(Msg)
        BY DEF Inv, Typed
    <2> HIDE DEF q
    <2>3. /\ Append(q, m) \in Seq(Msg) /\ Len(Append(q, m)) = Len(q) + 1
          /\ Len(q) \in Nat /\ \A j \in 1..Len(q) : Append(q, m)[j] = q[j]
        BY <2>2
    <2>4. SubSeq(Append(q, m), 1, Len(q)) = q
        BY <2>2, <2>3
    <2>5. /\ Len(q') > Len(q) /\ SubSeq(q', 1, Len(q)) = q
          /\ q' \in Seq(Msg)
        BY <2>1, <2>3, <2>4
    <2> QED
        BY <2>1, <2>5 DEF q, Abstract!Next, Abstract!Put
<1>3. ASSUME NEW i \in 1..Capacity, ReceivedReply(i)
      PROVE  Inv' /\ Abstract!Next
    <2>1. Without(sq.given \o sq.queue, i) = Abstract!Without(sq.given \o sq.queue, i)
        BY DEF Without, Abstract!Without
    <2>2. /\ Inv'
          /\ i \in 1..Len(sq.given \o sq.queue)
          /\ (sq.given \o sq.queue)' = Without(sq.given \o sq.queue, i)
        BY <1>3, ReplyStep
    <2>3. i <= Capacity
        OBVIOUS
    <2>4. Abstract!Answer(i)
        BY <2>1, <2>2, <2>3, Zenon DEF Abstract!Answer
    <2> QED
        BY <2>2, <2>4 DEF Abstract!Next
<1> QED
    BY <1>1, <1>2, <1>3 DEF Next

\* A message waits in the kernel only while the service has as many as it may
\* (SendQueue::send and received_reply keep "inflight" and the queue in step).
THEOREM QueueInvariant ==
    ASSUME Capacity \in Nat
    PROVE  Spec => []QueueInv
<1>1. Init => Inv
    BY DEF Init, Empty, Inv, Typed, QueueInv
<1>2. Inv /\ [Next]_sq => Inv'
    BY NextStep
<1>3. Inv => QueueInv
    BY DEF Inv
<1> QED
    BY <1>1, <1>2, <1>3, PTL DEF Spec

\* The queue implements Fifo: messages reach the service in the order in which
\* the kernel sent them, none is lost and none is sent twice.
THEOREM QueueIsFifo ==
    ASSUME Capacity \in Nat
    PROVE  Spec => IsFifo
<1>1. Init => Inv /\ Abstract!Init
    BY DEF Init, Empty, Inv, Typed, QueueInv, Abstract!Init
<1>2. Inv /\ [Next]_sq => Inv' /\ [Abstract!Next]_(sq.given \o sq.queue)
    BY NextStep
<1> QED
    BY <1>1, <1>2, PTL DEF Spec, IsFifo, Abstract!Spec
=============================================================================
