----------------------------- MODULE KPEChannel -----------------------------
(***************************************************************************)
(* The channels between kernels (apps/kernel/pes/KPE.cc and KPE.h): the    *)
(* count of messages in flight, the threads that wait for a message slot,  *)
(* and the kernelcall handlers that answer, ask on and answer again.       *)
(*                                                                         *)
(* A kernelcall sent with sendTo or sendRevocationTo counts as in flight   *)
(* until its receiver answers.  The answer, sent with reply, does not      *)
(* count.  A thread that finds too many messages in flight waits, and      *)
(* other handlers of its kernel run meanwhile.                             *)
(*                                                                         *)
(* What is sent: requests that are answered at once, and revocations along *)
(* chains of kernels.  Chain[r] is the path of a capability tree from its  *)
(* root (first) to a leaf (last): each kernel on it passes the revocation  *)
(* on to the next, and the end of it back to the previous one.             *)
(***************************************************************************)
EXTENDS Integers, Sequences, FiniteSets, SequencesExt

CONSTANTS
    Kernel,             \* the kernels
    MAX_MSG_INFLIGHT,   \* message slots for the kernelcalls of one kernel
    Chain,              \* the chains of kernels to revoke along
    Threads             \* what the threads of the VPEs send, one job each

\* MAX_MSG_INFLIGHT is greater than 2, and neighbours in a chain differ.

VARIABLES
    inflight,    \* _msgsInflight of a kernel's KPE for another kernel
    lastReply,   \* _lastMsgReply: a reply was the last message sent
    waiting,     \* _waitingThrds: the jobs that wait for a slot
    net,         \* messages sent by one kernel and not fetched by the other
    run,         \* the job of the running thread of a kernel
    ready,       \* woken up threads of a kernel
    todo,        \* system calls that have not begun
    done         \* chains whose root knows that the revocation is finished

vars == <<inflight, lastReply, waiting, net, run, ready, todo, done>>

Pair == {p \in Kernel \X Kernel : p[1] # p[2]}

(***************************************************************************)
(* Messages.  "ack" is includeReply of revokeFinish: whether the message   *)
(* is also the answer to the revoke.                                       *)
(***************************************************************************)
Msg(op, r, d, ack) == [op |-> op, r |-> r, d |-> d, ack |-> ack]
Request == Msg("request", 0, 0, FALSE)
Reply == Msg("reply", 0, 0, FALSE)
Revoke(r, d) == Msg("revoke", r, d, FALSE)
RevokeFinish(r, d, ack) == Msg("revokeFinish", r, d, ack)

\* One call of sendTo, sendRevocationTo or reply; a job is what a thread has
\* still to send.
SendTo(k, m) == [how |-> "sendTo", to |-> k, msg |-> m]
SendRevocationTo(k, m) == [how |-> "sendRevocationTo", to |-> k, msg |-> m]
SendReply(k) == [how |-> "reply", to |-> k, msg |-> Reply]

RevokeAlong(r) == SendRevocationTo(Chain[r][2], Revoke(r, 2))

\* The job of a message handler on the kernel that got m from kernel j:
\* revoke of a leaf and of another capability, revokeFinish at the root and
\* at another capability.
Job(m, j) ==
    LET c == Chain[m.r] IN
    CASE m.op = "request" -> <<SendReply(j)>>
      [] m.op = "reply" -> << >>
      [] m.op = "revoke" /\ m.d = Len(c) ->
           <<SendRevocationTo(j, RevokeFinish(m.r, m.d - 1, TRUE))>>
      [] m.op = "revoke" /\ m.d < Len(c) ->
           <<SendRevocationTo(c[m.d + 1], Revoke(m.r, m.d + 1)), SendReply(j)>>
      [] m.op = "revokeFinish" /\ m.d = 1 -> <<SendReply(j)>>
      [] m.op = "revokeFinish" /\ m.d > 1 ->
           <<SendRevocationTo(c[m.d - 1], RevokeFinish(m.r, m.d - 1, FALSE)),
             SendReply(j)>>

Init ==
    /\ inflight = [p \in Pair |-> 0]
    /\ lastReply = [p \in Pair |-> FALSE]
    /\ waiting = [p \in Pair |-> << >>]
    /\ net = [p \in Pair |-> << >>]
    /\ run = [k \in Kernel |-> << >>]
    /\ ready = [k \in Kernel |-> << >>]
    /\ todo = DOMAIN Threads
    /\ done = {}

Idle(k) == run[k] = << >>

(***************************************************************************)
(* Sending.                                                                *)
(***************************************************************************)
\* Mutant: a revocation takes the slot that is kept for replies.
Mut_MustWait(k, s) ==
    LET n == inflight[<<k, s.to>>] IN
    CASE s.how = "sendTo" -> n >= MAX_MSG_INFLIGHT - 2
      [] s.how = "sendRevocationTo" -> n >= MAX_MSG_INFLIGHT
      [] s.how = "reply" -> n >= MAX_MSG_INFLIGHT - 1 /\ lastReply[<<k, s.to>>]

\* The conditions of the waiting loops.
MustWait(k, s) ==
    LET n == inflight[<<k, s.to>>] IN
    CASE s.how = "sendTo" -> n >= MAX_MSG_INFLIGHT - 2
      [] s.how = "sendRevocationTo" -> n >= MAX_MSG_INFLIGHT - 1
      [] s.how = "reply" -> n >= MAX_MSG_INFLIGHT - 1 /\ lastReply[<<k, s.to>>]

Send(k) ==
    LET s == Head(run[k])
        p == <<k, s.to>> IN
    /\ ~Idle(k) /\ ~MustWait(k, s)
    /\ net' = [net EXCEPT ![p] = Append(@, s.msg)]
    /\ inflight' = IF s.how = "reply" THEN inflight
                   ELSE [inflight EXCEPT ![p] = @ + 1]
    /\ lastReply' = IF s.how = "reply" THEN [lastReply EXCEPT ![p] = TRUE]
                    ELSE lastReply
    /\ run' = [run EXCEPT ![k] = Tail(@)]
    /\ UNCHANGED <<waiting, ready, todo, done>>

\* The first woken up thread of a kernel runs, with this job.
TakeReady(k, job) ==
    /\ run' = [run EXCEPT ![k] = job]
    /\ ready' = [ready EXCEPT ![k] = Tail(@)]

\* Revocations are put in front of the others.  A woken up thread runs next,
\* if there is one (ThreadManager::wait_for).
Wait(k) ==
    LET s == Head(run[k])
        p == <<k, s.to>> IN
    /\ ~Idle(k) /\ MustWait(k, s)
    /\ waiting' = [waiting EXCEPT ![p] =
         IF s.how = "sendRevocationTo" THEN <<run[k]>> \o @
                                       ELSE Append(@, run[k])]
    /\ IF ready[k] = << >>
         THEN run' = [run EXCEPT ![k] = << >>] /\ UNCHANGED ready
         ELSE TakeReady(k, Head(ready[k]))
    /\ UNCHANGED <<inflight, lastReply, net, todo, done>>

\* Mutant: the thread does not look at the condition again and goes on.
Mut_Resume(k) ==
    /\ Idle(k) /\ ready[k] # << >>
    /\ TakeReady(k, Tail(Head(ready[k])))
    /\ UNCHANGED <<inflight, lastReply, waiting, net, todo, done>>

\* The work loop yields to a woken up thread, which looks at the condition
\* again.
Resume(k) ==
    /\ Idle(k) /\ ready[k] # << >>
    /\ TakeReady(k, Head(ready[k]))
    /\ UNCHANGED <<inflight, lastReply, waiting, net, todo, done>>

(***************************************************************************)
(* Receiving.                                                              *)
(***************************************************************************)
\* Mutant: revokeFinish ignores includeReply.
Mut_Answers(m) == m.op = "reply"

\* The messages that answer a counted one.
Answers(m) == m.op = "reply" \/ m.ack

\* KPE::msg_received: one thread is woken up; if only the slot for
\* revocations is free, one that waits with a revocation.
MsgReceived(k, j) ==
    LET p == <<k, j>>
        n == inflight[p] - 1
        q == waiting[p]
        wake == /\ q # << >>
                /\ \/ n < MAX_MSG_INFLIGHT - 2
                   \/ Head(Head(q)).how = "sendRevocationTo" IN
    /\ inflight' = [inflight EXCEPT ![p] = n]
    /\ lastReply' = [lastReply EXCEPT ![p] = FALSE]
    /\ waiting' = IF wake THEN [waiting EXCEPT ![p] = Tail(@)] ELSE waiting
    /\ ready' = IF wake THEN [ready EXCEPT ![k] = Append(@, Head(q))] ELSE ready

\* The work loop fetches a message; its handler runs.
Handle(k, j) ==
    LET p == <<j, k>>
        m == Head(net[p]) IN
    /\ Idle(k) /\ p \in Pair /\ net[p] # << >>
    /\ net' = [net EXCEPT ![p] = Tail(@)]
    /\ IF Answers(m) THEN MsgReceived(k, j)
                     ELSE UNCHANGED <<inflight, lastReply, waiting, ready>>
    /\ done' = IF m.op = "revokeFinish" /\ m.d = 1 THEN done \cup {m.r} ELSE done
    /\ run' = [run EXCEPT ![k] = Job(m, j)]
    /\ UNCHANGED todo

\* A system call begins.
Syscall(t) ==
    LET k == Threads[t].kernel IN
    /\ t \in todo /\ Idle(k)
    /\ run' = [run EXCEPT ![k] = Threads[t].job]
    /\ todo' = todo \ {t}
    /\ UNCHANGED <<inflight, lastReply, waiting, net, ready, done>>

\* A step of a kernel, each on a processor of its own.
Step(k) == Send(k) \/ Wait(k) \/ Resume(k) \/ \E j \in Kernel : Handle(k, j)

Next ==
    \/ \E k \in Kernel : Step(k)
    \/ \E t \in DOMAIN Threads : Syscall(t)

Spec == Init /\ [][Next]_vars

\* If a kernel can go on, one goes on.  There is an end to every job, so none
\* can be put off forever.
Progress == \E k \in Kernel : Step(k)
Fairness == WF_vars(Progress)

FairSpec == Spec /\ Fairness

(***************************************************************************)
(* Properties.                                                             *)
(***************************************************************************)
\* The variables have their types.  The count is below MAX_MSG_INFLIGHT, as
\* KPE::reply asserts, and never negative, as KPE::msg_received asserts.
TypeOK ==
    /\ inflight \in [Pair -> 0..(MAX_MSG_INFLIGHT - 1)]
    /\ lastReply \in [Pair -> BOOLEAN]
    /\ DOMAIN waiting = Pair /\ DOMAIN net = Pair
    /\ DOMAIN run = Kernel /\ DOMAIN ready = Kernel
    /\ todo \subseteq DOMAIN Threads
    /\ done \subseteq DOMAIN Chain

\* A job that ends with the answer to a message of kernel j, and the jobs of
\* kernel k of that kind: running, woken up or waiting for a slot.
Owes(job, j) ==
    /\ job # << >>
    /\ Last(job).to = j /\ (Last(job).how = "reply" \/ Last(job).msg.ack)

Count(q, P(_)) == Len(SelectSeq(q, P))

Owed(k, j) ==
    LET P(job) == Owes(job, j)
        Waits(i) == Count(waiting[<<k, i>>], P) IN
    Count(<<run[k]>> \o ready[k], P) + MapThenSumSet(Waits, Kernel \ {k})

\* The count of messages in flight is exact: each is not fetched yet, or its
\* handler has not answered yet, or the answer is not fetched yet.
InflightExact ==
    \A p \in Pair :
        LET Counts(m) == m.op # "reply" IN
        inflight[p] = Count(net[p], Counts) + Owed(p[2], p[1])
                        + Count(net[<<p[2], p[1]>>], Answers)

\* No wake-up is lost: when nothing is in flight, a thread that waits for a
\* slot has another one before it that is about to use the channel.
NoLostWakeup ==
    \A p \in Pair : inflight[p] = 0 /\ waiting[p] # << >> =>
        \E job \in {run[p[1]]} \cup Range(ready[p[1]]) :
            job # << >> /\ Head(job).to = p[2]

\* A revocation that begins comes to its end: the root learns of it.
RevocationsEnd == todo = {} ~> done = DOMAIN Chain
=============================================================================
