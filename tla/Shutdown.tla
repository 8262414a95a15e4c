------------------------------ MODULE Shutdown ------------------------------
(***************************************************************************)
(* The shutdown of all kernels (SyscallHandler::tryTerminate, the          *)
(* kernelcalls requestShutdown and shutdown, PEManager::terminate).        *)
(*                                                                         *)
(* A kernel whose applications have ended tells kernel 0, or answers when  *)
(* kernel 0 asks it.  When all are known to be idle, kernel 0 tells them   *)
(* to shut down: each stops its services (the daemons), answers and stops  *)
(* its work loop.  Kernel 0 stops when every other kernel has answered,    *)
(* and with it the machine.                                                *)
(***************************************************************************)
EXTENDS Integers, Sequences, FiniteSets, FiniteSetsExt

CONSTANTS
    Kernel,     \* the kernels; 0 coordinates
    Apps,       \* VPEs that are no daemons at the start, per kernel
    Daemons,    \* daemons at the start, per kernel
    MAX_MSG_INFLIGHT,   \* message slots for the kernelcalls of one kernel
    MaxCreated  \* bound: VPEs created later

VARIABLES
    count,      \* PEManager::_count, the VPEs of a kernel
    daemons,    \* PEManager::_daemons
    shut,       \* PEManager::_shutdown: the services were told to end
    stopped,    \* the work loop was stopped
    closing,    \* Coordinator::closingRequests
    requests,   \* Coordinator::shutdownRequests
    issued,     \* Coordinator::shutdownIssued
    state,      \* KPE::_readyForShutdown, kept by kernel 0
    kpes,       \* Coordinator::_kpes of kernel 0
    inflight,   \* KPE::_msgsInflight from kernel 0 to another
    waiting,    \* KPE::_waitingThrds of kernel 0: kernels they have still to tell
    ready,      \* threads of kernel 0 that were woken up
    toZero,     \* messages from a kernel to kernel 0
    fromZero,   \* messages from kernel 0 to a kernel
    created     \* VPEs created so far

pes == <<count, daemons, created>>
coord == <<closing, requests, issued, state, kpes>>
net == <<inflight, waiting, ready, toZero, fromZero>>
vars == <<pes, shut, stopped, coord, net>>

Other == Kernel \ {0}

Init ==
    /\ count = [k \in Kernel |-> Apps[k] + Daemons[k]]
    /\ daemons = Daemons
    /\ shut = [k \in Kernel |-> FALSE]
    /\ stopped = [k \in Kernel |-> FALSE]
    /\ closing = [k \in Kernel |-> -1]
    /\ requests = [k \in Kernel |-> 0]
    /\ issued = [k \in Kernel |-> FALSE]
    /\ state = [k \in Other |-> "NONE"]
    /\ kpes = Other
    /\ inflight = [k \in Other |-> 0]
    /\ waiting = [k \in Other |-> << >>]
    /\ ready = << >>
    /\ toZero = [k \in Other |-> << >>]
    /\ fromZero = [k \in Other |-> << >>]
    /\ created = 0

\* used() <= daemons(), after the step.
Idle(k) == count'[k] <= daemons'[k]

\* A kernel sends a message to kernel 0.
Tell(k, m) == toZero' = [toZero EXCEPT ![k] = Append(@, m)]

\* Coordinator::broadcastShutdownRequest asks the kernels of a set.  It is the
\* first message to each of them and finds a slot.
BroadcastRequest(K) ==
    /\ fromZero' = [k \in Other |-> IF k \in K THEN Append(fromZero[k], "requestShutdown")
                                               ELSE fromZero[k]]
    /\ inflight' = [k \in Other |-> IF k \in K THEN inflight[k] + 1 ELSE inflight[k]]
    /\ UNCHANGED <<waiting, ready>>

\* Coordinator::broadcastShutdown tells the kernels of a set in turn, with the
\* messages "from" sent and "inf" in flight before; at the first one without
\* a slot the thread waits (KPE::sendTo).
BroadcastShutdown(from, inf, wait, K) ==
    LET full == {k \in K : inf[k] >= MAX_MSG_INFLIGHT - 2}
        told == {k \in K : \A f \in full : k < f} IN
    /\ fromZero' = [k \in Other |-> IF k \in told THEN Append(from[k], "shutdown")
                                                  ELSE from[k]]
    /\ inflight' = [k \in Other |-> IF k \in told THEN inf[k] + 1 ELSE inf[k]]
    /\ waiting' = IF full = {} THEN wait
                  ELSE [wait EXCEPT ![Min(full)] = Append(@, K \ told)]

\* PEManager::terminate: without VPEs the kernel stops; with daemons only,
\* it tells its services to end (PEManager::shutdown).  The other kernels have
\* no waiting threads, kernel 0 is asked before (see MayTerminate).  When kernel 0
\* stops, Machine::shutdown ends the machine: all kernels stop.
Terminate(k) ==
    /\ stopped' = [j \in Kernel |-> stopped[j] \/ (count'[k] = 0 /\ k \in {0, j})]
    /\ shut' = [shut EXCEPT ![k] = @ \/ (count'[k] > 0 /\ count'[k] = daemons'[k])]

\* PEManager::terminate on kernel 0 looks for waiting threads first.
MayTerminate == \A k \in kpes : waiting[k] = << >>

(***************************************************************************)
(* SyscallHandler::tryTerminate, after a VPE has ended.                    *)
(***************************************************************************)
\* On kernel 0: ask the kernels that have not said that they are idle.
TryTerminateZero ==
    LET ask == {k \in kpes : state[k] = "NONE"} IN
    /\ UNCHANGED <<requests, issued, kpes, toZero>>
    /\ IF kpes = {}
         THEN Terminate(0) /\ UNCHANGED <<closing, state, inflight, waiting, ready, fromZero>>
         ELSE IF ~Idle(0)
         THEN UNCHANGED <<stopped, shut, closing, state, inflight, waiting, ready, fromZero>>
         ELSE /\ closing' = [closing EXCEPT ![0] = Cardinality(ask)]
              /\ state' = [k \in Other |-> IF k \in ask THEN "INFLIGHT" ELSE state[k]]
              /\ BroadcastRequest(ask)
              /\ IF ask = {} /\ MayTerminate THEN Terminate(0) ELSE UNCHANGED <<stopped, shut>>

\* On another kernel: stop if told to, else answer or tell kernel 0.
TryTerminateOther(k) ==
    /\ UNCHANGED <<issued, state, kpes, inflight, waiting, ready, fromZero>>
    /\ \/ /\ ~Idle(k)
          /\ UNCHANGED <<stopped, shut, closing, requests, toZero>>
       \/ /\ Idle(k) /\ closing[k] >= 0 /\ issued[k] /\ daemons'[k] = 0
          /\ Terminate(k) /\ Tell(k, "shutdownReply")
          /\ UNCHANGED <<closing, requests>>
       \/ /\ Idle(k) /\ closing[k] >= 0 /\ ~(issued[k] /\ daemons'[k] = 0)
          /\ IF requests[k] > 0
               THEN /\ requests' = [requests EXCEPT ![k] = @ - 1]
                    /\ Tell(k, "requestShutdownReply")
               ELSE UNCHANGED <<requests, toZero>>
          /\ UNCHANGED <<stopped, shut, closing>>
       \/ /\ Idle(k) /\ closing[k] < 0
          /\ closing' = [closing EXCEPT ![k] = @ + 1]
          /\ Tell(k, "requestShutdown")
          /\ UNCHANGED <<stopped, shut, requests>>

TryTerminate(k) == IF k = 0 THEN TryTerminateZero ELSE TryTerminateOther(k)

\* SyscallHandler::exit of an application.
ExitApp(k) ==
    /\ ~stopped[k] /\ count[k] > daemons[k]
    /\ count' = [count EXCEPT ![k] = @ - 1]
    /\ UNCHANGED <<daemons, created>>
    /\ TryTerminate(k)

\* SyscallHandler::exit of a service that was told to end.
ExitDaemon(k) ==
    /\ ~stopped[k] /\ shut[k] /\ daemons[k] > 0
    /\ count' = [count EXCEPT ![k] = @ - 1]
    /\ daemons' = [daemons EXCEPT ![k] = @ - 1]
    /\ UNCHANGED created
    /\ TryTerminate(k)

\* SyscallHandler::createvpe of an application.
CreateVpe(k) ==
    /\ ~stopped[k] /\ count[k] > daemons[k] /\ created < MaxCreated
    /\ count' = [count EXCEPT ![k] = @ + 1]
    /\ created' = created + 1
    /\ UNCHANGED <<daemons, shut, stopped, coord, net>>

(***************************************************************************)
(* KernelcallHandler on kernel 0.                                          *)
(***************************************************************************)
\* Kernel 0 fetches one message per round of its work loop; a woken up thread
\* runs before the next one.
FromKernel(k, m) ==
    /\ ~stopped[0] /\ ready = << >> /\ toZero[k] # << >> /\ Head(toZero[k]) = m
    /\ toZero' = [toZero EXCEPT ![k] = Tail(@)]

\* The kernels to tell at the end of requestShutdown: all, if all are idle.
ToTell == IF closing'[0] = 0 /\ Idle(0) THEN kpes ELSE {}

\* requestShutdown, stage KREQUEST: the kernel is idle.  If this is the first
\* sign and kernel 0 is idle too, it asks the others.
RequestFrom(k) ==
    LET n == closing[0] - (IF state[k] = "INFLIGHT" THEN 1 ELSE 0)
        first == n < 0 /\ count[0] <= daemons[0]
        ask == IF first THEN {j \in kpes \ {k} : state[j] = "NONE"} ELSE {} IN
    /\ FromKernel(k, "requestShutdown")
    /\ UNCHANGED <<pes, shut, stopped, requests, issued, kpes>>
    /\ closing' = [closing EXCEPT ![0] = IF first THEN Cardinality(ask) ELSE n]
    /\ state' = [j \in Other |-> IF j = k THEN "READY"
                                 ELSE IF j \in ask THEN "INFLIGHT" ELSE state[j]]
    /\ IF ask # {} THEN BroadcastRequest(ask)
       ELSE BroadcastShutdown(fromZero, inflight, waiting, ToTell) /\ UNCHANGED ready

\* KPE::msg_received for an answer of kernel k, and the end of requestShutdown.
Received(k, K) ==
    LET n == inflight[k] - 1
        wake == waiting[k] # << >> /\ n < MAX_MSG_INFLIGHT - 2
        inf == [inflight EXCEPT ![k] = n] IN
    /\ ready' = IF wake THEN Append(ready, Head(waiting[k])) ELSE ready
    /\ BroadcastShutdown(fromZero, inf,
         IF wake THEN [waiting EXCEPT ![k] = Tail(@)] ELSE waiting, K)

\* requestShutdown, stage KREPLY: the kernel that was asked is idle.
ReplyFrom(k) ==
    /\ FromKernel(k, "requestShutdownReply")
    /\ UNCHANGED <<pes, shut, stopped, requests, issued, kpes, state>>
    /\ closing' = [closing EXCEPT ![0] = IF state[k] = "READY" THEN @ ELSE @ - 1]
    /\ Received(k, ToTell)

\* A woken up thread goes on with broadcastShutdown.
Resume ==
    /\ ~stopped[0] /\ ready # << >>
    /\ ready' = Tail(ready)
    /\ BroadcastShutdown(fromZero, inflight, waiting, Head(ready) \cap kpes)
    /\ UNCHANGED <<pes, shut, stopped, coord, toZero>>

\* shutdown, stage KREPLY: the kernel has stopped.  Its KPE is deleted, with
\* the threads that wait for it.
ShutdownReplyFrom(k) ==
    /\ FromKernel(k, "shutdownReply")
    /\ kpes' = kpes \ {k}
    /\ waiting' = [waiting EXCEPT ![k] = << >>]
    /\ UNCHANGED <<pes, closing, requests, issued, state, inflight, ready, fromZero>>
    /\ IF kpes' = {} THEN Terminate(0) ELSE UNCHANGED <<stopped, shut>>

(***************************************************************************)
(* KernelcallHandler on the other kernels.                                 *)
(***************************************************************************)
FromZero(k, m) ==
    /\ ~stopped[k] /\ fromZero[k] # << >> /\ Head(fromZero[k]) = m
    /\ fromZero' = [fromZero EXCEPT ![k] = Tail(@)]

\* Mutant: the kernel answers although applications run.
Mut_HandleRequest(k) ==
    /\ FromZero(k, "requestShutdown")
    /\ UNCHANGED <<pes, shut, stopped, issued, state, kpes, inflight, waiting, ready, requests>>
    /\ closing' = [closing EXCEPT ![k] = @ + 1]
    /\ Tell(k, "requestShutdownReply")

\* requestShutdown: answer if idle, else remember that an answer is due.
HandleRequest(k) ==
    /\ FromZero(k, "requestShutdown")
    /\ UNCHANGED <<pes, shut, stopped, issued, state, kpes, inflight, waiting, ready>>
    /\ IF Idle(k)
         THEN /\ closing' = [closing EXCEPT ![k] = @ + 1]
              /\ Tell(k, "requestShutdownReply")
              /\ UNCHANGED requests
         ELSE /\ requests' = [requests EXCEPT ![k] = @ + 1]
              /\ UNCHANGED <<closing, toZero>>

\* Mutant: the kernel stops without an answer.
Mut_HandleShutdown(k) ==
    /\ FromZero(k, "shutdown")
    /\ issued' = [issued EXCEPT ![k] = TRUE]
    /\ UNCHANGED <<pes, closing, requests, state, kpes, inflight, waiting, ready, toZero>>
    /\ Terminate(k)

\* Mutant: the kernel answers before its services have ended.
Mut_HandleShutdownEarly(k) ==
    /\ FromZero(k, "shutdown")
    /\ issued' = [issued EXCEPT ![k] = TRUE]
    /\ UNCHANGED <<pes, closing, requests, state, kpes, inflight, waiting, ready>>
    /\ Terminate(k) /\ Tell(k, "shutdownReply")

\* shutdown, stage KREQUEST: stop, or stop the services first.
HandleShutdown(k) ==
    /\ FromZero(k, "shutdown")
    /\ issued' = [issued EXCEPT ![k] = TRUE]
    /\ UNCHANGED <<pes, closing, requests, state, kpes, inflight, waiting, ready>>
    /\ Terminate(k)
    /\ IF stopped'[k] THEN Tell(k, "shutdownReply") ELSE UNCHANGED toZero

HandleZero(k) == RequestFrom(k) \/ ReplyFrom(k) \/ ShutdownReplyFrom(k)
HandleOther(k) == HandleRequest(k) \/ HandleShutdown(k)

\* What goes on by itself: messages are fetched, and a service that is told to
\* end ends.
Progress ==
    \/ \E k \in Kernel : ExitDaemon(k)
    \/ \E k \in Other : HandleZero(k) \/ HandleOther(k)
    \/ Resume

Next ==
    \/ \E k \in Kernel : ExitApp(k) \/ CreateVpe(k)
    \/ Progress

\* If something can go on, something goes on.  There is an end to the messages,
\* so nothing can be put off forever.
Fairness == WF_vars(Progress)

Spec == Init /\ [][Next]_vars /\ Fairness

(***************************************************************************)
(* Properties.                                                             *)
(***************************************************************************)
\* The variables have their types: no count of VPEs or requests is negative,
\* and kernel 0 never counts more answers than it has asked for.
TypeOK ==
    /\ count \in [Kernel -> Nat] /\ daemons \in [Kernel -> Nat]
    /\ closing \in [Kernel -> -1..Cardinality(Kernel)]
    /\ requests \in [Kernel -> Nat] /\ inflight \in [Other -> Nat]
    /\ state \in [Other -> {"NONE", "INFLIGHT", "READY"}]
    /\ kpes \subseteq Other

\* A kernel ends its services or stops only if no application is left on any
\* kernel: the services of every kernel are there as long as someone may use
\* them (requestShutdown asks all before shutdown is sent).
NoAppLoses ==
    \A k \in Kernel : shut[k] \/ stopped[k] =>
        \A j \in Kernel : count[j] <= daemons[j]

\* A kernel that kernel 0 has removed sends it nothing more.  requestShutdown
\* looks for such messages all the same ("there should be no more incoming
\* requests if we deleted that KPE"); the model has no action for them.
NothingAfterRemoval == \A k \in Other \ kpes : toZero[k] = << >>

\* When all applications have ended, all kernels stop (tryTerminate: "if we
\* are kernel 0 we ask all others to shut down").  If kernel 0 has an application
\* longer than the others, it knows that they are idle and does not tell them to
\* shut down: it ends the machine when its services have ended.
AllStop ==
    (\A k \in Kernel : count[k] <= daemons[k]) ~> (\A k \in Kernel : stopped[k])
=============================================================================
