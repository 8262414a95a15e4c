------------------------------- MODULE Session -------------------------------
(***************************************************************************)
(* Services and sessions: SyscallHandler::createsrv and createsess, the    *)
(* kernelcalls announceSrv, createSessFwd, createSessResp and              *)
(* createSessFail, the lists of local and remote services, and the send    *)
(* queue of each service (module SendQueue).                               *)
(*                                                                         *)
(* A session at a service of the same kernel is opened by one message to   *)
(* the service.  Otherwise the kernel of the service is asked: the one     *)
(* that announced it, or all kernels if none did.  The system call waits   *)
(* for their answers and looks at its arguments again afterwards.          *)
(***************************************************************************)
EXTENDS Integers, Sequences, FiniteSets, SequencesExt

CONSTANTS
    Kernel,             \* the kernels, which are numbers
    Vpe, KernelOf,      \* the clients and their kernels
    Service, Host,      \* the services and their kernels
    Name, Wants,        \* the name of a service; what a client asks for
    Hidden,             \* names of services that are not announced (pipes)
    SlotOf,             \* where a client wants its session capability
    Capacity,           \* MAX_KRNL_MSGS
    MAX_MSG_INFLIGHT    \* message slots for the kernelcalls of one kernel

VARIABLES
    srv,        \* a service: "none", "up" or "closing"
    sq,         \* Service::_queue
    child,      \* clients whose session is a child of the service capability
    remote,     \* RemoteServiceList of a kernel
    slot,       \* session capabilities: the service and the client that opened it
    pc,         \* what the thread of a client or of a service's VPE does
    todo,       \* kernels that thread has still to send its kernelcall to
    asked,      \* number of kernels a client's session is asked of
    awaiting,   \* VPE::_sessAwaitingResp
    result,     \* VPE::_srvLookupResult
    inflight, waiting, net, ready,   \* as in KPEChannel
    stopped     \* Machine::shutdown was called

chan == <<inflight, waiting, net, ready>>
vars == <<srv, sq, child, remote, slot, pc, todo, asked, awaiting, result, chan, stopped>>

None == "none"
Pair == {p \in Kernel \X Kernel : p[1] # p[2]}
Slot == {SlotOf[v] : v \in Vpe}
Thread == Vpe \cup Service
At(t) == IF t \in Vpe THEN KernelOf[t] ELSE Host[t]
Others(k) == SetToSortSeq(Kernel \ {k}, <)

\* Messages to a service: what the kernel does with the answer.
Request == [how : {"local", "remote", "close"}, vpe : Vpe]
Queue(s) == INSTANCE SendQueue WITH Msg <- Request, sq <- sq[s]

Init ==
    /\ srv = [s \in Service |-> "none"]
    /\ sq = [s \in Service |-> Queue(s)!Empty]
    /\ child = [s \in Service |-> << >>]
    /\ remote = [k \in Kernel |-> << >>]
    /\ slot = [x \in Slot |-> << >>]
    /\ pc = [t \in Thread |-> "start"]
    /\ todo = [t \in Thread |-> << >>]
    /\ asked = [v \in Vpe |-> 0]
    /\ awaiting = [v \in Vpe |-> 0]
    /\ result = [v \in Vpe |-> None]
    /\ inflight = [p \in Pair |-> 0]
    /\ waiting = [p \in Pair |-> << >>]
    /\ net = [p \in Pair |-> << >>]
    /\ ready = [k \in Kernel |-> << >>]
    /\ stopped = FALSE

\* ServiceList::find on kernel k: the services of that name, of which there
\* is at most one; closing ones are still listed.
Local(k, n) == {s \in Service : Host[s] = k /\ Name[s] = n /\ srv[s] # "none"}

(***************************************************************************)
(* Kernelcalls.                                                            *)
(***************************************************************************)
Call(op, t, s) == [op |-> op, t |-> t, srv |-> s]

Full(k, j) == inflight[<<k, j>>] >= MAX_MSG_INFLIGHT - 2

\* A thread t sends its call m to the kernels of a list in turn, and blocks
\* at the first one without a free slot (KPE::sendTo).
SendTo(t, m, list) ==
    LET k == At(t)
        full == {i \in DOMAIN list : Full(k, list[i])}
        told == {list[i] : i \in {i \in DOMAIN list : \A f \in full : i < f}}
        rest == SelectSeq(list, LAMBDA j : j \notin told) IN
    /\ net' = [p \in Pair |-> IF p[1] = k /\ p[2] \in told THEN Append(net[p], m) ELSE net[p]]
    /\ inflight' = [p \in Pair |-> IF p[1] = k /\ p[2] \in told THEN inflight[p] + 1
                                   ELSE inflight[p]]
    /\ waiting' = IF rest = << >> THEN waiting
                  ELSE [waiting EXCEPT ![<<k, Head(rest)>>] = Append(@, t)]
    /\ todo' = [todo EXCEPT ![t] = rest]

\* The thread of a kernel that runs next: a woken up one before the next
\* message of the kernel that woke it up.
Wakes(k, j) == \E i \in DOMAIN ready[k] : ready[k][i].by = j

\* Kernel k fetches the next message of kernel j.
Fetch(k, j, op) ==
    /\ ~stopped /\ <<j, k>> \in Pair /\ ~Wakes(k, j)
    /\ net[<<j, k>>] # << >> /\ Head(net[<<j, k>>]).op = op

\* ... and answers it with r.
Answered(k, j, r) ==
    /\ net' = [net EXCEPT ![<<j, k>>] = Tail(@), ![<<k, j>>] = Append(@, r)]
    /\ UNCHANGED <<inflight, waiting, ready>>

\* Mutant: no waiting thread is woken up.
Mut_MsgReceived(k, j, woken) ==
    /\ net' = [net EXCEPT ![<<j, k>>] = Tail(@)]
    /\ inflight' = [inflight EXCEPT ![<<k, j>>] = @ - 1]
    /\ ready' = [ready EXCEPT ![k] = @ \o [i \in DOMAIN woken |-> [t |-> woken[i], by |-> j]]]
    /\ UNCHANGED waiting

\* KPE::msg_received on kernel k for an answer of kernel j, after the threads
\* of "woken" became ready.
MsgReceived(k, j, woken) ==
    LET p == <<k, j>>
        wake == waiting[p] # << >> /\ inflight[p] - 1 < MAX_MSG_INFLIGHT - 2
        now == IF wake THEN Append(woken, Head(waiting[p])) ELSE woken IN
    /\ net' = [net EXCEPT ![<<j, k>>] = Tail(@)]
    /\ inflight' = [inflight EXCEPT ![p] = @ - 1]
    /\ waiting' = IF wake THEN [waiting EXCEPT ![p] = Tail(@)] ELSE waiting
    /\ ready' = [ready EXCEPT ![k] = @ \o [i \in DOMAIN now |-> [t |-> now[i], by |-> j]]]

(***************************************************************************)
(* Services.                                                               *)
(***************************************************************************)
\* SyscallHandler::createsrv up to its first wait.
CreateSrv(s) ==
    /\ ~stopped /\ pc[s] = "start"
    /\ IF Local(Host[s], Name[s]) # {}
         THEN /\ pc' = [pc EXCEPT ![s] = "fail"]
              /\ UNCHANGED <<srv, todo, chan>>
         ELSE /\ srv' = [srv EXCEPT ![s] = "up"]
              /\ SendTo(s, Call("announceSrv", s, s),
                        IF Name[s] \in Hidden THEN << >> ELSE Others(Host[s]))
              /\ pc' = [pc EXCEPT ![s] = IF todo'[s] = << >> THEN "ok" ELSE "blocked"]
              /\ UNCHANGED ready
    /\ UNCHANGED <<sq, child, remote, slot, asked, awaiting, result, stopped>>

HandleAnnounceSrv(k, j) ==
    /\ Fetch(k, j, "announceSrv")
    /\ remote' = [remote EXCEPT ![k] = Append(@, Head(net[<<j, k>>]).srv)]
    /\ Answered(k, j, Call("reply", None, None))
    /\ UNCHANGED <<srv, sq, child, slot, pc, todo, asked, awaiting, result, stopped>>

HandleReply(k, j) ==
    /\ Fetch(k, j, "reply")
    /\ MsgReceived(k, j, << >>)
    /\ UNCHANGED <<srv, sq, child, remote, slot, pc, todo, asked, awaiting, result, stopped>>

\* Service::~Service once the last reference is gone: the name is free again.
\* A closing service without pending messages has none.
Listed(state, s, q) == IF state = "closing" /\ Queue(s)!pending(q) = 0 THEN "none" ELSE state

\* SessionObject::close for each client of a list.
SendClose(s, q, list) ==
    FoldLeft(LAMBDA r, v : Queue(s)!send(r, [how |-> "close", vpe |-> v]), q, list)

\* Mutant: the service is revoked without its sessions.
Mut_Orphans(s) ==
    /\ ~stopped /\ srv[s] = "up" /\ pc[s] = "ok" /\ Queue(s)!pending(sq[s]) = 0
    /\ srv' = [srv EXCEPT ![s] = "none"]
    /\ child' = [child EXCEPT ![s] = << >>]
    /\ UNCHANGED <<slot, sq, remote, pc, todo, asked, awaiting, result, chan, stopped>>

\* The VPE of a service revokes the service capability.  While messages are
\* pending ServiceCapability::revoke fails, which shuts the machine down; else
\* the capability goes, and with it the sessions, which are closed.  Sessions
\* of other kernels take kernelcalls (module Revocation): here there are none.
RevokeSrv(s) ==
    /\ ~stopped /\ srv[s] = "up" /\ pc[s] = "ok"
    /\ \A i \in DOMAIN child[s] : KernelOf[child[s][i]] = Host[s]
    /\ stopped' = (Queue(s)!pending(sq[s]) > 0)
    /\ IF stopped' THEN UNCHANGED <<slot, sq, srv, child>>
       ELSE /\ sq' = [sq EXCEPT ![s] = SendClose(s, @, child[s])]
            /\ slot' = [x \in Slot |-> IF slot[x] # << >> /\ slot[x][1] = s THEN << >> ELSE slot[x]]
            /\ srv' = [srv EXCEPT ![s] = Listed("closing", s, sq'[s])]
            /\ child' = [child EXCEPT ![s] = << >>]
    /\ UNCHANGED <<remote, pc, todo, asked, awaiting, result, chan>>

(***************************************************************************)
(* Sessions: the system call.                                              *)
(***************************************************************************)
\* A service of the client's kernel is asked to open the session, if the
\* target VPE is known ("valid"), the slot is free and the service is not closing.
CreateSessLocal(v, valid) ==
    /\ ~stopped /\ pc[v] = "start"
    /\ \E s \in Local(KernelOf[v], Wants[v]) :
         IF valid /\ slot[SlotOf[v]] = << >> /\ srv[s] = "up"
         THEN /\ sq' = [sq EXCEPT ![s] = Queue(s)!send(@, [how |-> "local", vpe |-> v])]
              /\ pc' = [pc EXCEPT ![v] = "open"]
         ELSE /\ pc' = [pc EXCEPT ![v] = "fail"]
              /\ UNCHANGED sq
    /\ UNCHANGED <<srv, child, remote, slot, todo, asked, awaiting, result, chan, stopped>>

\* The kernels to ask: the one that announced the service first, or all others.
Asked(v) ==
    LET known == SelectSeq(remote[KernelOf[v]], LAMBDA s : Name[s] = Wants[v]) IN
    IF known # << >> THEN <<Host[Head(known)]>> ELSE Others(KernelOf[v])

\* Mutant: the client's own kernel is counted as well.
Mut_Await(v, n) ==
    IF todo'[v] # << >>
    THEN pc' = [pc EXCEPT ![v] = "blocked"] /\ UNCHANGED awaiting
    ELSE pc' = [pc EXCEPT ![v] = "wait"] /\ awaiting' = [awaiting EXCEPT ![v] = n + 1]

\* VPE::sessAwaitingResp and wait_for, once all requests are sent: n is the
\* number of kernels that were asked.
Await(v, n) ==
    IF todo'[v] # << >>
    THEN pc' = [pc EXCEPT ![v] = "blocked"] /\ UNCHANGED awaiting
    ELSE pc' = [pc EXCEPT ![v] = "wait"] /\ awaiting' = [awaiting EXCEPT ![v] = n]

CreateSessRemote(v) ==
    /\ ~stopped /\ pc[v] = "start" /\ Local(KernelOf[v], Wants[v]) = {}
    /\ IF Asked(v) = << >>
         THEN pc' = [pc EXCEPT ![v] = "fail"] /\ UNCHANGED <<todo, asked, awaiting, chan>>
         ELSE /\ SendTo(v, Call("createSessFwd", v, None), Asked(v))
              /\ asked' = [asked EXCEPT ![v] = Len(Asked(v))]
              /\ Await(v, Len(Asked(v)))
              /\ UNCHANGED ready
    /\ UNCHANGED <<srv, sq, child, remote, slot, result, stopped>>

\* Mutant: the slot is not looked at again.
Mut_Finish(v, s, valid) ==
    LET good == s # None /\ valid IN
    /\ slot' = IF good THEN [slot EXCEPT ![SlotOf[v]] = <<s, v>>] ELSE slot
    /\ pc' = [pc EXCEPT ![v] = IF good THEN "ok" ELSE "fail"]
    /\ UNCHANGED <<todo, inflight, waiting, net>>

\* SyscallHandler::createsess when it runs again with the result, s or None.
\* The target VPE may be gone by now, and the slot taken.
Finish(v, s, valid) ==
    LET good == s # None /\ valid /\ slot[SlotOf[v]] = << >> IN
    /\ slot' = IF good THEN [slot EXCEPT ![SlotOf[v]] = <<s, v>>] ELSE slot
    /\ IF s = None \/ good
         THEN UNCHANGED <<todo, inflight, waiting, net>>
         ELSE SendTo(v, Call("createSessFail", v, s), <<Host[s]>>)
    /\ pc' = [pc EXCEPT ![v] = IF good THEN "ok"
                               ELSE IF todo'[v] # << >> THEN "failing" ELSE "fail"]

\* The woken up thread that is first in line runs: it has the answers it
\* waited for, or looks again for a slot.
Resume(k, valid) ==
    LET t == Head(ready[k]).t IN
    /\ ~stopped /\ ready[k] # << >>
    /\ ready' = [ready EXCEPT ![k] = Tail(@)]
    /\ CASE pc[t] = "wait" -> Finish(t, result[t], valid) /\ UNCHANGED awaiting
         [] pc[t] = "failing" ->
              /\ SendTo(t, Call("createSessFail", t, result[t]), todo[t])
              /\ pc' = [pc EXCEPT ![t] = IF todo'[t] = << >> THEN "fail" ELSE "failing"]
              /\ UNCHANGED <<slot, awaiting>>
         [] pc[t] = "blocked" /\ t \in Vpe ->
              /\ SendTo(t, Call("createSessFwd", t, None), todo[t])
              /\ Await(t, asked[t])
              /\ UNCHANGED slot
         [] pc[t] = "blocked" /\ t \in Service ->
              /\ SendTo(t, Call("announceSrv", t, t), todo[t])
              /\ pc' = [pc EXCEPT ![t] = IF todo'[t] = << >> THEN "ok" ELSE "blocked"]
              /\ UNCHANGED <<slot, awaiting>>
    /\ UNCHANGED <<srv, sq, child, remote, asked, result, stopped>>

(***************************************************************************)
(* Sessions: the kernel of the service, and the service.                   *)
(***************************************************************************)
HandleCreateSessFwd(k, j) ==
    LET v == Head(net[<<j, k>>]).t
        found == {s \in Local(k, Wants[v]) : srv[s] = "up"} IN
    /\ Fetch(k, j, "createSessFwd")
    /\ IF found = {}
         THEN Answered(k, j, Call("createSessResp", v, None)) /\ UNCHANGED sq
         ELSE /\ \E s \in found :
                   sq' = [sq EXCEPT ![s] = Queue(s)!send(@, [how |-> "remote", vpe |-> v])]
              /\ net' = [net EXCEPT ![<<j, k>>] = Tail(@)]
              /\ UNCHANGED <<inflight, waiting, ready>>
    /\ UNCHANGED <<srv, child, remote, slot, pc, todo, asked, awaiting, result, stopped>>

\* The service answers its i-th message and the kernel runs the callback: of
\* createsess, of createSessFwd or of send_and_receive.
ServiceReply(s, i, ok) ==
    LET m == sq[s].given[i]
        opened == ok /\ m.how # "close" IN
    /\ ~stopped /\ i \in DOMAIN sq[s].given
    /\ sq' = [sq EXCEPT ![s] = Queue(s)!received_reply(@, i)]
    /\ srv' = [srv EXCEPT ![s] = Listed(@, s, sq'[s])]
    /\ child' = IF opened THEN [child EXCEPT ![s] = Append(@, m.vpe)] ELSE child
    /\ slot' = IF opened /\ m.how = "local" THEN [slot EXCEPT ![SlotOf[m.vpe]] = <<s, m.vpe>>]
               ELSE slot
    /\ pc' = IF m.how = "local" THEN [pc EXCEPT ![m.vpe] = IF ok THEN "ok" ELSE "fail"] ELSE pc
    /\ net' = IF m.how = "remote"
              THEN [net EXCEPT ![<<Host[s], KernelOf[m.vpe]>>] =
                      Append(@, Call("createSessResp", m.vpe, IF ok THEN s ELSE None))]
              ELSE net
    /\ UNCHANGED <<remote, todo, asked, awaiting, result, inflight, waiting, ready, stopped>>

\* The last answer a waiting client expects wakes it up.
HandleCreateSessResp(k, j) ==
    LET m == Head(net[<<j, k>>])
        v == m.t IN
    /\ Fetch(k, j, "createSessResp")
    /\ result' = IF m.srv = None THEN result ELSE [result EXCEPT ![v] = m.srv]
    /\ awaiting' = [awaiting EXCEPT ![v] = @ - 1]
    /\ MsgReceived(k, j, IF awaiting'[v] = 0 THEN <<v>> ELSE << >>)
    /\ UNCHANGED <<srv, sq, child, remote, slot, pc, todo, asked, stopped>>

\* Kernelcalls::createSessFail sends no operation.  KernelcallHandler takes the
\* capability selector at the front of the message for it.  An assumption: the
\* selector is at least Kernelcalls::COUNT.  Then there is no such operation, and
\* the answer is an error that is no kernelcall: the slot of the message is not
\* given back.  (A smaller selector runs the handler of that number.)
HandleCreateSessFail(k, j) ==
    /\ Fetch(k, j, "createSessFail")
    /\ net' = [net EXCEPT ![<<j, k>>] = Tail(@)]
    /\ UNCHANGED <<srv, sq, child, remote, slot, pc, todo, asked, awaiting, result,
                   inflight, waiting, ready, stopped>>

\* A client revokes its session at a service of its kernel: the service is
\* told and the capability is no longer a child.
RevokeSess(v) ==
    /\ ~stopped /\ pc[v] = "ok"
    /\ \E s \in Service :
         /\ slot[SlotOf[v]] = <<s, v>> /\ Host[s] = KernelOf[v]
         /\ sq' = [sq EXCEPT ![s] = SendClose(s, @, <<v>>)]
         /\ child' = [child EXCEPT ![s] = Remove(@, v)]
    /\ slot' = [slot EXCEPT ![SlotOf[v]] = << >>]
    /\ UNCHANGED <<srv, remote, pc, todo, asked, awaiting, result, chan, stopped>>

Handle(k, j) ==
    \/ HandleAnnounceSrv(k, j) \/ HandleReply(k, j)
    \/ HandleCreateSessFwd(k, j) \/ HandleCreateSessResp(k, j) \/ HandleCreateSessFail(k, j)

KernelStep(k) == (\E valid \in BOOLEAN : Resume(k, valid)) \/ \E j \in Kernel : Handle(k, j)
ServiceStep(s) == \E i \in 1..Capacity, ok \in BOOLEAN : ServiceReply(s, i, ok)
ClientStep(v) == \/ (\E valid \in BOOLEAN : CreateSessLocal(v, valid))
                 \/ CreateSessRemote(v) \/ RevokeSess(v)

\* Kernels and services go on while they have something to do.
Progress == (\E k \in Kernel : KernelStep(k)) \/ (\E s \in Service : ServiceStep(s))

Next ==
    \/ \E s \in Service : CreateSrv(s) \/ RevokeSrv(s)
    \/ \E v \in Vpe : ClientStep(v)
    \/ Progress

\* If one can go on, one goes on.  There is an end to the messages, so nothing
\* can be put off forever.
Fairness == WF_vars(Progress)

Spec == Init /\ [][Next]_vars
FairSpec == Spec /\ Fairness

(***************************************************************************)
(* Properties.                                                             *)
(***************************************************************************)
\* The state is of its type.
TypeOK ==
    /\ srv \in [Service -> {"none", "up", "closing"}]
    /\ \A s \in Service : /\ sq[s].given \in Seq(Request) /\ sq[s].queue \in Seq(Request)
                          /\ child[s] \in Seq(Vpe)
    /\ remote \in [Kernel -> Seq(Service)]
    /\ slot \in [Slot -> {<< >>} \cup (Service \X Vpe)]
    /\ pc \in [Thread -> {"start", "open", "blocked", "wait", "failing", "ok", "fail"}]
    /\ \A t \in Thread : todo[t] \in Seq(Kernel)
    /\ awaiting \in [Vpe -> Int]
    /\ result \in [Vpe -> {None} \cup Service]
    /\ \A p \in Pair : inflight[p] \in 0..(MAX_MSG_INFLIGHT - 2) /\ waiting[p] \in Seq(Thread)
    /\ stopped \in BOOLEAN

\* The kernels that client v has asked and not heard of: the request, the
\* message to the service or the answer is under way.
Unheard(v) ==
    LET k == KernelOf[v]
        has(q, P(_)) == \E i \in DOMAIN q : P(q[i])
        asks(m) == m.how = "remote" /\ m.vpe = v IN
    {j \in Kernel \ {k} :
        \/ has(net[<<k, j>>], LAMBDA m : m.t = v /\ m.op = "createSessFwd")
        \/ has(net[<<j, k>>], LAMBDA m : m.t = v /\ m.op = "createSessResp")
        \/ \E s \in Service : Host[s] = j /\ (has(sq[s].given, asks) \/ has(sq[s].queue, asks))}

\* "when all responses arrived we will be woken up" (createsess): a waiting
\* client counts the answers that are still to come, and is woken up when
\* there is none.
AnswersCounted ==
    \A v \in Vpe : pc[v] = "wait" =>
        /\ awaiting[v] = Cardinality(Unheard(v))
        /\ awaiting[v] = 0 => \E i \in DOMAIN ready[KernelOf[v]] : ready[KernelOf[v]][i].t = v

\* "inherit the session-cap from the service-cap. this way, it will be
\* automatically revoked if the service-cap is revoked" (createsess): a
\* session capability, on whatever kernel, is a child of a living service
\* capability.
SessionsInherit ==
    \A x \in Slot : slot[x] # << >> =>
        LET s == slot[x][1] IN srv[s] = "up" /\ slot[x][2] \in Range(child[s])

\* assert(get(i) == nullptr) in CapTable::set: a session is only put into an
\* empty slot, although the call waited since it was begun.
SlotsKeptStep == \A x \in Slot : slot[x] # << >> => slot'[x] \in {<< >>, slot[x]}
SlotsKept == [][SlotsKeptStep]_vars

\* The messages of every service are queued in order, as module Fifo says.
FifoStep == \A s \in Service : Queue(s)!Abstract!Next \/ UNCHANGED sq[s]
QueuesAreFifo == [][FifoStep]_vars

\* Every createsess returns, unless the machine is shut down.
Calling == ~stopped /\ \E v \in Vpe : pc[v] \notin {"start", "ok", "fail"}
CreateSessReturns == Calling ~> ~Calling
=============================================================================
