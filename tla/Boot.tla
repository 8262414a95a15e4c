-------------------------------- MODULE Boot ---------------------------------
(***************************************************************************)
(* The start of the kernels and of their first VPEs (main in               *)
(* arch/baremetal/kernel.cc, PEManager::load and start_pending,            *)
(* Coordinator::startKrnl, and the kernelcalls sigvital, announceKrnls,    *)
(* connect, announceSrv and startApps).                                    *)
(*                                                                         *)
(* Kernel 0 starts the others one after the other while it loads its own   *)
(* VPEs.  A new kernel tells that it is alive, is told which kernels there *)
(* are, connects to them, and loads its VPEs.  A VPE starts when the       *)
(* services it requires are known and all kernels have given their sign    *)
(* (SYNC_APP_START).                                                       *)
(*                                                                         *)
(* The handlers run to completion: in the instances no kernel has more     *)
(* than two requests to another one under way, so none waits for a slot    *)
(* (TypeOK).  All kernelcalls but connect arrive at one endpoint, of which *)
(* the work loop takes one message before it lets a woken up thread run.   *)
(***************************************************************************)
EXTENDS Integers, Sequences, FiniteSets, SequencesExt

CONSTANTS
    Kernel,             \* 0..n
    MAX_MSG_INFLIGHT,   \* message slots for the kernelcalls of one kernel
    Loads,              \* sets of VPEs to load: kernel 0 starts kernel i after set i
    Provides,           \* the service of a VPE, or NoService
    Requires,           \* the services a VPE requires
    Daemon,             \* VPEs with the argument "daemon"
    Trace,              \* VPEs whose name contains "srvtrace"
    NoService

VARIABLES
    kern,    \* the state of a kernel, or Off
    net,     \* messages from one kernel to another one
    setup    \* kernels whose connect waits at SETUP_EP of a kernel

vars == <<kern, net, setup>>

Pair == {p \in Kernel \X Kernel : p[1] # p[2]}
LastKernel == Cardinality(Kernel) - 1
Loaded(k) == UNION Range(Loads[k])
Vpe == UNION {Loaded(k) : k \in Kernel}

(***************************************************************************)
(* A kernel: what its main thread waits for and whether it was woken up,   *)
(* _kpes, memberTable (who is responsible for the PEs that are handed over *)
(* to each kernel), the two lists of services, _pending, the VPEs that     *)
(* run, startSignsAwaited, startSignSent, the counts of messages in flight *)
(* and the messages that the current handler sends.                        *)
(***************************************************************************)
Off == [main |-> "off"]
IsUp(k) == kern[k] # Off

Created(main, kpes, member, signs) ==
    [main |-> main, woken |-> FALSE, kpes |-> kpes, member |-> member,
     srvs |-> << >>, rsrvs |-> {}, pending |-> {}, running |-> {},
     signs |-> signs, sent |-> FALSE, inflight |-> [j \in Kernel |-> 0], out |-> << >>]

Init ==
    /\ kern = [k \in Kernel |->
         IF k = 0 THEN [Created("boot", << >>, [j \in Kernel |-> 0], 0) EXCEPT !.woken = TRUE]
                  ELSE Off]
    /\ net = [p \in Pair |-> << >>]
    /\ setup = [k \in Kernel |-> {}]

Msg(op) == [op |-> op]
AnnounceKrnls(kernels) == [op |-> "announceKrnls", kernels |-> kernels]
AnnounceSrv(name) == [op |-> "announceSrv", name |-> name]

\* KPE::reply and KPE::sendTo; only the second counts.
Reply(s, j, m) == [s EXCEPT !.out = Append(@, [to |-> j, msg |-> m])]
SendTo(s, j, m) == [Reply(s, j, m) EXCEPT !.inflight[j] = @ + 1]

\* The messages of kernel k are on their way after those of n.
Deliver(n, k, out) ==
    [p \in Pair |->
        LET mine == SelectSeq(out, LAMBDA o : p = <<k, o.to>>) IN
        n[p] \o [i \in DOMAIN mine |-> mine[i].msg]]

\* Kernel k goes on as s; n are the messages that are left.
Goes(k, s, n) ==
    \E r \in {s} :
        /\ kern' = [kern EXCEPT ![k] = [r EXCEPT !.out = << >>]]
        /\ net' = Deliver(n, k, r.out)

\* All services of a kernel are announced to kernel j.
AnnounceAll(s, j) == FoldLeft(LAMBDA r, name : SendTo(r, j, AnnounceSrv(name)), s, s.srvs)

\* A message is sent to all kernels that are known.
Broadcast(s, m) == FoldLeft(LAMBDA r, j : SendTo(r, j, m), s, s.kpes)

(***************************************************************************)
(* PEManager::start_pending.                                               *)
(***************************************************************************)
Fulfilled(s, v) == Requires[v] \subseteq Range(s.srvs) \cup s.rsrvs
open_requirements(s) == {v \in s.pending : ~Fulfilled(s, v)}

StartVpes(s, V) == [s EXCEPT !.pending = @ \ V, !.running = @ \cup V]

\* Kernel 0 gives the sign when it has that of all others, another kernel when
\* the requirements of its VPEs are fulfilled.
GiveSign(s, k) ==
    IF s.sent \/ open_requirements(s) # {} \/ (k = 0 /\ s.signs # 0) THEN s
    ELSE IF k = 0 THEN Broadcast([s EXCEPT !.sent = TRUE], Msg("startApps"))
                  ELSE SendTo([s EXCEPT !.sent = TRUE], 0, Msg("startApps"))

\* Mutant: a kernel does not wait for the others.
Mut_start_pending(s, k) ==
    LET r == GiveSign(s, k) IN StartVpes(r, {v \in r.pending : Fulfilled(r, v)})

start_pending(s, k) ==
    LET early == StartVpes(s, {v \in s.pending \cap Trace : Fulfilled(s, v)})
        r == GiveSign(early, k) IN
    IF r.signs # 0 \/ (k = 0 /\ ~r.sent) THEN r
    ELSE StartVpes(r, {v \in r.pending : Fulfilled(r, v)})

(***************************************************************************)
(* The main threads.                                                       *)
(***************************************************************************)
\* The loop of PEManager::load over some VPEs.
Load(s, V) ==
    LET now == {v \in V \cap Daemon : Requires[v] = {}} IN
    [s EXCEPT !.running = @ \cup now, !.pending = @ \cup (V \ now)]

\* Mutant: the new kernel gets the table as it was before.
Mut_startKrnl(s, j) ==
    LET member == [s.member EXCEPT ![j] = j] IN
    /\ kern' = [kern EXCEPT ![0] = [s EXCEPT !.member = member, !.signs = @ + 1,
                                             !.main = "alive", !.woken = FALSE, !.out = << >>],
                            ![j] = Created("kernels", <<0>>, s.member, 1)]
    /\ net' = Deliver(Deliver(net, 0, s.out), j, <<[to |-> 0, msg |-> Msg("sigvital")]>>)

\* Coordinator::startKrnl up to its first wait, and main of the new kernel, which
\* reads the membership table it is given and tells that it is alive.
startKrnl(s, j) ==
    LET member == [s.member EXCEPT ![j] = j] IN
    /\ kern' = [kern EXCEPT ![0] = [s EXCEPT !.member = member, !.signs = @ + 1,
                                             !.main = "alive", !.woken = FALSE, !.out = << >>],
                            ![j] = Created("kernels", <<0>>, member, 1)]
    /\ net' = Deliver(Deliver(net, 0, s.out), j, <<[to |-> 0, msg |-> Msg("sigvital")]>>)

\* The kernel that is being started, or the last one that was.
Newest == Cardinality({k \in Kernel : IsUp(k)}) - 1

\* Kernel 0 loads what comes after the newest kernel and starts the next one, or
\* has loaded all.
LoadNext(s) ==
    LET r == Load(s, Loads[0][Newest + 1]) IN
    IF Newest < LastKernel THEN startKrnl(r, Newest + 1)
    ELSE Goes(0, start_pending([r EXCEPT !.main = "loaded", !.woken = FALSE], 0), net)

\* Mutant: the existing services are not announced.
Mut_Publish(s, j) == [s EXCEPT !.kpes = Append(@, j)]

\* The end of startKrnl: the new kernel is put into the list of kernels and told
\* which services there are.
Publish(s, j) == AnnounceAll([s EXCEPT !.kpes = Append(@, j)], j)

\* The woken up main thread of kernel 0 runs to its next wait.
ResumeZero ==
    LET s == kern[0] IN
    /\ s.woken
    /\ \/ s.main = "boot" /\ LoadNext(s)
       \/ /\ s.main = "alive"
          /\ Goes(0, Reply([s EXCEPT !.main = "member", !.woken = FALSE],
                           Newest, AnnounceKrnls(s.kpes)), net)
       \/ s.main = "member" /\ LoadNext(Publish(s, Newest))
    /\ UNCHANGED setup

\* The woken up main thread of another kernel loads its VPEs.
Resume(k) ==
    LET s == kern[k] IN
    /\ k # 0 /\ IsUp(k) /\ s.woken
    /\ Goes(k, start_pending(Load([s EXCEPT !.main = "loaded", !.woken = FALSE], Loaded(k)), k), net)
    /\ UNCHANGED setup

(***************************************************************************)
(* The handlers of kernelcalls.  Each gives the state of the kernel after  *)
(* it; announceKrnls also sends the connect requests.                      *)
(***************************************************************************)
\* A woken up thread runs before the next message of this endpoint is taken.
Fetches(k, j) ==
    IsUp(k) /\ ~kern[k].woken /\ <<j, k>> \in Pair /\ net[<<j, k>>] # << >>

\* KernelcallHandler::reply.
msg_received(s, j) == [s EXCEPT !.inflight[j] = @ - 1]

Handled(s, k, j, m) ==
    CASE m.op = "sigvital" -> [s EXCEPT !.woken = TRUE]
      [] m.op = "announceKrnls" -> Reply([s EXCEPT !.woken = TRUE], j, Msg("sigvital"))
      [] m.op = "connect" -> [s EXCEPT !.kpes = Append(@, j)]
      [] m.op = "announceSrv" ->
           Reply(start_pending([s EXCEPT !.rsrvs = @ \cup {m.name}], k), j, Msg("reply"))
      [] m.op = "startApps" ->
           Reply(start_pending([s EXCEPT !.signs = @ - 1], k), j, Msg("reply"))
      [] m.op = "reply" -> msg_received(s, j)

Handle(k, j) ==
    LET m == Head(net[<<j, k>>])
        asks == IF m.op = "announceKrnls" THEN Range(m.kernels) ELSE {} IN
    /\ Fetches(k, j)
    /\ Goes(k, Handled(kern[k], k, j, m), [net EXCEPT ![<<j, k>>] = Tail(@)])
    /\ setup' = [i \in Kernel |-> IF i \in asks THEN setup[i] \cup {k} ELSE setup[i]]

\* Mutant: the services are announced before the answer.
Mut_Connected(s, j) ==
    Reply(AnnounceAll([s EXCEPT !.kpes = Append(@, j), !.member[j] = j], j), j, Msg("connect"))

\* connect with stage KREQUEST of kernel j, which owns its PEs: kernel j is added,
\* answered and told which services there are.
Connected(s, j) ==
    AnnounceAll(Reply([s EXCEPT !.kpes = Append(@, j), !.member[j] = j], j, Msg("connect")), j)

HandleConnect(k, j) ==
    /\ IsUp(k) /\ j \in setup[k]
    /\ Goes(k, Connected(kern[k], j), net)
    /\ setup' = [setup EXCEPT ![k] = @ \ {j}]

\* SyscallHandler::createsrv of a VPE that runs.
CreateSrv(k, v) ==
    LET s == kern[k]
        r == [s EXCEPT !.srvs = Append(@, Provides[v])] IN
    /\ IsUp(k) /\ v \in s.running
    /\ Provides[v] # NoService /\ Provides[v] \notin Range(s.srvs)
    /\ Goes(k, start_pending(Broadcast(r, AnnounceSrv(Provides[v])), k), net)
    /\ UNCHANGED setup

\* A step of a kernel, or of one of its VPEs.
Step(k) ==
    \/ k = 0 /\ ResumeZero
    \/ Resume(k)
    \/ \E j \in Kernel : Handle(k, j) \/ HandleConnect(k, j)
    \/ \E v \in Loaded(k) : CreateSrv(k, v)

Next == \E k \in Kernel : Step(k)

\* If something can go on, something goes on.  There is an end to the messages,
\* so nothing can be put off forever.
Fairness == WF_vars(Next)

Spec == Init /\ [][Next]_vars /\ Fairness

(***************************************************************************)
(* Properties.                                                             *)
(***************************************************************************)
Up == {k \in Kernel : IsUp(k)}

\* The state is of its type.  No more requests are in flight than sendTo allows
\* without a wait, and no kernel awaits fewer than no signs.
TypeOK ==
    \A k \in Up :
        /\ kern[k].main \in {"boot", "alive", "member", "kernels", "loaded"}
        /\ \A j \in Kernel : kern[k].inflight[j] \in 0..(MAX_MSG_INFLIGHT - 2)
        /\ kern[k].signs \in 0..LastKernel
        /\ kern[k].pending \cup kern[k].running \subseteq Loaded(k)
        /\ IsInjective(kern[k].kpes)

\* A kernel knows the sender of every kernelcall that is handled next: getKPE,
\* with which all handlers but those of sigvital and connect begin, would
\* panic otherwise.
KnownSender ==
    \A k, j \in Kernel : Fetches(k, j) =>
        \/ Head(net[<<j, k>>]).op \in {"sigvital", "connect"}
        \/ j \in Range(kern[k].kpes)

\* The PEs that are handed over to a kernel have one owner at any time: "check if
\* this PE is actually ours" (announceKrnls, free_core) is true on one kernel.
OneOwner ==
    \A g \in Kernel : Cardinality({k \in Up : kern[k].member[g] = k}) = 1

\* With SYNC_APP_START no VPE that waits for its start runs before all kernels
\* are up, have loaded their VPEs and know the services these require.
StartTogether ==
    \A k \in Up :
        (\E v \in kern[k].running : v \notin Trace /\ ~(v \in Daemon /\ Requires[v] = {})) =>
            \A j \in Kernel :
                IsUp(j) /\ kern[j].main = "loaded" /\ open_requirements(kern[j]) = {}

\* In the end every kernel is connected to all others and knows who is responsible
\* for which PEs, and all VPEs run: "maybe there are VPEs that now have all
\* requirements fullfilled" (createsrv) reaches every VPE that waits for a service.
Started ==
    \A k \in Kernel :
        /\ IsUp(k) /\ kern[k].running = Loaded(k)
        /\ Range(kern[k].kpes) = Kernel \ {k}
        /\ \A g \in Kernel : kern[k].member[g] = g
AllStart == <>Started
=============================================================================
