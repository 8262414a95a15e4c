------------------------------ MODULE MCKernels ------------------------------
(***************************************************************************)
(* Instances of the modules about several kernels for TLC.  A behaviour    *)
(* belongs to the one that "case" names: the revocation of capabilities,   *)
(* the channels between the kernels, their start and their shutdown, the   *)
(* main memory of a kernel, the endpoints of VPEs, the mappings of a VPE,  *)
(* and the heap, the threads and the treaps of a kernel.  What does not    *)
(* belong to the case is 0 and stays so.                                   *)
(***************************************************************************)
EXTENDS Integers, Sequences, TLC

CONSTANTS
    Cases,    \* the instances that are checked
    Variant   \* "usual", or the instance with another set of constants

VARIABLES case,
          inflight, waiting, ready, net,                     \* common
          done,                                              \* KPEChannel, Revocation
          lastReply, run, todo,                              \* KPEChannel
          live, parent, children, rev, msgs, pc, cur,        \* Revocation
          halted, act,
          count, daemons, shut, stopped, closing, requests,  \* Shutdown
          issued, state, kpes, toZero, fromZero, created,
          kern, setup,                                       \* Boot
          list, used,                                        \* MainMemory
          vpe, attached, waitlist,                           \* Endpoints
          root,                                              \* PageTables, Treap
          caps, pte, tlb, runs,                              \* PageTables
          area, end, given,                                  \* Heap
          current, blocked, sleep, event, at, serving,       \* Threads
          waits, inbox, asked, calls, returned,
          prio, inserted, within                             \* Treap

waitVars == <<inflight, waiting, ready>>
kpeVars == <<lastReply, run, todo>>
revVars == <<live, parent, children, rev, msgs, pc, cur, halted, act>>
shutVars == <<count, daemons, shut, stopped, closing, requests, issued, state, kpes,
              toZero, fromZero, created>>
bootVars == <<kern, setup>>
memVars == <<list, used>>
epVars == <<vpe, attached, waitlist>>
pageVars == <<caps, pte, tlb, runs>>
heapVars == <<area, end, given>>
thrdVars == <<current, blocked, sleep, event, at, serving, waits, inbox, asked, calls, returned>>
treapVars == <<prio, inserted, within>>
oneVars == <<root, pageVars, heapVars, thrdVars, treapVars>>
manyVars == <<net, done, shutVars, bootVars, memVars, epVars>>
vars == <<case, waitVars, kpeVars, revVars, manyVars, oneVars>>

--------------------------------------------------------------------------
\* One capability of kernel 1 has four children on kernel 2, of which one has a
\* child on kernel 3; other threads of kernels 2 and 3 send requests meanwhile.
Trees == <<<<1, 2>>, <<1, 2>>, <<1, 2, 3>>, <<1, 2>>>>

\* Both kernels revoke a capability with three children on the other one.
Crossings == <<<<1, 2>>, <<1, 2>>, <<1, 2>>, <<2, 1>>, <<2, 1>>, <<2, 1>>>>

\* Kernel 1 revokes three children on kernel 2, which sends it requests.
Wakeups == <<<<1, 2>>, <<1, 2>>, <<1, 2>>>>

Send(how, k, op, r, d) ==
    [how |-> how, to |-> k, msg |-> [op |-> op, r |-> r, d |-> d, ack |-> FALSE]]
Revokes(k, chains, rs) ==
    [kernel |-> k, job |-> [i \in DOMAIN rs |->
                               Send("sendRevocationTo", chains[rs[i]][2], "revoke", rs[i], 2)]]
Requests(k, j, n) == [kernel |-> k, job |-> [i \in 1..n |-> Send("sendTo", j, "request", 0, 0)]]

TreeThreads ==
    <<Revokes(1, Trees, <<1, 2, 3, 4>>), Requests(2, 1, 1), Requests(3, 2, 3)>>
CrossingThreads == <<Revokes(1, Crossings, <<1, 2, 3>>), Revokes(2, Crossings, <<4, 5, 6>>)>>
WakeupThreads == <<Revokes(1, Wakeups, <<1, 2, 3>>), Requests(2, 1, 3), Requests(1, 2, 1)>>

TreeKernels == IF Variant = "usual" THEN {1, 2, 3} ELSE {1, 2}
TreeChains == CASE Variant = "crossing" -> Crossings [] Variant = "wakeup" -> Wakeups
                [] OTHER -> Trees
TreeJobs == CASE Variant = "crossing" -> CrossingThreads [] Variant = "wakeup" -> WakeupThreads
              [] OTHER -> TreeThreads

Tree == INSTANCE KPEChannel WITH
    Kernel <- TreeKernels, MAX_MSG_INFLIGHT <- 4, Chain <- TreeChains, Threads <- TreeJobs

\* Every kernel runs an application; kernel 1 runs no service.
IdleKernels == 0..3
IdleApps == [k \in IdleKernels |-> 1]
IdleDaemons == [k \in IdleKernels |-> CASE k = 1 -> 0 [] k = 2 -> 2 [] OTHER -> 1]

Idle == INSTANCE Shutdown WITH
    Kernel <- IdleKernels, MAX_MSG_INFLIGHT <- 4, MaxCreated <- 1,
    Apps <- IdleApps, Daemons <- IdleDaemons

\* Every kernel has a service; kernel 0 loads an application after the last
\* kernel, kernel 2 a client that needs no sign.  In the variant, the application
\* of kernel 1 requires the service of the kernel after it.
BootKernels == 0..2
BootLoads ==
    (0 :> <<{"m3fs"}, {}, {"app0"}>>) @@ (1 :> <<{"srv1", "app1"}>>)
    @@ (2 :> <<{"srv2", "app2", "trace2"}>>)
BootDaemons == {"m3fs", "srv1", "srv2"}
BootTrace == {"trace2"}
BootProvides ==
    ("m3fs" :> "fs") @@ ("srv1" :> "s1") @@ ("srv2" :> "s2")
    @@ [v \in {"app0", "app1", "app2", "trace2"} |-> "none"]
BootRequires ==
    ("app0" :> {"s1", "s2"}) @@ ("app1" :> IF Variant = "late" THEN {"s2"} ELSE {"fs"})
    @@ ("app2" :> {"fs", "s1"}) @@ ("trace2" :> {"s1"}) @@ [v \in BootDaemons |-> {}]

Boots == INSTANCE Boot WITH
    Kernel <- BootKernels, MAX_MSG_INFLIGHT <- 4, Loads <- BootLoads, NoService <- "none",
    Provides <- BootProvides, Requires <- BootRequires, Daemon <- BootDaemons, Trace <- BootTrace

\* Two capability trees over three kernels with one VPE each.  a1 has a local
\* child with one remote child, and two remote children of which one goes on to
\* the third kernel and back; c2 is the root of the second tree.
RevParent ==
    ("a1" :> "none") @@ ("a2" :> "a1") @@ ("b1" :> "a2") @@ ("b2" :> "a1") @@ ("c1" :> "b2")
    @@ ("a3" :> "c1") @@ ("c2" :> "none") @@ ("a4" :> "c2") @@ ("b3" :> "c2") @@ ("c3" :> "c2")
RevCaps == DOMAIN RevParent
RevOwner == [c \in RevCaps |->
                CASE c \in {"a1", "a2", "a3", "a4"} -> "va" [] c \in {"b1", "b2", "b3"} -> "vb"
                  [] OTHER -> "vc"]
RevVpeKernel == ("va" :> "ka") @@ ("vb" :> "kb") @@ ("vc" :> "kc")

Revs == INSTANCE Revocation WITH
    Kernel <- {"ka", "kb", "kc"}, Vpe <- {"va", "vb", "vc"}, Cap <- RevCaps,
    VpeKernel <- RevVpeKernel, Owner <- RevOwner, InitParent <- RevParent, InitLive <- RevCaps,
    Revocable <- {"a1", "c2"}, Exiting <- {}, Obtainable <- {}, CleanReuse <- TRUE, None <- "none"

\* A chain from one kernel to the other and back.  The VPEs refill selectors while
\* others still list the key or have kernelcalls about it under way.
ReuseParent == ("a1" :> "none") @@ ("b1" :> "a1") @@ ("a2" :> "b1")
ReuseOwner == ("a1" :> "va") @@ ("b1" :> "vb") @@ ("a2" :> "va")

Reuse == INSTANCE Revocation WITH
    Kernel <- {"ka", "kb"}, Vpe <- {"va", "vb"}, Cap <- DOMAIN ReuseParent,
    VpeKernel <- [v \in {"va", "vb"} |-> RevVpeKernel[v]], Owner <- ReuseOwner,
    InitParent <- ReuseParent, InitLive <- DOMAIN ReuseParent,
    Revocable <- DOMAIN ReuseParent, Exiting <- {"va"}, Obtainable <- {"b1", "a2"},
    CleanReuse <- FALSE, None <- "none"

\* The first kernel of gem5: the first memory PE is split into the module of the
\* file system image, which is not available, and the rest; the second one is a
\* module.  KRNL_INIT_MEM_SIZE is two pages.
Mem(avail, pe, addr, size) == [avail |-> avail, pe |-> pe, addr |-> addr, size |-> size]
MemModules == <<Mem(FALSE, 1, 0, 4), Mem(TRUE, 1, 4, 8), Mem(TRUE, 2, 1, 8)>>
Memory == INSTANCE MainMemory WITH
    Modules <- MemModules, PAGE_SIZE <- 2, Sizes <- {1, 3}, KernelSize <- 4, MaxUsed <- 3,
    Exhaust <- FALSE

\* A VPE with two gates and three capabilities: for memory, and for receive
\* buffers of its own and of another kernel.
At(pe) == [pe |-> pe, ep |-> 2]
InMemory == [pe |-> "mem", ep |-> 0]
EpKernel == ("a" :> 1) @@ ("b" :> 2) @@ ("near" :> 1) @@ ("far" :> 2)
GatesDest == ("s1" :> At("near")) @@ ("s2" :> At("far")) @@ ("s3" :> InMemory)
Gates == INSTANCE Endpoints WITH
    Client <- {"a"}, Gate <- {"g1", "g2"}, Sel <- {"s1", "s2", "s3"}, Dest <- GatesDest,
    NoBuffer <- InMemory, Place <- {At("near"), At("far")}, KernelOf <- EpKernel, EP_COUNT <- 4,
    RevokeHeld <- FALSE

\* VPEs of two kernels wait for the same receive buffers, of which one belongs to
\* the first VPE.
BuffersDest == ("s1" :> At("near")) @@ ("s2" :> At("a"))
Buffers == INSTANCE Endpoints WITH
    Client <- {"a", "b"}, Gate <- {"g1"}, Sel <- {"s1", "s2"}, Dest <- BuffersDest,
    NoBuffer <- InMemory, Place <- {At("near")}, KernelOf <- EpKernel, EP_COUNT <- 3,
    RevokeHeld <- FALSE

\* Two pages of virtual memory and two memory capabilities, one of them only to
\* read.
PageMems ==
    ("m1" :> [base |-> 1, pages |-> 2, perms |-> {"r", "w"}])
    @@ ("m2" :> [base |-> 3, pages |-> 1, perms |-> {"r"}])
Maps == INSTANCE PageTables WITH
    MemCaps <- PageMems, Pages <- 2, Entries <- 2, Perms <- {{"r"}, {"r", "w"}}

\* A heap that can be extended twice.
Alloc == INSTANCE Heap WITH
    InitEnd <- 9, Chunk <- 4, MaxEnd <- 17, Sizes <- {1, 2, 3}, MaxAreas <- 4

\* A VPE sends requests, and another kernel two at a time.  There is a thread for
\* each PE, that of the kernel included, one for the other kernel and one more.
ThreadGates == ("k1" :> 1) @@ ("k2" :> 1) @@ ("v" :> 2)
Thrds == INSTANCE Threads WITH
    krnlThreads <- 4, GateCount <- 2, GateOf <- ThreadGates, MaxCalls <- 1, MaxWaits <- 2

\* Nodes of one key and of several keys.
TreapNodes == (1 :> 1) @@ (2 :> 3) @@ (5 :> 1) @@ (6 :> 2) @@ (8 :> 1) @@ (9 :> 1)
Caps == INSTANCE Treap WITH Nodes <- TreapNodes, MaxInserts <- 5

--------------------------------------------------------------------------
NoSlots == inflight = 0 /\ waiting = 0
NoWait == NoSlots /\ ready = 0
NoRun == lastReply = 0 /\ run = 0
NoKpe == NoRun /\ todo = 0
NoRevs == parent = 0 /\ rev = 0 /\ msgs = 0 /\ pc = 0 /\ cur = 0 /\ act = 0
NoRev == NoRevs /\ halted = 0 /\ live = 0 /\ children = 0
NoShut ==
    /\ count = 0 /\ daemons = 0 /\ shut = 0 /\ stopped = 0 /\ closing = 0 /\ requests = 0
    /\ issued = 0 /\ state = 0 /\ kpes = 0 /\ toZero = 0 /\ fromZero = 0 /\ created = 0
NoEps == vpe = 0 /\ attached = 0 /\ waitlist = 0
NoBoot == kern = 0 /\ setup = 0
NoPages == caps = 0 /\ pte = 0 /\ tlb = 0 /\ runs = 0
NoHeap == area = 0 /\ end = 0 /\ given = 0
NoThrd ==
    /\ current = 0 /\ blocked = 0 /\ sleep = 0 /\ event = 0 /\ at = 0 /\ serving = 0
    /\ waits = 0 /\ inbox = 0 /\ asked = 0 /\ calls = 0 /\ returned = 0
NoTreap == prio = 0 /\ inserted = 0 /\ within = 0
NoOne == root = 0 /\ NoPages /\ NoHeap /\ NoThrd /\ NoTreap
NoMem == list = 0 /\ used = 0 /\ NoEps /\ NoOne
NoDone == done = 0 /\ NoKpe /\ NoRev
NoOther == NoWait /\ net = 0 /\ NoShut /\ NoBoot
NoEp == NoDone /\ NoWait /\ NoShut /\ NoBoot /\ list = 0 /\ used = 0 /\ NoOne
NoMany == net = 0 /\ done = 0 /\ NoShut /\ NoBoot /\ list = 0 /\ used = 0 /\ NoEps

Init ==
    /\ case \in Cases
    /\ CASE case = "tree" -> Tree!Init /\ NoRev /\ NoShut /\ NoBoot /\ NoMem
         [] case = "idle" -> Idle!Init /\ NoDone /\ NoBoot /\ net = 0 /\ NoMem
         [] case = "boot" -> Boots!Init /\ NoDone /\ NoShut /\ NoWait /\ NoMem
         [] case = "revoke" -> Revs!Init /\ NoKpe /\ NoOther /\ NoMem
         [] case = "reuse" -> Reuse!Init /\ NoKpe /\ NoOther /\ NoMem
         [] case = "memory" -> Memory!Init /\ NoDone /\ NoOther /\ NoEps /\ NoOne
         [] case = "gates" -> Gates!Init /\ NoEp
         [] case = "buffers" -> Buffers!Init /\ NoEp
         [] case = "pages" ->
              Maps!Init /\ NoMany /\ NoWait /\ NoRun /\ NoRevs /\ NoHeap /\ NoThrd /\ NoTreap
         [] case = "heap" ->
              /\ Alloc!Init /\ NoMany /\ NoWait /\ NoKpe /\ NoRev
              /\ root = 0 /\ NoPages /\ NoThrd /\ NoTreap
         [] case = "threads" ->
              /\ Thrds!Init /\ NoMany /\ NoSlots /\ NoKpe /\ NoRev
              /\ root = 0 /\ NoPages /\ NoHeap /\ NoTreap
         [] case = "treap" ->
              Caps!Init /\ NoMany /\ NoWait /\ NoKpe /\ NoRev /\ NoPages /\ NoHeap /\ NoThrd

\* A step of one of the modules in its case.
Kpe(A) == case = "tree" /\ A /\ UNCHANGED <<case, revVars, shutVars, bootVars, memVars, epVars, oneVars>>
Shut(A) ==
    /\ case = "idle" /\ A
    /\ UNCHANGED <<case, net, done, kpeVars, revVars, bootVars, memVars, epVars, oneVars>>
Boot(A) ==
    /\ case = "boot" /\ A
    /\ UNCHANGED <<case, waitVars, done, kpeVars, revVars, shutVars, memVars, epVars, oneVars>>
Rev(c, A) ==
    /\ case = c /\ A
    /\ UNCHANGED <<case, waitVars, net, kpeVars, shutVars, bootVars, memVars, epVars, oneVars>>
InMem(A) ==
    /\ case = "memory" /\ A
    /\ UNCHANGED <<case, waitVars, net, done, kpeVars, revVars, shutVars, bootVars, epVars, oneVars>>
InEps(c, A) ==
    /\ case = c /\ A
    /\ UNCHANGED <<case, waitVars, done, kpeVars, revVars, shutVars, bootVars, memVars, oneVars>>
InMaps(A) ==
    /\ case = "pages" /\ A
    /\ UNCHANGED <<case, waitVars, lastReply, run, parent, rev, msgs, pc, cur, act>>
    /\ UNCHANGED <<manyVars, heapVars, thrdVars, treapVars>>
InHeap(A) ==
    /\ case = "heap" /\ A
    /\ UNCHANGED <<case, waitVars, kpeVars, revVars, manyVars, root, pageVars, thrdVars, treapVars>>
InThrds(A) ==
    /\ case = "threads" /\ A
    /\ UNCHANGED <<case, inflight, waiting, kpeVars, revVars, manyVars>>
    /\ UNCHANGED <<root, pageVars, heapVars, treapVars>>
InTreap(A) ==
    /\ case = "treap" /\ A
    /\ UNCHANGED <<case, waitVars, kpeVars, revVars, manyVars, pageVars, heapVars, thrdVars>>

Next ==
    \/ Kpe(Tree!Next)
    \/ Shut(Idle!Next)
    \/ Boot(Boots!Next)
    \/ Rev("revoke", Revs!Next) \/ Rev("reuse", Reuse!Next)
    \/ InMem(Memory!Next)
    \/ InEps("gates", Gates!Next) \/ InEps("buffers", Buffers!Next)
    \/ InMaps(Maps!Next)
    \/ InHeap(Alloc!Next)
    \/ InThrds(Thrds!Next)
    \/ InTreap(Caps!Next)

\* The fairness of the modules.
Progress ==
    \/ Kpe(Tree!Progress)
    \/ Shut(Idle!Progress)
    \/ Boot(Boots!Next)
    \/ Rev("revoke", Revs!Progress) \/ Rev("reuse", Reuse!Progress)
    \/ InEps("gates", Gates!Progress) \/ InEps("buffers", Buffers!Progress)
    \/ InThrds(Thrds!Progress)
Fairness == WF_vars(Progress)

Spec == Init /\ [][Next]_vars /\ Fairness

--------------------------------------------------------------------------
\* The state is of its type, and the counts of messages in flight, of VPEs and
\* of awaited signs stay in their bounds.  No key has two entries in a revocation
\* list, and the free areas of a memory module neither overlap nor touch.
TypeOK ==
    /\ case = "tree" => Tree!TypeOK
    /\ case = "idle" => Idle!TypeOK
    /\ case = "boot" => Boots!TypeOK
    /\ case = "revoke" => Revs!TypeOK /\ Revs!OneEntryPerKey
    /\ case = "reuse" => Reuse!TypeOK
    /\ case = "memory" => Memory!TypeOK /\ Memory!Merged
    /\ case = "gates" => Gates!TypeOK
    /\ case = "buffers" => Buffers!TypeOK
    /\ case = "pages" => Maps!TypeOK
    /\ case = "threads" => Thrds!TypeOK
    /\ case = "treap" => Caps!TypeOK

\* The count of messages in flight is exact.
InflightExact == case = "tree" => Tree!InflightExact

\* When nothing is in flight, a thread that waits for a slot has another one
\* before it that is about to use the channel.
NoLostWakeup == case = "tree" => Tree!NoLostWakeup

\* A revocation that begins comes to its end.
RevocationsEnd ==
    (case = "tree" /\ todo = {}) ~> (case = "tree" /\ done = DOMAIN TreeChains)

\* A kernel ends its services or stops only if no application is left.
NoAppLoses == case = "idle" => Idle!NoAppLoses

\* A kernel that kernel 0 has removed sends it nothing more.
NothingAfterRemoval == case = "idle" => Idle!NothingAfterRemoval

\* When all applications have ended, all kernels stop.
AppsEnded == case = "idle" /\ \A k \in DOMAIN count : count[k] <= daemons[k]
AllStop == AppsEnded ~> (case = "idle" /\ \A k \in DOMAIN count : stopped[k])

\* A kernel knows the sender of the kernelcall it handles.
KnownSender == case = "boot" => Boots!KnownSender

\* The PEs that are handed over to a kernel have one owner at any time.
OneOwner == case = "boot" => Boots!OneOwner

\* No VPE that waits for its start runs before all kernels are ready for it.
StartTogether == case = "boot" => Boots!StartTogether

\* In the end all VPEs run.
AllStart == case = "boot" ~> (case = "boot" /\ Boots!Started)

\* No derived capability escapes a revocation of its parent, whenever selectors are
\* refilled.
NoEscape == case = "reuse" => Reuse!NoEscape

\* A revoke system call returns when everything derived is gone.
ReturnMeansGone == case = "revoke" => Revs!ReturnMeansGone

\* No kernel follows a null pointer.
NoNullPointer == case = "revoke" => Revs!NoNullPointer

\* A revoke system call comes to an end.
Revoking == case = "revoke" /\ \E v \in DOMAIN pc : pc[v] # "idle"
RevokeReturns == Revoking ~> (case = "revoke" /\ ~Revoking)

\* No byte of a memory module is handed out twice.
HandedOutOnce == case = "memory" => Memory!HandedOutOnce

\* An endpoint is configured from a capability as long as that exists.
EndpointHasCap ==
    (case = "gates" => Gates!EndpointHasCap) /\ (case = "buffers" => Buffers!EndpointHasCap)

\* A gate that is bound to an endpoint can be used.
BoundIsUsable ==
    (case = "gates" => Gates!BoundIsUsable) /\ (case = "buffers" => Buffers!BoundIsUsable)

\* The page table allows what the mapping capabilities say, and the TLB no more.
AddressSpaceExact == case = "pages" => Maps!AddressSpaceExact

\* The areas of the heap are those handed out and the free ones between them.
HeapExact == case = "heap" => Alloc!HeapExact

\* A kernel halts only if none of its threads is ready.
HaltsIdle == case = "threads" => Thrds!HaltsIdle

\* A treap finds what was inserted and not removed.
FindsExactly == case = "treap" => Caps!FindsExactly

\* System calls return: an activation does not wait forever for a receive buffer
\* that stays attached, and a handler that waits goes on when it is answered.
Stuck ==
    \/ case = "gates" /\ Gates!Stuck("a")
    \/ case = "buffers" /\ Buffers!Stuck("b")
    \/ case = "threads" /\ \E c \in DOMAIN ThreadGates : calls[c] > returned[c]
CallsReturn == Stuck ~> (case \in {"gates", "buffers", "threads"} /\ ~Stuck)
=============================================================================
