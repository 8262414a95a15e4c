# A TLA+ model of SemperOS

SemperOS is a microkernel for heterogeneous manycores in which **several kernels
share one system**. Each kernel owns a group of processing elements (PEs) and the
VPEs (processes) on them. Kernels share no memory: whatever crosses a group is a
message between two kernels, a *kernelcall*. Access to anything is by
*capabilities*, and a capability may have children on any kernel. File system,
pager and pipes are services that run as VPEs and are reached over sessions.

The model follows this structure. The kernels come first: the forest of
capabilities that all of them change at the same time, the channels between
them, their start and their end, the memory and the endpoints they hand out.
Then the services and the parts of the user-level library that share a protocol
with them.

All paths are relative to `src/src/` of the repository; `kernel/` is
`src/src/apps/kernel/`.

## 1. Parts of the system and where they are modelled

| Part | State | Module |
|---|---|---|
| Capability tables, revocation lists (`kernel/cap/`) | tables, parents and children, one entry per capability under revocation | `Revocation` |
| Exchange of capabilities (`kernel/SyscallHandler.cc`, `KernelcallHandler.cc`) | obtains under way, also to other kernels | `Revocation` |
| Kernel channels (`kernel/pes/KPE.*`) | messages in flight, waiting threads, per pair of kernels | `KPEChannel`, `Session` |
| Services, sessions (`kernel/com/Services.*`, `SendQueue.h`, `createsess`) | services, queues, calls under way | `SendQueue` (implements `Fifo`), `Session` |
| Start of kernels and applications (`kernel/Coordinator.cc`, `pes/PEManager.cc`) | known kernels, announced services, pending VPEs, start signs | `Boot` |
| Shutdown (`Coordinator.cc`, `tryTerminate`) | counters of VPEs, requests and kernels | `Shutdown` |
| Main memory (`kernel/mem/`) | list of free areas per module | `MainMemory` |
| Receive buffers and endpoints (`kernel/com/RecvBufs.h`, `activate`, `libs/m3/com/EPMux.cc`) | endpoint registers, gates, subscribers | `Endpoints` |
| Page tables (`kernel/arch/gem5/DTU.cc`, `createmap`) | mapping capabilities, page tables, TLB | `PageTables` |
| Threads and work loop (`include/thread/`, `kernel/WorkLoop.cc`) | lists of threads, messages at gates | `Threads` |
| Heap (`libs/base/Heap.cc`) | headers of the areas | `Heap` |
| Treap (`include/base/col/Treap.h`) | the tree with its priorities | `Treap` |
| Direct pipes (`libs/m3/pipe/`) | ring in the memory of the reader, messages as tokens | `DirectPipe` (implements `BytePipe`) |
| Pipe service (`apps/pipeserv/`) | ring buffer, pending requests | `PipeServ`, `VarRingBuf` (implement `BytePipe`) |
| File system (`apps/m3fs/`, `libs/m3/vfs/RegularFile.cc`) | bitmaps, inodes, directories, open files | `FSAllocator`, `M3FSData`, `M3FS` |
| Pager (`apps/pager/`) | dataspaces, regions, physical memory, owners | `Pager` |

`MCRevocation`, `MCKernels` and `MCServices` are the instances for TLC. The last
two hold several instances of several modules: the variable `case` says which
instance a behaviour belongs to, and the variables of the others are 0. The constant `Variant` gives the
violation runs other constants for the same instance. Modules
with a suffix (`Revocation_types`, `_shape`, `_threads`, `_escape`,
`SendQueue_fifo`, `MainMemory_exact`, `PageTables_exact`) hold proofs.

### How the parts interact

A kernel is one core with **cooperative threads**: a handler runs until it calls
`wait_for` (directly, or because a channel has no free message slot), and no
other handler of that kernel runs in between. All concurrency is therefore
between kernels, between a kernel and the VPEs, and between the parts of a
handler before and after a wait. What is read before such a wait and used after
it is the recurring difficulty: capabilities, sessions, VPEs and services are
held by plain pointers across it. Services are single-threaded VPEs; their
concurrency is the order of the requests of several clients, and requests that
are answered later than they arrive.

Common decisions:

* Assertions are compiled out in the release build that the repository's
  documentation uses; the states behind them are kept. One exception is the
  `PANIC` for a second entry of a key in `RevocationList::add`, which only builds
  without `NDEBUG` have (`CanAwait`).
* Following a null pointer, or `PANIC`, stops a kernel or a VPE.
* Numbers are small but keep their role: the number of message slots is that of
  the code, block and page sizes are two or so.
* An action is a handler from one wait to the next. A request of a client and
  its handling by the service are one step where nobody can observe the state
  between.

## 2. Runs

| Run | Instances | Result |
|---|---|---|
| `rev_overlap` | two kernels, five capabilities; any capability is revoked, one VPE exits, two selectors are refilled | pass |
| `kernels_all` | `tree`, `idle`, `boot`, `revoke`, `reuse`, `memory`, `gates`, `buffers`, `pages`, `heap`, `threads`, `treap` | pass |
| `services_all` | `direct`, `serv`, `wrap`, `queue`, `near`, `far`, `files`, `shared`, `paths`, `heap`, `image` | pass |
| `rev_null`, `rev_fork` | overlapping revocations; a local child with two remote ones | `NoNullPointer`, `RevokeReturns` violated |
| `kernels_crossing`, `kernels_wakeup`, `kernels_late` | opposite revocations; a request behind waiting replies; a service of a later kernel | `RevocationsEnd`, `NoLostWakeup`, `AllStart` violated |
| `services_crowd`, `services_append`, `services_ring`, `services_fork` | three clients at once; append to a file; a read across the unused rest of a ring; a VPE with two clones | `CreateSessReturns`, `SizeIsWritten`, `IsPipe`, `OwnMemory` violated |

Every violation is a disagreement between the code and a comment, a doc or a test
of the repository, quoted by a finding in `PROJECT.json`. They also bound what
the passing runs claim: the passing instances leave out the combination that
fails, and say so below.

`CHECK_DEADLOCK FALSE` is set everywhere: a system whose VPEs have made all their
calls stops.

**Fairness.** `Revocation`, `KPEChannel`, `Session`, `Boot`, `Shutdown`,
`Endpoints`, `Threads` and the services have a `Progress` (or name all of `Next` so): the
steps that the system takes by itself, that is messages that are fetched, threads
that were woken and go on, services that answer. The union modules assume weak
fairness of `Progress`. The code justifies it: the work loop of a kernel polls all
its gates in turn and yields to ready threads, and so does the loop of a service.
`Threads` (section 8) is this loop itself, and shows that a woken thread goes on.
Which of several possible steps comes first is left open. That is no stronger
than the code and is enough, because between two calls of a VPE only finitely
many such steps are possible. Nothing is assumed of the VPEs: they may never make
another call, unless a section says otherwise.

## 3. Revocation

`live`, `parent` and `children` are the capability tables of all VPEs. A key
names one slot of one table (`Owner`), so it also determines the kernel
responsible for it (`Home`). `rev` is the union of the kernels' revocation
lists, `msgs` the kernelcalls in flight. `act[k]` is the thread that is running
on kernel `k`, with the stack of its `revoke_rec` activations or the
notifications it still has to make. `pc`, `cur` and `done` are the VPEs' system
calls.

| Action | Code |
|---|---|
| `RevokeSyscall`, `RevokeUnused` | `SyscallHandler::revoke`, `CapTable::revoke` with and without a capability at the selector |
| `Exit`, `RevokeAll` | last reference to a VPE, `CapTable::revoke_all` |
| `RevokeRemoteChild`, `RevokeLocalChild` | one turn of the loop in `revoke_rec` |
| `ReturnToParent`, `ReturnToHandler`, `RootWait`, `RootReturn` | the end of `revoke_rec`, by caller |
| `HandleRevoke`, `HandleRevokeFinish`, `HandleRemoveChild` | the kernelcall handlers |
| `NotifySubscriber`, `FinishEntry`, `ResumeRoot`, `FinishRoot` | `Revocation::notifySubscribers` and what its callers do afterwards |
| `ObtainLocal` | `do_exchange` |
| `ObtainRemote`, `HandleExchange`, `HandleExchangeGone`, `HandleExchangeReply`, `ObtainResume` | `exchange_over_sess` before and after its wait, and the two kernelcalls |

Decisions:

* `MHTInstance::get` of a local capability key fills in the key and a length, so
  `MHTItem::isEmpty` is never true for it. The branches for an empty item are
  not taken, and a missing capability shows as a null pointer.
* Kernelcalls between two kernels arrive in order; the model lets them arrive in
  any order, so that what holds here does not depend on it. There is one
  exception that `NoEscape` does depend on: an obtain is not handled before the
  removal of an earlier child pointer for the same selector and parent
  (`RemovalSent`).
* A range of several selectors is a sequence of system calls.
* Children are a set: a key that a list has twice is in it once. The order of a
  list of children is not modelled.
* The recursion of `notifySubscribers` is a set of pending notifications taken
  in any order.
* The answer to a remote obtain is kept in `parent` of the selector, which is
  not in use until `ObtainResume`. That cancels the obtain if the selector was
  filled meanwhile, which no other call of the VPE can do in this model.
* `CleanReuse` is an assumption on the applications: a VPE obtains into a
  selector only when no kernel has a trace of its former capability. The code
  does not enforce it. `rev_overlap` makes it, for `RootWaits`; the case `reuse`
  and the theorems do not.

**What is checked.** `rev_overlap` has `RootWaits` and `NoEscape` whatever
overlaps and whoever halts. The case `revoke` of `kernels_all` (three kernels,
ten capabilities: a local child with a remote child, a chain over all kernels and
back, a second tree; both roots are revoked) has `ReturnMeansGone`,
`NoNullPointer`, `OneEntryPerKey` (as part of `TypeOK`) and `RevokeReturns`; it has
no overlapping revocations. `ReturnMeansGone` is about all descendants of the
revoked capability, however deep. The case `reuse` (a chain to the other kernel and
back, two selectors refilled at any time, a VPE that exits) has `NoEscape` without
`CleanReuse`. With overlapping ones TLC also shows, on the forests of `rev_null`,
that an entry completed on behalf of a subscriber stays in the list
(`cap/Revocations.cc:35`) and is met by the next revocation at the key, and that
a second revocation of a selector returns at once because the key it constructs
has another type (`cap/CapTable.cc:221`), so that `ReturnMeansGone` does not hold
there.

Bounds: three kernels are needed for an answer that passes through a kernel
between root and leaf; ten capabilities give each of them a local and a remote
child. Two kernels with a chain that goes and comes back are the smallest
instance in which two revocations wait for each other's kernel.

**Proofs.** For every set of kernels, VPEs and capabilities, every assignment of
tables to kernels and every initial forest (`ConstantsAssumption`):

* `Typing` (`Revocation_threads`): `Spec => []TypeOK`.
* `TypeCorrect` (`Revocation_threads`): `Spec => [](TypeOK /\ Structure)`.
* `NoneEscapes` (`Revocation_escape`): `Spec => []NoEscape`, whenever selectors are
  refilled.

`TypeOK` is not inductive: `FinishEntry` sends to `rev[c].parent`, so one must
know that only the root's entry has no parent, which in turn depends on what
frames the running thread has. `Structure` collects these facts:

* `ActOK`, `FramesOK`: the frames on the stack of a kernel are about that
  kernel's capabilities, which are in no table; only the first frame of a VPE's
  thread may lack a parent; an entry that a frame has added stays.
* `EntryOK`, `MsgOK`: only roots lack a parent; requests name an origin.
* `WorkOK`, `RunOK`: a system call under way is about a capability of its VPE
  that is in no table; the running thread is that of such a VPE.
* `ExchangeOK`: a remote obtain is exactly one message.
* `RootsUnlisted`: nobody lists a capability without a parent.

`NoEscape` needs `Escape`: with `ObtainOK`, an answer on its way to the
obtaining kernel is about a capability that a revocation of its parent will
find (or whose kernel has halted); with `RemoveChildOK`, while the removal of a
child pointer is on its way, nothing is derived along that pointer: the child is
not in its table with this parent, and no answer to an obtain from this parent is
on its way. This holds because an obtain from the same parent is a later message
of the same kernel (`RemovalSent`). The argument for each step is the pair
`Held`/`Kept`: after a step that stops a child from being found, the child is not
derived from that parent any more.

Only model-checked: `RootWaits`, `ReturnMeansGone`, `NoNullPointer`,
`OneEntryPerKey`, and `RevokeReturns`, which is a liveness property under
fairness and out of the prover's reach.

## 4. KPEChannel

A kernel may have `MAX_MSG_INFLIGHT` = 4 kernelcalls in flight to another one.
`KPE::sendTo` waits at two, `sendRevocationTo` at three, `reply` at three if
the last message was a reply as well. A reply is not counted. `msg_received`
runs when a kernelcall has been answered and wakes one waiting thread.

| Action | Code |
|---|---|
| `Send`, `Wait` | the loop and the end of `KPE::sendTo`, `sendRevocationTo`, `reply`, `forwardTo` |
| `Resume` | `ThreadManager::yield` to a woken up thread, which evaluates the loop condition again |
| `Handle` | the work loop fetches a message; `KernelcallHandler::reply`, `revoke` or `revokeFinish` runs up to its first send |
| `MsgReceived` | `KPE::msg_received`, part of `Handle` |
| `Syscall` | a system call of a VPE begins and sends |

A job is the list of sends a thread has still to make. It stands for the
position of the thread in its handler: `revoke` of an inner capability sends the
next `revoke`, then the reply. Chains replace capability trees: a chain is one
path of kernels from the root to a leaf, and a tree is the set of its paths.
Counting the answers of a tree is the subject of `Revocation`. Messages of a pair
of kernels are fetched in the order in which they were sent. `forwardTo` is a
`sendTo`. `checkShutdown`, which runs after each wait, does nothing before a
shutdown and is left out.

Checked (case `tree`: a root with more remote children than slots, a grandchild on
a third kernel, and other requests): `InflightExact`, `RevocationsEnd`. Violated in `kernels_crossing`: with two
opposite revocations of three children each, `revokeFinish` needs a slot itself
and both kernels wait. Violated in `kernels_wakeup`: kernel 1 revokes three
children on kernel 2, which sends it requests. The replies of kernel 1 wait behind
each other, and a request of kernel 1 behind them; each answer wakes one reply,
which takes no slot and wakes nobody (`KPE.h:149-156`), so that the request still
waits when nothing is in flight. It waits until the next answered message. One more
observation has no run: replies are not counted, so that five messages can meet the
four slots (`KPE.cc:57` keeps one for replies).

Bounds: the number of slots is that of the code. Four children are one more than
the slots a revocation may use, so that a sender waits; three in both directions
are the smallest number that fills both channels.

## 5. Boot and Shutdown

**Boot.** Kernel 0 loads its VPEs and starts the other kernels one by one;
each new kernel tells its creator that it lives (`sigvital`), is told about the
kernels before it (`announceKrnls`), connects to each of them (`connect`, two
stages), and loads its own VPEs. Services register with `createsrv` and are
announced to all known kernels. A VPE with requirements is pending until the
services it names are known; with `SYNC_APP_START` kernel 0 collects a sign of
every kernel and gives a sign to all.

`kern[k]` is the state of a kernel (known kernels, services, pending and running
VPEs, waiting threads), `setup` the connections under way and the owners of PEs,
`net` the messages. Each handler of a message is a disjunct of `Handle` or
`HandleConnect`; `LoadNext` is `PEManager::load`, `CreateSrv` the system call of a
service.

Checked (case `boot`, three kernels): `KnownSender`, `OneOwner`, `StartTogether`,
`AllStart` (which includes that all kernels are connected). `kernels_late`: an application that requires a service
of a kernel which is started later is never told of it. Bounds: with three kernels
the third connects to a kernel that is not its creator; each kernel has one
service. Four kernels are out of reach. Message slots do not run out in these
instances. Not modelled: the flag MIGRATING, and the use of the iterator of
`_connectionReqs` after the element was deleted (`KernelcallHandler.cc:970-976`).

**Shutdown.** When the last application of a kernel ends, `tryTerminate` tells
kernel 0 or answers its question; kernel 0 counts (`closingRequests`) and sends
`shutdown` when all are idle. Each kernel then ends its services, answers, and
stops.

| Action | Code |
|---|---|
| `ExitApp`, `ExitDaemon` | `SyscallHandler::exit`, `PEManager::remove`, then `tryTerminate` |
| `CreateVpe` | `PEManager::create` for an application |
| `RequestFrom`, `ReplyFrom` | `requestShutdown` on kernel 0, stages KREQUEST and KREPLY |
| `ShutdownReplyFrom` | `shutdown` on kernel 0, stage KREPLY: `removeKPE`, `terminate` |
| `HandleRequest`, `HandleShutdown` | the same kernelcalls on another kernel |
| `Resume` | a thread of kernel 0 that waited for a slot goes on with `broadcastShutdown` |

The count of messages in flight from kernel 0 is kept, because kernel 0 may
broadcast `shutdown` more than once and then waits for a slot. Services are
external: one that was told to end calls exit, which is part of the fairness. The
check for messages of a removed kernel in `requestShutdown` has no action:
`NothingAfterRemoval` shows that such messages do not exist. An application may
create others, at most `MaxCreated` in total. Four kernels are the smallest number
at which kernel 0 broadcasts often enough to wait for a slot although it is idle
from the start.

Checked (case `idle`): `NoAppLoses`, `NothingAfterRemoval`,
`AllStop` (after all applications have ended, which nobody is forced to do). If
kernel 0 becomes idle last, it asks nobody and sends no `shutdown`: it ends its own
services and stops, and `Machine::shutdown` (`arch/baremetal/kernel.cc:42`) ends
the machine with it. The kernels stop, but the services of the others are not told
to end (`SyscallHandler.cc:1042`).

## 6. MainMemory

`list` has the free areas of each memory module (`MemoryMap` keeps them sorted by
address, so they are a set), `used` the pieces that capabilities, address spaces
and kernels hold. `allocate`, `free` and `detach` of `MemoryMap` are operators on
the free areas; `reqmem`, `reqmem_at`, `AddrSpace`, `revokeAction`, `EndAddrSpace`
and `StartKernel` are the actions that use them.

`HandedOutOnce`: no byte of an available module is free and in use, or in use twice,
and nothing in use lies outside its module; in a module that is the first of its PE
every byte is free or in use. `Merged` (part of `TypeOK` in `MCKernels`):
neighbouring free areas are joined. The instance `memory` is the first kernel on
gem5: its first memory PE is split into a module that is not available and the rest
(`kernel/arch/gem5/Platform.cc:53-54`), a second PE is one module.
`MainMemory::free(pe, ...)` (`MainMemory.cc:64`) takes the first module of the PE, so
what a revocation returns of the second one is lost: it goes to a list from which
nothing is taken.

**Proof** (`MainMemory_exact`): `MemoryIsHandedOutOnce`, for all modules, sizes and
page sizes: if of several modules of a PE the first is not available (as on every
platform of the repository), requests can be met and kernels take whole pages
(together: `Platform`), then `Spec => [](HandedOutOnce /\ Merged)`. The inductive
invariant is `Parts`: free areas are inside the module with a gap between any two,
pieces in use are inside and apart from each other and from the free areas, and, in
the first module of a PE, every byte is in one of them. `HandedOutOnce` alone is not inductive: with two free areas that touch, `free` would
join only one of them. `TakeParts` is the lemma on cutting a piece out of an area,
on which those for `allocate` and `detach` rest; `FreeParts` distinguishes which of
the two neighbours of a piece are free. `FirstFits` shows, by well-founded
induction over addresses, that `CHOOSE` finds the lowest fitting area.

Left out: exhausted memory, where `allocate` returns -1 and `MainMemory.cc:47`
takes it for an address; and `detach` in a list with small unaligned areas before
the fitting one, where `p` is stale (`MemoryMap.cc:113-125`). At boot, when
`detach` is called, the list has one area (`SingleArea`).

## 7. Endpoints

A VPE has more gates than endpoints. `EPMux` gives an endpoint to the gate that is
used next and takes it from another. The kernel configures the endpoint from the
capability of the gate and keeps its number in the capability (`localepid`), so
that `MsgCapability::revoke` can invalidate it; the library does not learn of
that. An activation waits until the receive buffer it leads to is attached, in a
callback or, if another kernel is responsible for the buffer, as a thread that
waits for `recvBufAttached`.

`vpe[c]` holds both views of a client: `gates`, `epid`, `sel`, `victim`, `eps` are
the library's; `live`, `localepid`, `ep` the kernel's; `call` is the activation
that waits. `attached` and `waitlist` are `RecvBufs`, `net` the two kernelcalls.
The actions are the operations of `EPMux`, `Gate` and `RecvBuf`, each with its
system call, the two handlers of kernelcalls, `exit`, and revocation and obtain by
others.

`EndpointHasCap`: an endpoint is configured from a capability exactly as long as
that exists, and the capability knows it. `BoundIsUsable`: a gate the library takes
for bound is, unless its capability was revoked. `CallsReturn`: an activation does not wait
forever for a buffer that stays attached.

Instances: `gates` (two gates, three capabilities, two endpoints of which receive
buffers may take some, so that there are fewer endpoints than gates) and `buffers`
(two clients of two kernels that wait for the same buffers, one of them a
client's own). Restrictions: two gates do not share a selector, selectors are
refilled when no gate has them, gates are not moved while bound (the moved gate
is not the one that `EPMux` knows), buffers of one VPE do not overlap, and a
capability is not revoked while a waiting activation holds a pointer to it
(`RevokeHeld`; if it is, the endpoint is configured from freed memory and TLC
shows `EndpointHasCap` violated). An activation for a buffer whose VPE has exited
waits until the next VPE on that PE attaches one.

## 8. Page tables, threads, heap and treap

### Page tables

`PageTables` is the address space of one VPE: `caps` are its mapping capabilities,
`children` what each memory capability lists, `root` and `pte` two levels of the
page table (the code has more levels, which are all treated like the root),
`tlb` the entries the DTU keeps. A system call (`createmap`, `RevokeMap`,
`RevokeMem`, `reqmem`, `config_pf_remote`, `Exit`) leaves a list of calls of
`map_page` in `todo`, each of which is one or two steps: the write of the entry
and, if permissions were taken away, the invalidation of the page. The VPE
accesses its pages in between (`Access`, `Evict`).

The revocation of a mapping does not get far in the code, and the model follows it.
`MHTItem::checkType<Capability>` (`ddl/MHTTypes.h:387`) does not know the type
`MAPCAP`, so the first mapping among the children of a revoked memory capability is
a null pointer (`cap/CapTable.cc:101`); and a revoked mapping looks its parent up
with the type of a memory capability and the bit of a mapping
(`cap/CapTable.cc:63`), which `checkType` does not know either. `RevokeMem`,
`RevokeMap` and `Exit` therefore set `halted` when a mapping is concerned: the page
of a revoked mapping is still unmapped, and then the kernel makes no further call.

`AddressSpaceExact`: whenever the kernel has no call of `map_page` left, the page
table has exactly what the mapping capabilities say and the TLB no more than that;
and as long as the kernel goes on, what is mapped belongs to a memory capability that
exists and lists the mapping. Instance `pages`: two
pages, two memory capabilities, one of them read-only; so a page can be mapped,
mapped again with fewer permissions, or unmapped, and a new VPE starts on the PE of
one that has ended without mappings.

**Proof** (`PageTables_exact`): `AddressSpaceIsExact`, for every number of pages,
size of page tables and set of memory capabilities (`Machine` only says that they
are numbers and that no capability is called "none"):
`Spec => []AddressSpaceExact`. The property speaks of the moments when the kernel
is done; the inductive invariant `Inv` says what holds in between. `Listed`: the
mappings and the children of memory capabilities agree, unless the kernel has
halted. `Wanted`: the calls of
`map_page` that are left concern a page each and write what its capability says;
only the first may be half done. `Entered`: the entry of a page is right unless a
call for it is left. `Cached`: the TLB has no more than the entry unless the page
is still to be invalidated. `MapPageInv` is the central step: the entry is written
first, so a TLB that could have more is allowed only while `inv` is set.

Page tables come from memory that is taken to be zero, as `map_page` does not
clear them; they are never freed. `createmap` on a mapped page changes the
permissions only and keeps memory and parent, which the property does not judge.
The children of a memory capability are its mappings: an object capability with
the same selector, which `removeChildAllTypes` (`cap/Capability.cc:71`) does not
tell from a mapping, is left out.

### Threads

`Threads` is `ThreadManager` (`current`, `ready`, `blocked`, `sleep`, `event`) under
the loop of `WorkLoop::run` (`at` is the place of each thread in it). A handler is
reduced to how often it waits; others answer what was asked. A client is a VPE or one
of the message slots of another kernel and has one request at a time, so that a
kernel may have several.

`HaltsIdle`: the kernel halts only if no thread is ready, a handler that waits
always finds a thread to go on with, and an answer finds its thread waiting.
`CallsReturn`: every request is replied to. Instance `threads`: the number of threads is
chosen as `arch/baremetal/kernel.cc:72` does, for one VPE and one other kernel that
has two requests open, which is one more than there can be waiting handlers (with
more requests per kernel it need not be: the code has one thread per kernel); the first thread waits for event 0 before it enters the loop, as in a
kernel that was started by another one. The fairness is that of the loop, and that
who was asked answers.

### Heap and Treap

`Heap` has the headers of the areas, `_end`, and what was handed out. `alloc`,
`free` and `realloc` are the actions, `extend_heap` of the kernel is part of an
allocation that finds nothing. `HeapExact`: areas follow each other without gap, know
the one before them, no two free ones are neighbours, and those in use are those
handed out; and, as the comment of `contiguous_mem` says, so much can be
allocated. Instance `heap`: the heap is extended twice, the last area being used or
free. `extend_heap` extends by whole pages and at least by what is needed; the
sizes of the instance fit into one `Chunk`. `realloc` copies as many bytes as the
old area has, so only growing is modelled. Exhausted memory ends the program.

`Treap` is the tree with the priorities of the code, in 32 bits with wrap-around.
`FindsExactly`: keys are found at the nodes that match them and nowhere else, and the
tree has the order of keys and of priorities. Instance `treap`: nodes that match one
key or several, up to five insertions between two calls of `clear`; the first five
priorities fall and rise, so that nodes are rotated down on both sides. Nodes do not
overlap, which is up to the users of the treap.

## 9. SendQueue, Fifo and Session

**SendQueue** is the queue of messages from a kernel to a service: at most
`Capacity` are with the service (`given`), the others wait (`queue`). **Fifo** is
what it promises: messages are accepted in order and given to the service in that
order, and only one of those it has can be answered. The refinement mapping is
`q <- given \o queue`.

**Proof** (`SendQueue_fifo`), for every capacity and every kind of messages:
`QueueInvariant` (`Spec => []QueueInv`) and `QueueIsFifo` (`Spec => IsFifo`, the
refinement). The step that matters is `received_reply`: removing an answered
message and giving the service the next one is one removal from `given \o queue`;
`QueueInv` is needed to know that the removed message is among the first
`Capacity`. The lemmas compare `SubSeq`, `\o` and `Append` element by element.

**Session** uses the queue for `createsess`. A session at a service of the same
kernel is one message to the service. Otherwise the kernel that announced the
service is asked, or all kernels if none did (pipes are not announced), and the
thread waits for all answers and then looks at its arguments again.

| Action | Code |
|---|---|
| `CreateSrv`, `HandleAnnounceSrv`, `HandleReply` | `createsrv` and the announcement to all kernels |
| `RevokeSrv` | revocation of the service capability, with its sessions; a queue with pending messages keeps the service |
| `CreateSessLocal`, `CreateSessRemote`, `Resume`, `Await`, `Finish` | `createsess` before, at and after its wait |
| `HandleCreateSessFwd`, `HandleCreateSessResp`, `HandleCreateSessFail` | the kernelcalls |
| `ServiceReply` | the service (external) answers one of its messages; the callback runs |
| `RevokeSess` | a client gives its session up |

Checked: `AnswersCounted`, `SessionsInherit`, `SlotsKept`,
`QueuesAreFifo`, `CreateSessReturns`. Cases: `near` (two services of one name on
one kernel, a client on each of two kernels) and `far` (three kernels, two clients
that want the same selector, one of which has to ask all). `services_crowd` has
three clients that ask two kernels each; the slots run out and a caller that was
woken twice never returns.

Selectors of clients are taken to be at least `Kernelcalls::COUNT`: the answer that
no kernel has the service begins with the selector, where the handlers expect an
opcode, and a smaller one runs the handler of that number.

Left out: revocation of a session from another kernel (`Revocation` covers the
protocol), a second `createsess` of a client, and two local calls for one selector.
The fairness is that of kernels and services: a service that was given a message
answers it.

## 10. Pipes

**BytePipe** is what a pipe promises: bytes come out in the order in which they
went in. Bytes are numbered, so a byte that is lost, doubled or overtaken shows.

**DirectPipe** is the pipe between two VPEs (`libs/m3/pipe/DirectPipe*.cc`): the
writer finds a spot in the ring, writes the bytes and sends position and length; the
reader answers a message when it has consumed it, and the writer reclaims memory
from the answers. Its variables are the fields of the two classes, the memory and
the messages.

**PipeServ** is the pipe service with **VarRingBuf**, its ring of variable-sized
pieces. Requests that cannot be met wait in the service; each handler ends with
`handle_pending_read` and `handle_pending_write` where the code does.

Checked for both: `IsPipe`, that every step implements a step of `BytePipe` or
leaves it alone, with the bytes in the ring in the order of the ring as the
mapping; `EofIsEnd`, a read returns 0 only when all bytes were read; `BothClose`
under the fairness that both programs go on, which the comment in `DirectPipe.h:43`
asks of them.

Bounds: rings of three and four packages, with lengths that are not a multiple of
the package; the writer goes round the ring twice, and both the wrap at the end and
the wrap before the end happen. The case `wrap` has a ring of six packages and
writes of unequal sizes that do not divide it, so that a write goes to the start of
the ring and leaves the last package unused (`_last`). Its reader takes one package
at a time, and the skipped package is never read. `services_ring` is the same ring
with a reader that also asks for more: `VarRingBuf.h:63` limits the read by `_size`
instead of `_last`, and the reader gets the bytes of the skipped package, which
nobody wrote. Sizes of rings pass the assertion of the code, that the bit
`DTU_PKG_SIZE` is clear. Left out, each with an observation: writes of more
than half the ring (they can wait forever in an empty ring), positions
that are not aligned in `IndirectPipeReader`, more than one active VPE at an end.

## 11. The file system

`FSAllocator` is `Allocator` (inode and block bitmaps, first-fit with whole words),
`M3FSData` the operations on the disk (`INodes.cc`, `Links.cc`, `Dirs.cc`), as
operators from a disk to a disk and a result. `M3FS` has the requests of clients
as actions (`Open`, `Mkdir`, `Rmdir`, `Link`, `Unlink`, `Rename`, `Close`) and the
open files of clients (`RegularFile`): `Transfer` begins a read or write of some
bytes, `Chunk` is one turn of its loop with `get_location` (and the request for
further extents, which allocates blocks in advance), `Seek`, and `Close` with
the cut of what was not used. The variables `bytes` and `want` count what a client
did in bytes, independently of extents.

Checked: `DiskExact`, that no block is used twice and, as long as nothing was
`spoilt`, the bitmaps mark what has a name and nothing else, and the links of a file
are its names; `WriteLands`, `SizeIsWritten`, `ReadsToEnd`. Cases: `files` (one
client, two files, a full disk), `shared` (two clients), `paths` (a directory).
`services_append`: a file that is appended to loses its end when it is closed.

Bounds: a block has two directory entries, an inode two direct extents and then an
indirect block, a client gets three locations at a time; sixteen blocks are few
enough to run out of. `spoilt` marks the three cases after which not
everything has a name any more, by design of the code (blocks are still used
once): `Dirs::create` whose error path frees the
inode of the parent (`Dirs.cc:142`), a `rename` that removes the old entry and then
has no space for the new one (`Links.cc:119-127`), and an indirect block nobody
needs. A client does not open a file that is open for writing and does not remove a
file that is open: the service counts no references (`m3fs.cc:94`). It may keep a
file open and read it while another one opens it and writes; what it reads then
(`changed`) is not compared with the file, as the extents it knows may be old.
`DiskExact` is not all that the repository's `tools/m3fsck` looks for: that also
compares `first_free` with the first free bit (`m3fsck.cc:206-214`), which the
allocator uses as a hint and does not keep so, and follows entries with an empty
name (`m3fsck.cc:68-70`), which is what `Links::remove` leaves at the begin of a
block (`Links.cc:84-85`). Bitmaps have a multiple of the bits of a word, as in all
images of the repository (otherwise `Allocator.cc:73` wraps around). A file that has content is rewritten
only up to its size (`Limit`): going on beyond it takes `INodes.cc:98` into an
extent that `adjust_written_part` does not know. `rmdir` does not lower the links
of the parent (`Dirs.cc:165`), so links of directories are not compared. The caches
of blocks and of metadata are taken to be transparent.

## 12. The pager

`Pager` has the sessions of VPEs, their dataspaces as lists of regions, the objects
of physical memory with their owner, and the page tables the kernel keeps for the
pager. `pf` is the page fault handler with `pagefault`, `get_page`, `copy` and
`createmap`; `map_ds`, `unmap`, `clone`, `create_clone` are the other requests;
`Access`, `Fault`, `Resume` and `Store` are what a VPE does.

Checked: `OwnMemory`, `FaultsServed` (under fairness of the pager), and, as part of
`TypeOK`, that the regions of a dataspace are apart.
`heap`: anonymous memory of two regions, touched at both ends, by a VPE and its
clone. `image`: text and data of a program that begin within an extent of the file
and end in the next one. `services_fork`: with two clones the second finds what the
first has written.

Left out: dataspaces of more than two regions of anonymous memory (they can overlap
then), unmapping of a dataspace that a clone shares (`UnmapShared`: the clone's
fault is never served), a clone of a clone, and the order in which sessions end
(`pager.cc:98` has a TODO).

## Proved and only model-checked

| | Proved for all constants | Model-checked only |
|---|---|---|
| `Revocation` | `TypeOK`, `NoEscape` | `RootWaits`, `ReturnMeansGone`, `NoNullPointer`, `OneEntryPerKey`, `RevokeReturns` |
| `MainMemory` | `HandedOutOnce`, `Merged` (with `Platform`) | |
| `PageTables` | `AddressSpaceExact` (with `Machine`) | |
| `SendQueue` | `QueueInv`, refinement of `Fifo` | |
| all others | | their properties |

Liveness under fairness and what recursive definitions compute are out of the
prover's reach and stay with TLC.

## Not modelled

The repository has about 70,000 lines. What the map does not cover is mostly code
in which nothing can be stated that a model would add to:

* recorded traces of system calls (`apps/fstrace`, `apps/srvtrace`: 7,400 lines of
  tables), benchmarks and unit tests, example programs, the shell's parser and the
  core utilities, build and host tools;
* headers with register layouts, ELF structures, instruction sequences, formatting
  of streams, the C library;
* the platforms: exception vectors, start-up assembly; the sources for host, t2 and
  t3, which cannot be built (`include/thread/Thread.h` accepts gem5 only).

Parts with state that are left out:

* the directory of `kernel/ddl/` beyond lookup and membership (`Revocation` and
  `Boot` use it): `put`, `lock`, `unlock` and `migrate` are only called by
  `kernel/tests/DDLTest.h`;
* the DTU, which is hardware on the target. Its message slots and its order of
  messages appear in `KPEChannel`;
* VPE life cycle beyond what `Boot`, `Shutdown` and `Revocation` have of it, and
  migration of VPEs, which is not finished in the code;
* delegation to a VPE of another kernel, which ends in a `PANIC`;
* the block and metadata caches of m3fs, mount points and file tables of the
  library and its dispatcher for services, which are sequential and lose no
  information;
* `FStream`: its buffers for reading and writing share one position of the file, so
  that it works only if the program seeks between reads and writes; a TODO in the
  code asks for one buffer.
