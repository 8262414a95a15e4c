------------------------------ MODULE MCServices ------------------------------
(***************************************************************************)
(* Instances of the modules about services for TLC.  A behaviour belongs to*)
(* the one that "case" names: a pipe between two VPEs, the pipe service    *)
(* with writes that fill its ring to the end and with writes that do not,  *)
(* the queue of messages to a service, the creation of sessions, the file  *)
(* system with one client, with two clients, and with directories, and the *)
(* pager with a heap and with the parts of a program.  What does not belong*)
(* to the case is 0 and stays so.                                          *)
(***************************************************************************)
EXTENDS Integers, Sequences, TLC

CONSTANTS
    Cases,    \* the instances that are checked
    Variant   \* "usual", or the instance with another set of constants

VARIABLES case,
          mem, sent, got, rpc, wpc,                         \* both kinds of pipes
          msgs, replies, wr, rd,                            \* DirectPipe
          rbuf, eof, rh, wh, rcl, wcl, left, program,       \* PipeServ
          sq,                                               \* SendQueue, Session
          srv, child, remote, slot, pc, todo, asked,        \* Session
          awaiting, result, inflight, waiting, net, ready, stopped,
          want,                                             \* M3FS, Pager
          disk, file, bytes, changed, spoilt, requests,     \* M3FS
          state, regs, att, phys, ram, pte, wrote           \* Pager

pipeVars == <<mem, sent, got, rpc, wpc>>
directVars == <<msgs, replies, wr, rd>>
servVars == <<rbuf, eof, rh, wh, rcl, wcl, left, program>>
sessVars == <<srv, child, remote, slot, pc, todo, asked, awaiting, result, inflight,
              waiting, net, ready, stopped>>
fsVars == <<disk, file, bytes, changed, spoilt, requests>>
pagerVars == <<state, regs, att, phys, ram, pte, wrote>>
vars == <<case, pipeVars, directVars, servVars, sq, sessVars, want, fsVars, pagerVars>>

\* A ring of three packages for a pipe with two messages.
Direct == INSTANCE DirectPipe WITH
    Size <- 6, DTU_PKG_SIZE <- 2, Cap <- 2, Writes <- {1, 4, 5}, Reads <- {2, 4}, MaxBytes <- 9

\* A ring of four packages; the second program ends with half a package.
Serv == INSTANCE PipeServ WITH
    Size <- 8, DTU_PKG_SIZE <- 2, Reads <- {2, 4, 6},
    Programs <- {<<4, 4, 4, 3>>, <<2, 2, 2, 2, 1>>}

\* A ring of six packages: the third write does not fit behind the second one and
\* leaves the last package unused.  In the variant, there are reads of more than
\* one package.
WrapReads == IF Variant = "ring" THEN {2, 6} ELSE {2}
Wrap == INSTANCE PipeServ WITH
    Size <- 12, DTU_PKG_SIZE <- 2, Reads <- WrapReads, Programs <- {<<6, 4, 4, 3>>, <<4, 6, 2, 4>>}

Queue == INSTANCE SendQueue WITH Msg <- {1, 2}, Capacity <- 2
MaxPending == 5     \* bound: messages that are with the service or wait

ServiceNames == ("fs" :> "fs") @@ ("fs2" :> "fs") @@ ("pipe" :> "pipe")
Hidden == {"pipe"}

\* Two kernels with all services on kernel 2; client c is on the kernel of the
\* services, two of which register the same name.
NearHost == [s \in {"fs", "fs2"} |-> 2]
NearKernelOf == ("b" :> 1) @@ ("c" :> 2)
NearWants == ("b" :> "fs") @@ ("c" :> "fs")
NearSlotOf == ("b" :> "x") @@ ("c" :> "z")

Near == INSTANCE Session WITH
    Kernel <- {1, 2}, Service <- {"fs", "fs2"}, Host <- NearHost, Name <- ServiceNames,
    Vpe <- {"b", "c"}, KernelOf <- NearKernelOf, Wants <- NearWants, SlotOf <- NearSlotOf,
    Capacity <- 1, MAX_MSG_INFLIGHT <- 4

\* Three kernels: to find the pipe, two kernels have to be asked.  In the variant,
\* three clients of one kernel ask for the pipe: more than there are slots.
Crowd == Variant = "crowd"
FarHost == IF Crowd THEN "pipe" :> 3 ELSE ("fs" :> 2) @@ ("pipe" :> 3)
FarServices == DOMAIN FarHost
FarVpes == IF Crowd THEN {"a", "b", "c"} ELSE {"a", "b"}
FarKernelOf == [v \in FarVpes |-> 1]
FarWants == [v \in FarVpes |-> IF v = "a" \/ Crowd THEN "pipe" ELSE "fs"]
FarSlotOf == IF Crowd THEN ("a" :> "x") @@ ("b" :> "y") @@ ("c" :> "z") ELSE [v \in FarVpes |-> "x"]

Far == INSTANCE Session WITH
    Kernel <- {1, 2, 3}, Service <- FarServices, Host <- FarHost, Name <- ServiceNames,
    Vpe <- FarVpes, KernelOf <- FarKernelOf, Wants <- FarWants, SlotOf <- FarSlotOf,
    Capacity <- 1, MAX_MSG_INFLIGHT <- 4

\* A block has room for two directory entries; an inode has two direct extents and
\* clients ask for three; they extend files by two blocks, which are a word of
\* the bitmap.
WORD_BITS == 2
perblock == 8
blocksize == 8
total_blocks == 16
total_inodes == 4
first_data_block == 4
INODE_DIR_COUNT == 2
MAX_LOCS == 3
WRITE_INC_BLOCKS == 2
NO_SPACE == 3
HeaderSize == 2
NameLen == [n \in {"", ".", "..", "a", "b", "d"} |->
               CASE n = "" -> 0 [] n = "." -> 1 [] OTHER -> 2]
Overwrite == {"w", "trunc", "create"}

\* One client that reads, rewrites and overwrites two files; in the variant, it
\* appends to a file.
Appends == Variant = "append"
FilesPaths == IF Appends THEN {<<"a">>} ELSE {<<"a">>, <<"b">>}
FilesFlags == IF Appends THEN {{"w", "append"}, Overwrite} ELSE {{"r"}, {"w", "create"}, Overwrite}
FilesAmounts == IF Appends THEN {4, 12} ELSE {20}
FilesOffsets == IF Appends THEN {} ELSE {8}
FilesSize == IF Appends THEN 24 ELSE 40
FilesRequests == IF Appends THEN 2 ELSE 4

Files == INSTANCE M3FS WITH
    Client <- {"c1"}, FilePaths <- FilesPaths, DirPaths <- {}, Flags <- FilesFlags,
    Amounts <- FilesAmounts, Offsets <- FilesOffsets, MaxSize <- FilesSize,
    MaxRequests <- FilesRequests

\* Two clients that work on two files at a time.
Shared == INSTANCE M3FS WITH
    Client <- {"c1", "c2"}, FilePaths <- {<<"a">>, <<"b">>}, DirPaths <- {},
    Flags <- {{"r"}, Overwrite},
    Amounts <- {20}, Offsets <- {}, MaxSize <- 40, MaxRequests <- 3

\* One client, with a directory.
Paths == INSTANCE M3FS WITH
    Client <- {"c1"}, FilePaths <- {<<"a">>, <<"d", "a">>}, DirPaths <- {<<"d">>},
    Flags <- {{"r"}, {"w", "create"}, Overwrite},
    Amounts <- {4, 12}, Offsets <- {}, MaxSize <- 12, MaxRequests <- 5

\* A VPE and its clone.  The heap takes two regions, and an access of its end
\* begins in the middle; the text and the data of a program begin within an
\* extent of the file and go on in the next one.  In the variant, a VPE with a
\* heap of one page has two clones.
Part(a, n, w, f) == [anon |-> a, size |-> n, write |-> w, foff |-> f]
Fork == Variant = "fork"
HeapDS == "heap" :> Part(TRUE, IF Fork THEN 1 ELSE 4, TRUE, 0)
HeapTouched == "heap" :> IF Fork THEN {0} ELSE {0, 3}
HeapParent == IF Fork THEN <<0, 1, 1>> ELSE <<0, 1>>
HeapPhys == IF Fork THEN 2 ELSE 1
ImageDS == ("text" :> Part(FALSE, 3, FALSE, 1)) @@ ("data" :> Part(FALSE, 3, TRUE, 1))
ImageTouched == [d \in {"text", "data"} |-> {2}]

Heap == INSTANCE Pager WITH
    DS <- HeapDS, Touched <- HeapTouched, Parent <- HeapParent,
    MAX_PAGES <- 2, Extent <- 2, MaxStores <- 1, MaxPhys <- HeapPhys, UnmapShared <- FALSE
Image == INSTANCE Pager WITH
    DS <- ImageDS, Touched <- ImageTouched, Parent <- <<0, 1>>,
    MAX_PAGES <- 2, Extent <- 2, MaxStores <- 1, MaxPhys <- 2, UnmapShared <- FALSE

--------------------------------------------------------------------------
NoDirect == msgs = 0 /\ replies = 0 /\ wr = 0 /\ rd = 0
NoServ == rbuf = 0 /\ eof = 0 /\ rh = 0 /\ wh = 0 /\ rcl = 0 /\ wcl = 0 /\ left = 0 /\ program = 0
NoPipe == mem = 0 /\ sent = 0 /\ got = 0 /\ rpc = 0 /\ wpc = 0 /\ NoDirect /\ NoServ
NoSess ==
    /\ srv = 0 /\ child = 0 /\ remote = 0 /\ slot = 0 /\ pc = 0 /\ todo = 0 /\ asked = 0
    /\ awaiting = 0 /\ result = 0 /\ inflight = 0 /\ waiting = 0 /\ net = 0 /\ ready = 0
    /\ stopped = 0
NoFS == disk = 0 /\ file = 0 /\ bytes = 0 /\ changed = 0 /\ spoilt = 0 /\ requests = 0
NoPager ==
    state = 0 /\ regs = 0 /\ att = 0 /\ phys = 0 /\ ram = 0 /\ pte = 0 /\ wrote = 0
NoWant == want = 0 /\ NoFS /\ NoPager

InitFS ==
    CASE case = "files" -> Files!Init [] case = "shared" -> Shared!Init [] case = "paths" -> Paths!Init

InitPager ==
    CASE case = "heap" -> Heap!Init [] case = "image" -> Image!Init

Init ==
    /\ case \in Cases
    /\ CASE case = "direct" -> Direct!Init /\ NoServ /\ sq = 0 /\ NoSess /\ NoWant
         [] case = "serv" -> Serv!Init /\ NoDirect /\ sq = 0 /\ NoSess /\ NoWant
         [] case = "wrap" -> Wrap!Init /\ NoDirect /\ sq = 0 /\ NoSess /\ NoWant
         [] case = "queue" -> Queue!Init /\ NoPipe /\ NoSess /\ NoWant
         [] case = "near" -> Near!Init /\ NoPipe /\ NoWant
         [] case = "far" -> Far!Init /\ NoPipe /\ NoWant
         [] case \in {"files", "shared", "paths"} ->
              InitFS /\ NoPipe /\ sq = 0 /\ NoSess /\ NoPager
         [] OTHER -> InitPager /\ NoPipe /\ sq = 0 /\ NoSess /\ NoFS

\* A step of one of the modules in its case.
wantVars == <<want, fsVars, pagerVars>>
InDirect(A) == case = "direct" /\ A /\ UNCHANGED <<case, servVars, sq, sessVars, wantVars>>
InServ(c, A) == case = c /\ A /\ UNCHANGED <<case, directVars, sq, sessVars, wantVars>>
InQueue(A) ==
    case = "queue" /\ A /\ UNCHANGED <<case, pipeVars, directVars, servVars, sessVars, wantVars>>
InSess(c, A) == case = c /\ A /\ UNCHANGED <<case, pipeVars, directVars, servVars, wantVars>>
InFS(c, A) ==
    case = c /\ A /\ UNCHANGED <<case, pipeVars, directVars, servVars, sq, sessVars, pagerVars>>
InPager(c, A) ==
    case = c /\ A /\ UNCHANGED <<case, pipeVars, directVars, servVars, sq, sessVars, fsVars>>

Next ==
    \/ InDirect(Direct!Next)
    \/ InServ("serv", Serv!Next) \/ InServ("wrap", Wrap!Next)
    \/ InQueue(Queue!Next /\ Queue!pending(sq') <= MaxPending)
    \/ InSess("near", Near!Next) \/ InSess("far", Far!Next)
    \/ InFS("files", Files!Next) \/ InFS("shared", Shared!Next)
    \/ InFS("paths", Paths!Next)
    \/ InPager("heap", Heap!Next) \/ InPager("image", Image!Next)

\* The fairness of DirectPipe, PipeServ, Session and Pager.
Progress ==
    \/ InDirect(Direct!Next) \/ InServ("serv", Serv!Next) \/ InServ("wrap", Wrap!Next)
    \/ InSess("near", Near!Progress) \/ InSess("far", Far!Progress)
    \/ InPager("heap", Heap!Progress) \/ InPager("image", Image!Progress)
Fairness == WF_vars(Progress)

Spec == Init /\ [][Next]_vars /\ Fairness

--------------------------------------------------------------------------
Pipes(direct, serv, wrap) ==
    (case = "direct" => direct) /\ (case = "serv" => serv) /\ (case = "wrap" => wrap)
Sess(near, far) == (case = "near" => near) /\ (case = "far" => far)
FS(files, shared, paths) ==
    (case = "files" => files) /\ (case = "shared" => shared) /\ (case = "paths" => paths)

\* The state is of its type, and what is counted is counted right: the free
\* part of a ring, the messages a service has, the free blocks and inodes of the
\* superblock.  The regions of a dataspace are apart.
TypeOK ==
    /\ Pipes(Direct!TypeOK, Serv!TypeOK, Wrap!TypeOK) /\ Sess(Near!TypeOK, Far!TypeOK)
    /\ FS(Files!TypeOK, Shared!TypeOK, Paths!TypeOK)
    /\ case = "queue" => Queue!QueueInv
    /\ case = "heap" => Heap!RegionsApart
    /\ case = "image" => Image!RegionsApart

\* Both kinds of pipes implement BytePipe.
IsPipe == [][Pipes(Direct!PipeStep, Serv!PipeStep, Wrap!PipeStep)]_vars

\* A read from a pipe returns 0 only at the end.
EofIsEnd == Pipes(Direct!EofIsEnd, Serv!EofIsEnd, Wrap!EofIsEnd)

\* Both ends of a pipe are closed in the end.
Piping == case \in {"direct", "serv", "wrap"}
BothClose == Piping ~> (Piping /\ wpc = "closed" /\ rpc = "closed")

\* A client that waits in createsess counts the answers still to come, and is
\* woken up when there is none.
AnswersCounted == Sess(Near!AnswersCounted, Far!AnswersCounted)

\* Every session capability is a child of a living service capability.
SessionsInherit == Sess(Near!SessionsInherit, Far!SessionsInherit)

\* A session is never put into a slot that is taken.
SlotsKept == [][Sess(Near!SlotsKeptStep, Far!SlotsKeptStep)]_vars

\* The queues of the services implement Fifo.
QueuesAreFifo ==
    [][/\ Sess(Near!FifoStep, Far!FifoStep)
       /\ case = "queue" => Queue!Abstract!Next \/ UNCHANGED sq]_vars

\* Every createsess returns, unless the machine is shut down.
Calling == Sess(Near!Calling, Far!Calling)
Creating == case \in {"near", "far"}
CreateSessReturns == (Creating /\ Calling) ~> (Creating /\ ~Calling)

\* No block is used twice, the bitmaps mark what has a name and nothing else, and
\* the links of a file are its names.
DiskExact == FS(Files!DiskExact, Shared!DiskExact, Paths!DiskExact)

\* What is written lands where the position of the file says.
WriteLands == FS(Files!WriteLands, Shared!WriteLands, Paths!WriteLands)

\* A closed file is as large as what was written.
SizeIsWritten ==
    FS(Files!SizeIsWritten, Shared!SizeIsWritten, Paths!SizeIsWritten)

\* A read from a file returns 0 only at its end.
ReadsToEnd == [][FS(Files!ReadsStep, Shared!ReadsStep, Paths!ReadsStep)]_vars

\* A VPE finds in its memory what it wrote there, cloned or not.
OwnMemory ==
    /\ case = "heap" => Heap!OwnMemory
    /\ case = "image" => Image!OwnMemory

\* Every page fault is served.
Faulting == (case = "heap" /\ Heap!Faulting) \/ (case = "image" /\ Image!Faulting)
FaultsServed == Faulting ~> ~Faulting
=============================================================================
