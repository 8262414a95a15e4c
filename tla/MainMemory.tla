----------------------------- MODULE MainMemory -----------------------------
(***************************************************************************)
(* The main memory of a kernel (MainMemory, MemoryModule, MemoryMap): its  *)
(* memory modules, each with a list of free areas, from which memory is    *)
(* requested by VPEs (reqmem), taken for root page tables (AddrSpace) and  *)
(* cut off for a further kernel (detach), and to which it returns when the *)
(* capability is revoked or the address space ends.                        *)
(*                                                                         *)
(* The list of free areas is sorted by address (MemoryMap::free inserts    *)
(* that way), so it is a set here.  All modules from which memory is taken *)
(* begin above address 0, as on every platform.                            *)
(***************************************************************************)
EXTENDS Integers, FiniteSets

CONSTANTS
    Modules,     \* the memory modules, in the order of MainMemory::add
    PAGE_SIZE,
    Sizes,       \* the sizes VPEs ask for
    KernelSize,  \* KRNL_INIT_MEM_SIZE, a multiple of the page size
    MaxUsed,     \* bound: pieces of memory in use
    Exhaust      \* whether VPEs ask for more than there is

VARIABLES
    list,        \* MemoryMap::list of a module
    used         \* the pieces of memory in use

vars == <<list, used>>

Module == DOMAIN Modules
Available == {i \in Module : Modules[i].avail}

Area(addr, size) == [addr |-> addr, size |-> size]
End(a) == a.addr + a.size
Some(a) == IF a.size = 0 THEN {} ELSE {a}

Piece(by, i, addr, size) == [by |-> by, mod |-> i, addr |-> addr, size |-> size]

Init ==
    /\ list = [i \in Module |-> {Area(Modules[i].addr, Modules[i].size)}]
    /\ used = {}

--------------------------------------------------------------------------
(***************************************************************************)
(* MemoryMap.                                                              *)
(***************************************************************************)
\* allocate takes from the front of the first area that is large enough.
Fitting(l, size) == {a \in l : a.size >= size}
FirstFit(l, size) ==
    CHOOSE a \in Fitting(l, size) : \A b \in Fitting(l, size) : a.addr <= b.addr

address(l, size) == IF Fitting(l, size) = {} THEN -1 ELSE FirstFit(l, size).addr
Mut_allocate(l, size) ==
    IF Fitting(l, size) = {} THEN l
    ELSE LET a == FirstFit(l, size) IN
         (l \ {a}) \cup Some(Area(a.addr + size - 1, a.size - size))
allocate(l, size) ==
    IF Fitting(l, size) = {} THEN l
    ELSE LET a == FirstFit(l, size) IN
         (l \ {a}) \cup Some(Area(a.addr + size, a.size - size))

\* free merges the area with the one before and the one behind it, if they touch.
Before(l, addr) ==
    {a \in l : a.addr < addr /\ \A b \in l : b.addr < addr => b.addr <= a.addr}
Behind(l, addr) ==
    {a \in l : a.addr >= addr /\ \A b \in l : b.addr >= addr => b.addr >= a.addr}
free(l, addr, size) ==
    LET p == {a \in Before(l, addr) : End(a) = addr}
        n == {a \in Behind(l, addr) : addr + size = a.addr}
        lo == IF p = {} THEN addr ELSE (CHOOSE a \in p : TRUE).addr
        hi == IF n = {} THEN addr + size ELSE End(CHOOSE a \in n : TRUE) IN
    (l \ (p \cup n)) \cup {Area(lo, hi - lo)}

\* detach takes whole pages from the end of the last area with enough of them;
\* what is behind the last page boundary stays free.
round_up(x) == ((x + PAGE_SIZE - 1) \div PAGE_SIZE) * PAGE_SIZE
round_dn(x) == (x \div PAGE_SIZE) * PAGE_SIZE

Room(a, size) == a.size - (round_up(a.addr) - a.addr) >= size
detached(a, size) == round_dn(End(a)) - size
detach(a, size) ==
    Some(Area(a.addr, detached(a, size) - a.addr))
      \cup Some(Area(round_dn(End(a)), End(a) - round_dn(End(a))))

--------------------------------------------------------------------------
(***************************************************************************)
(* MainMemory.                                                             *)
(***************************************************************************)
\* MainMemory::allocate asks the first module that is available.  Its answer is
\* taken to be an address whatever it is.
First == CHOOSE i \in Available : \A j \in Available : i <= j

Allocate(by, size) ==
    /\ Exhaust \/ Fitting(list[First], size) # {}
    /\ used' = used \cup {Piece(by, First, address(list[First], size), size)}
    /\ list' = [list EXCEPT ![First] = allocate(@, size)]

\* SyscallHandler::reqmem.
reqmem(size) == Cardinality(used) < MaxUsed /\ Allocate("reqmem", size)

\* ... at a given offset (MainMemory::allocate_at): in the module with the image
\* of the file system, from whose list nothing is taken.
reqmem_at(size) ==
    LET i == CHOOSE i \in Module \ Available : \A j \in Module \ Available : i <= j IN
    /\ Available # Module /\ Cardinality(used) < MaxUsed
    /\ used' = used \cup {Piece("reqmem", i, Modules[i].addr, size)}
    /\ UNCHANGED list

\* AddrSpace::AddrSpace takes a page for the root of the page table.
AddrSpace == Cardinality(used) < MaxUsed /\ Allocate("AddrSpace", PAGE_SIZE)

\* MainMemory::free(pe, ...) returns memory to the first module of its PE.
ModuleOf(i) ==
    CHOOSE j \in Module : /\ Modules[j].pe = Modules[i].pe
                          /\ \A k \in Module : Modules[k].pe = Modules[i].pe => j <= k

Release(u, i) ==
    /\ used' = used \ {u}
    /\ list' = [list EXCEPT ![i] = free(@, u.addr, u.size)]

\* MemObject::revokeAction.
revokeAction(u) == u.by = "reqmem" /\ Release(u, ModuleOf(u.mod))

\* AddrSpace::~AddrSpace.
EndAddrSpace(u) == u.by = "AddrSpace" /\ Release(u, u.mod)

\* KPE::start cuts the memory of a further kernel off the last module with
\* enough of it.  Kernels are started while no memory has come back yet, so a
\* module has a single area then (SingleArea).
SingleArea ==
    \A i \in Available : \A a \in list[i] : list[i] = {a} /\ a.size >= PAGE_SIZE
StartKernel ==
    \E i \in Available : \E a \in list[i] :
        /\ SingleArea
        /\ Room(a, KernelSize)
        /\ \A j \in Available : j > i => \A b \in list[j] : ~Room(b, KernelSize)
        /\ Cardinality(used) < MaxUsed
        /\ list' = [list EXCEPT ![i] = detach(a, KernelSize)]
        /\ used' = used \cup {Piece("kernel", i, detached(a, KernelSize), KernelSize)}

Next ==
    \/ \E size \in Sizes : reqmem(size) \/ reqmem_at(size)
    \/ AddrSpace
    \/ \E u \in used : revokeAction(u) \/ EndAddrSpace(u)
    \/ StartKernel

Spec == Init /\ [][Next]_vars

--------------------------------------------------------------------------
(***************************************************************************)
(* Properties.                                                             *)
(***************************************************************************)
AreaType == [addr : Nat, size : Nat \ {0}]

TypeOK ==
    /\ list \in [Module -> SUBSET AreaType]
    /\ used \subseteq [by : {"reqmem", "AddrSpace", "kernel"}, mod : Module,
                       addr : Nat, size : Nat \ {0}]

Holds(a, x) == a.addr <= x /\ x < a.addr + a.size
Held(i) == {u \in used : u.mod = i}
InModule(i, x) == Holds(Modules[i], x)

\* No byte of a module from which memory is taken is free and in use, or in use
\* twice, and no free area or piece in use lies outside: MainMemory hands out
\* nothing twice.  If the module is the one that MainMemory::free(pe, ...) finds
\* for its PE, every byte is free or in use: what revokeAction and ~AddrSpace
\* return can be handed out again.  What revokeAction returns of the second
\* module of a PE goes to the list of the first one, from which nothing is
\* taken, and is lost.
HandedOutOnce ==
    \A i \in Available :
        /\ \A x \in Modules[i].addr .. (End(Modules[i]) - 1) :
             LET unused == \E a \in list[i] : Holds(a, x)
                 inUse == \E u \in Held(i) : Holds(u, x) IN
             /\ ~(unused /\ inUse)
             /\ ModuleOf(i) = i => unused \/ inUse
        /\ \A u, v \in Held(i) : u = v \/ End(u) <= v.addr \/ End(v) <= u.addr
        /\ \A u \in Held(i) : Modules[i].addr <= u.addr /\ End(u) <= End(Modules[i])
        /\ \A a \in list[i] : Modules[i].addr <= a.addr /\ End(a) <= End(Modules[i])

\* Free areas never overlap nor touch: MemoryMap::free joins an area with both
\* neighbours, so a request fails only if no stretch of free memory is large
\* enough.
Merged ==
    \A i \in Available : \A a, b \in list[i] : a = b \/ End(a) < b.addr \/ End(b) < a.addr
=============================================================================
