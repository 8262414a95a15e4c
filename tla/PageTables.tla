----------------------------- MODULE PageTables -----------------------------
(***************************************************************************)
(* The address space of a VPE on a PE with virtual memory: the mapping     *)
(* capabilities (MapCapability) that the kernel keeps for it, the two      *)
(* levels of its page table in main memory, and the TLB of the DTU of its  *)
(* PE, which the VPE fills with its accesses while the kernel works.       *)
(*                                                                         *)
(* A memory capability stands for a range of physical pages.  A page table *)
(* is taken from memory that was never in use and is zero.                 *)
(***************************************************************************)
EXTENDS Integers, Sequences, FiniteSets

CONSTANTS
    MemCaps,  \* memory capabilities: [base, pages, perms]
    Pages,    \* bound: the virtual pages are 0 .. Pages - 1
    Entries,  \* the entries of a page table
    Perms     \* the sets of permissions that are asked for

VARIABLES
    live,     \* the memory capabilities that exist
    caps,     \* VPE::mapcaps: the mapping capability of a page
    children, \* the mapping capabilities inherited from a memory capability
    root,     \* the root page table: whether an entry points to a page table
    pte,      \* the entries of the page tables below
    tlb,      \* the TLB of the DTU
    todo,     \* the calls of map_page that the kernel is about to make
    runs,     \* whether there is a VPE on the PE
    halted    \* the kernel follows a null pointer once todo is done

vars == <<live, caps, children, root, pte, tlb, todo, runs, halted>>

Page == 0 .. (Pages - 1)
Right == UNION Perms
Table(p) == p \div Entries

NoCap == [mem |-> "none", phys |-> 0, attr |-> {}]
Zero == [phys |-> 0, perm |-> {}, i |-> FALSE]
NoEntry == [phys |-> 0, perm |-> {}]
Call(p, phys, perm) == [page |-> p, phys |-> phys, perm |-> perm, inv |-> FALSE]

Init ==
    /\ live = DOMAIN MemCaps
    /\ caps = [p \in Page |-> NoCap]
    /\ children = [m \in DOMAIN MemCaps |-> {}]
    /\ root = [t \in {Table(p) : p \in Page} |-> FALSE]
    /\ pte = [p \in Page |-> Zero]
    /\ tlb = [p \in Page |-> NoEntry]
    /\ todo = << >>
    /\ runs = FALSE
    /\ halted = FALSE

Ready == todo = << >> /\ ~halted

--------------------------------------------------------------------------
(***************************************************************************)
(* System calls.  The kernel works on one at a time.                       *)
(***************************************************************************)
\* SyscallHandler::createmap maps the n pages of a memory capability from
\* "first" on to the pages from dst on.  A page that is mapped already keeps its
\* memory and its parent, and gets the permissions (MapCapability::remap).
NewCap(m, first, i, perms) ==
    [mem |-> m, phys |-> MemCaps[m].base + first + i, attr |-> perms]

createmap(m, first, n, dst, perms) ==
    LET new == [i \in 0 .. (n - 1) |->
                  IF caps[dst + i] = NoCap THEN NewCap(m, first, i, perms)
                  ELSE [caps[dst + i] EXCEPT !.attr = perms]]
        range == dst .. (dst + n - 1) IN
    /\ Ready /\ runs
    /\ m \in live
    /\ perms \subseteq MemCaps[m].perms
    /\ first + n <= MemCaps[m].pages
    /\ caps' = [p \in Page |-> IF p \in range THEN new[p - dst] ELSE caps[p]]
    /\ children' = [children EXCEPT ![m] = @ \cup {p \in range : caps[p] = NoCap}]
    /\ todo' = [k \in 1 .. n |-> Call(dst + k - 1, new[k - 1].phys, perms)]
    /\ UNCHANGED <<live, root, pte, tlb, runs, halted>>

\* The item of a capability for the type that revoke_rec asks for:
\* MHTItem::checkType<Capability> knows the types of object capabilities only,
\* not that of a mapping, nor that of a memory capability with the bit of a
\* mapping in it, which is what the parent of a mapping is looked up with.
MAPCAP == 1
MEMCAP == 10
checkType(type) == type \in {2, 4, 6, 8, 10, 14}
ParentType == MEMCAP + MAPCAP

\* CapTable::revoke_rec for the mapping of page p, the root of the revocation:
\* the page is unmapped, the capability removed; then the parent is told.
RevokeMapping(p) ==
    /\ caps' = [caps EXCEPT ![p] = NoCap]
    /\ todo' = <<Call(p, 0, {})>>
    /\ halted' = ~checkType(ParentType)

RevokeMap(p) ==
    /\ Ready
    /\ caps[p] # NoCap
    /\ RevokeMapping(p)
    /\ UNCHANGED <<live, children, root, pte, tlb, runs>>

\* Revocation of a memory capability: it is removed before its children are
\* looked up, and the first mapping among them is a null pointer.
RevokeMem(m) ==
    /\ Ready
    /\ m \in live
    /\ live' = live \ {m}
    /\ children' = [children EXCEPT ![m] = {}]
    /\ halted' = (children[m] # {} /\ ~checkType(MAPCAP))
    /\ UNCHANGED <<caps, root, pte, tlb, todo, runs>>

\* The memory is requested again (SyscallHandler::reqmem).
reqmem(m) ==
    /\ Ready /\ m \notin live
    /\ live' = live \cup {m}
    /\ UNCHANGED <<caps, children, root, pte, tlb, todo, runs, halted>>

\* DTU::config_pf_remote, for a new VPE: the root page table is cleared, and so is
\* the TLB.
config_pf_remote ==
    /\ Ready /\ ~runs
    /\ runs' = TRUE
    /\ root' = [t \in DOMAIN root |-> FALSE]
    /\ tlb' = [p \in Page |-> NoEntry]
    /\ UNCHANGED <<live, caps, children, pte, todo, halted>>

\* The VPE ends and its mapping capabilities are revoked (CapTable::revoke_all),
\* any of them first.
Exit ==
    LET mapped == {p \in Page : caps[p] # NoCap} IN
    /\ Ready /\ runs
    /\ runs' = FALSE
    /\ \/ mapped = {} /\ UNCHANGED <<caps, todo, halted>>
       \/ \E p \in mapped : RevokeMapping(p)
    /\ UNCHANGED <<live, children, root, pte, tlb>>

--------------------------------------------------------------------------
(***************************************************************************)
(* DTU::map_page.  The VPE runs on between the write of the entry and the  *)
(* invalidation of the page.                                               *)
(***************************************************************************)
\* Level 1: a page table is created on demand, unless the page is unmapped.
Absent(c) == ~root[Table(c.page)]
Below(c) == {p \in Page : Table(p) = Table(c.page)}

\* Level 0: the entry is written if it changes.
NewPte(c) == [phys |-> c.phys, perm |-> c.perm, i |-> TRUE]
Mut_Downgraded(old, c) == old.perm # {} /\ c.perm = {}
Downgraded(old, c) == old.perm \ c.perm # {}

map_page ==
    /\ todo # << >> /\ ~Head(todo).inv
    /\ LET c == Head(todo)
           old == IF Absent(c) THEN Zero ELSE pte[c.page] IN
       IF Absent(c) /\ c.perm = {}
         THEN /\ todo' = Tail(todo)
              /\ UNCHANGED <<root, pte>>
         ELSE /\ root' = [root EXCEPT ![Table(c.page)] = TRUE]
              /\ pte' = [p \in Page |->
                           IF p = c.page THEN NewPte(c)
                           ELSE IF Absent(c) /\ p \in Below(c) THEN Zero ELSE pte[p]]
              /\ todo' = IF NewPte(c) # old /\ Downgraded(old, c)
                           THEN [todo EXCEPT ![1].inv = TRUE] ELSE Tail(todo)
    /\ UNCHANGED <<live, caps, children, tlb, runs, halted>>

\* INV_PAGE.
InvPage ==
    /\ todo # << >> /\ Head(todo).inv
    /\ tlb' = [tlb EXCEPT ![Head(todo).page] = NoEntry]
    /\ todo' = Tail(todo)
    /\ UNCHANGED <<live, caps, children, root, pte, runs, halted>>

--------------------------------------------------------------------------
(***************************************************************************)
(* The DTU of the PE walks the page table for an access that the TLB does  *)
(* not allow, and keeps the entry as long as it likes.                     *)
(***************************************************************************)
Allowed(p) == IF root[Table(p)] THEN pte[p].perm ELSE {}

Access(p, perm) ==
    /\ runs
    /\ perm \notin tlb[p].perm
    /\ perm \in Allowed(p)
    /\ tlb' = [tlb EXCEPT ![p] = [phys |-> pte[p].phys, perm |-> pte[p].perm]]
    /\ UNCHANGED <<live, caps, children, root, pte, todo, runs, halted>>

Evict(p) ==
    /\ tlb[p] # NoEntry
    /\ tlb' = [tlb EXCEPT ![p] = NoEntry]
    /\ UNCHANGED <<live, caps, children, root, pte, todo, runs, halted>>

Next ==
    \/ \E m \in DOMAIN MemCaps :
         \/ \E first \in 0 .. (MemCaps[m].pages - 1), n \in 1 .. MemCaps[m].pages, dst \in Page,
               perms \in Perms :
              dst + n <= Pages /\ createmap(m, first, n, dst, perms)
         \/ RevokeMem(m) \/ reqmem(m)
    \/ \E p \in Page : RevokeMap(p) \/ Evict(p) \/ \E perm \in Right : Access(p, perm)
    \/ config_pf_remote \/ Exit
    \/ map_page \/ InvPage

Spec == Init /\ [][Next]_vars

--------------------------------------------------------------------------
(***************************************************************************)
(* Properties.                                                             *)
(***************************************************************************)
TypeOK ==
    /\ live \subseteq DOMAIN MemCaps
    /\ caps \in [Page -> [mem : DOMAIN MemCaps \cup {"none"}, phys : Nat, attr : SUBSET Right]]
    /\ children \in [DOMAIN MemCaps -> SUBSET Page]
    /\ root \in [{Table(p) : p \in Page} -> BOOLEAN]
    /\ pte \in [Page -> [phys : Nat, perm : SUBSET Right, i : BOOLEAN]]
    /\ tlb \in [Page -> [phys : Nat, perm : SUBSET Right]]
    /\ todo \in Seq([page : Page, phys : Nat, perm : SUBSET Right, inv : BOOLEAN])
    /\ runs \in BOOLEAN
    /\ halted \in BOOLEAN

\* Whenever the kernel has no call of map_page left, the page table allows exactly
\* what the mapping capabilities say, and the TLB of the running VPE no more than
\* that, at the same physical page; and as long as the kernel runs, the memory
\* behind a mapping is that of a memory capability that exists and lists it.  So
\* the order of map_page is right, which writes an entry before it invalidates
\* the page, and it invalidates whenever a VPE could go on with what it had; and
\* a kernel that revoked memory which is still mapped does not get on to hand
\* out that memory again.
AddressSpaceExact ==
    \A p \in Page :
      /\ todo = << >> =>
           /\ Allowed(p) = caps[p].attr
           /\ caps[p] # NoCap /\ Allowed(p) # {} => pte[p].phys = caps[p].phys
           /\ tlb[p].perm \subseteq Allowed(p)
           /\ tlb[p].perm # {} => tlb[p].phys = pte[p].phys
      /\ Ready /\ caps[p] # NoCap => caps[p].mem \in live /\ p \in children[caps[p].mem]
=============================================================================
