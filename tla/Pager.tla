------------------------------- MODULE Pager -------------------------------
(***************************************************************************)
(* The pager: sessions, each with the address space of a VPE as a set of   *)
(* dataspaces, which are split into regions backed with physical memory on *)
(* demand.  A session may be a clone of another one; both then share the   *)
(* physical memory until one of them touches a region (copy on write).     *)
(* The page table entries are those the kernel keeps (createmap).          *)
(*                                                                         *)
(* All units are pages.  The pager has a single thread, so that each of    *)
(* its handlers is one step; the accesses of the VPEs come in between.  A  *)
(* VPE repeats an access until its page table entry allows it.             *)
(***************************************************************************)
EXTENDS Integers, Sequences, SequencesExt, FiniteSets

CONSTANTS
    DS,         \* dataspaces: [anon, size, write, foff], foff the offset in the file
    Touched,    \* the pages of a dataspace that are accessed
    Parent,     \* the session another one is created from; sessions are 1..n
    MAX_PAGES,  \* AnonDataSpace::MAX_PAGES
    Extent,     \* the pages of an extent of a file
    MaxStores,  \* bound: stores to one page by one VPE
    MaxPhys,    \* bound: nothing is mapped when there are that many PhysMem objects
    UnmapShared \* whether dataspaces are unmapped that a clone has, too

VARIABLES
    state,      \* "new", "clonable" or "runs"
    regs,       \* DataSpace::_regs of an attached dataspace; << >> else
    att,        \* the attached dataspaces of a session
    phys,       \* the PhysMem objects: memory gate and owner (0: none)
    ram,        \* the contents of the memory behind a memory gate
    pte,        \* page table: memory gate, page in it and write permission
    want,       \* the access a VPE waits for
    wrote       \* what a VPE expects to find in its pages

vars == <<state, regs, att, phys, ram, pte, want, wrote>>

Session == DOMAIN Parent
Name == DOMAIN DS
Page(d) == 0 .. (DS[d].size - 1)

NoPte == [g |-> 0, i |-> 0, w |-> FALSE]
NoWant == [d |-> "none", page |-> 0]
FileData == -1  \* what the file contains
Junk == -2      \* what a read outside of the memory returns

Region(off, size) == [mem |-> 0, off |-> off, memoff |-> 0, size |-> size, cow |-> FALSE]
End(r) == r.off + r.size

Init ==
    /\ state = [s \in Session |-> IF Parent[s] = 0 THEN "runs" ELSE "new"]
    /\ regs = [s \in Session |-> [d \in Name |-> << >>]]
    /\ att = [s \in Session |-> {}]
    /\ phys = << >>
    /\ ram = << >>
    /\ pte = [s \in Session |-> [d \in Name |-> [p \in Page(d) |-> NoPte]]]
    /\ want = [s \in Session |-> NoWant]
    /\ wrote = [s \in Session |-> [d \in Name |-> [p \in Page(d) |-> 0]]]

--------------------------------------------------------------------------
(***************************************************************************)
(* RegionList and Region.                                                  *)
(***************************************************************************)
\* pagefault: the regions that end at or before the page, and the list with a
\* new region behind them, unless the next one contains the page.
Passed(rs, page) ==
    CHOOSE n \in 0 .. Len(rs) : /\ \A k \in 1 .. n : End(rs[k]) <= page
                                /\ n < Len(rs) => End(rs[n + 1]) > page
Found(rs, page) == Passed(rs, page) < Len(rs) /\ rs[Passed(rs, page) + 1].off <= page
pagefault(rs, page, total) ==
    LET n == Passed(rs, page)
        start == IF n = 0 THEN 0 ELSE End(rs[n])
        end == IF n = Len(rs) THEN total ELSE rs[n + 1].off IN
    IF Found(rs, page) THEN rs ELSE InsertAt(rs, n + 1, Region(start, end - start))

\* The part of a new anonymous region that is backed with memory.
AnonPart(r, page) ==
    IF r.size <= MAX_PAGES THEN r
    ELSE LET off == IF page > MAX_PAGES \div 2 THEN page - MAX_PAGES \div 2 ELSE 0
             rest == End(r) - off IN
         [r EXCEPT !.off = off,
                   !.size = IF off + MAX_PAGES < rest THEN off + MAX_PAGES ELSE rest]

\* The extent of the file at the begin of a region: its end is that of the region.
FileOffset(d, r) == (DS[d].foff + r.off) % Extent
FilePart(d, r) ==
    LET sz == Extent - FileOffset(d, r) IN
    [r EXCEPT !.size = IF sz < @ THEN sz ELSE @,
              !.memoff = IF DS[d].write THEN 0 ELSE FileOffset(d, r)]

\* The references to physical memory m.
Refs(m) ==
    Cardinality({<<s, d, k>> \in Session \X Name \X (1 .. 10) :
                   k <= Len(regs[s][d]) /\ regs[s][d][k].mem = m})

\* Region::copy reads from the owner's address space, or else from the memory.
Contents(d, r) ==
    LET m == phys[r.mem] IN
    [k \in 1 .. r.size |->
        IF m.owner # 0
          THEN LET e == pte[m.owner][d][r.off + k - 1] IN IF e.g = 0 THEN Junk ELSE ram[e.g][e.i]
          ELSE LET i == r.memoff + r.off + k IN
               IF i \in DOMAIN ram[m.gate] THEN ram[m.gate][i] ELSE Junk]

--------------------------------------------------------------------------
(***************************************************************************)
(* DataSpace::get_page, for region k of dataspace d of session s, with the *)
(* list of regions rs.  The result are the new regions, physical memories  *)
(* and memory contents; "todo" tells whether there is something to map.    *)
(***************************************************************************)
Result(rs, ph, rm, todo) == [regs |-> rs, phys |-> ph, ram |-> rm, todo |-> todo]
Zeros(n) == [k \in 1 .. n |-> 0]
File(n) == [k \in 1 .. n |-> FileData]

\* No memory yet: allocate and clear it, or get (a copy of) the file's.
Back(s, d, rs, k, page) ==
    LET r == IF DS[d].anon THEN AnonPart(rs[k], page) ELSE FilePart(d, rs[k])
        data == IF DS[d].anon THEN Zeros(r.size)
                ELSE IF DS[d].write THEN File(Extent - FileOffset(d, rs[k])) ELSE File(Extent) IN
    Result([rs EXCEPT ![k] = [r EXCEPT !.mem = Len(phys) + 1]],
           Append(phys, [gate |-> Len(ram) + 1, owner |-> s]), Append(ram, data), TRUE)

\* Region::copy: the last user keeps the memory; the owner keeps it, too, and
\* leaves the copy to the others; else the copy replaces it.
copy(s, d, rs, k) ==
    LET r == rs[k]
        m == phys[r.mem]
        new == Len(ram) + 1
        rs1 == [rs EXCEPT ![k].cow = FALSE] IN
    IF Refs(r.mem) = 1
      THEN Result(rs1, [phys EXCEPT ![r.mem].owner = s], ram, TRUE)
    ELSE IF m.owner = s
      THEN Result([rs1 EXCEPT ![k].mem = Len(phys) + 1],
                  Append([phys EXCEPT ![r.mem] = [gate |-> new, owner |-> 0]],
                         [gate |-> m.gate, owner |-> s]),
                  Append(ram, Contents(d, r)), TRUE)
      ELSE Result(rs1, [phys EXCEPT ![r.mem].gate = new], Append(ram, Contents(d, r)), TRUE)

Mut_get_page(s, d, rs, k, page) ==
    IF rs[k].mem = 0 THEN Back(s, d, rs, k, page)
    ELSE IF rs[k].cow /\ DS[d].write THEN copy(s, d, rs, k)
    ELSE Result(rs, phys, ram, FALSE)
get_page(s, d, rs, k, page) ==
    IF rs[k].mem = 0 THEN Back(s, d, rs, k, page)
    ELSE IF rs[k].cow /\ DS[d].write THEN copy(s, d, rs, k)
    ELSE IF rs[k].cow THEN Result([rs EXCEPT ![k].cow = FALSE], phys, ram, TRUE)
    ELSE Result(rs, phys, ram, FALSE)

\* The createmap system call: a page that is mapped keeps its memory and gets
\* the permission.  Nothing is mapped if the memory is too small.
createmap(table, r, gate, size, w) ==
    IF r.memoff + r.size > size THEN table
    ELSE [p \in DOMAIN table |->
            IF p \notin r.off .. (End(r) - 1) THEN table[p]
            ELSE IF table[p].g # 0 THEN [table[p] EXCEPT !.w = w]
            ELSE [g |-> gate, i |-> r.memoff + p - r.off + 1, w |-> w]]

--------------------------------------------------------------------------
(***************************************************************************)
(* The handlers of the pager.                                              *)
(***************************************************************************)
\* A VPE object is made: a session that may become a clone of its creator's
\* (handle_obtain, handle_delegate).
create_clone(s) ==
    /\ state[s] = "new" /\ state[Parent[s]] = "runs"
    /\ state' = [state EXCEPT ![s] = "clonable"]
    /\ UNCHANGED <<regs, att, phys, ram, pte, want, wrote>>

\* map_anon and map_ds; a session with a mapping is no longer clonable, and its
\* VPE is about to run.  A file is not mapped again where its pages still are.
map_ds(s, d) ==
    /\ state[s] # "new" /\ d \notin att[s] /\ want[s] = NoWant
    /\ \A p \in Page(d) : pte[s][d][p] = NoPte
    /\ Len(phys) < MaxPhys
    /\ att' = [att EXCEPT ![s] = @ \cup {d}]
    /\ state' = [state EXCEPT ![s] = "runs"]
    /\ wrote' = [wrote EXCEPT ![s][d] = [p \in Page(d) |-> IF DS[d].anon THEN 0 ELSE FileData]]
    /\ UNCHANGED <<regs, phys, ram, pte, want>>

\* pf: the page fault of a waiting VPE.
Served(s, d, rs, page) == get_page(s, d, rs, Passed(rs, page) + 1, page)
Mapped(s, d, res, r, gate) ==
    IF res.todo THEN createmap(pte[s][d], r, gate, Len(res.ram[gate]), DS[d].write) ELSE pte[s][d]
pf(s, d, page) ==
    \E rs \in {pagefault(regs[s][d], page, DS[d].size)} :
    \E res \in {Served(s, d, rs, page)} :
    \E r \in {res.regs[Passed(rs, page) + 1]} :
        /\ regs' = [regs EXCEPT ![s][d] = res.regs]
        /\ phys' = res.phys /\ ram' = res.ram
        /\ pte' = [pte EXCEPT ![s][d] = Mapped(s, d, res, r, res.phys[r.mem].gate)]
        /\ UNCHANGED <<state, att, want, wrote>>

\* clone (MemSessionData::clone, DataSpace::clone): the regions of the parent
\* are shared; those of writable dataspaces become read-only for the parent.
ReadOnly(s, d) ==
    FoldSeq(LAMBDA r, t : createmap(t, r, phys[r.mem].gate, Len(ram[phys[r.mem].gate]), FALSE),
            pte[s][d], regs[s][d])
Cow(rs) == [k \in DOMAIN rs |-> [rs[k] EXCEPT !.cow = TRUE]]
Mut_clone(s) ==
    LET p == Parent[s] IN
    /\ state[s] = "clonable"
    /\ state' = [state EXCEPT ![s] = "runs"]
    /\ att' = [att EXCEPT ![s] = att[p]]
    /\ regs' = [regs EXCEPT ![s] = [d \in Name |-> Cow(regs[p][d])],
                            ![p] = [d \in Name |-> IF DS[d].write THEN Cow(@[d]) ELSE @[d]]]
    /\ wrote' = [wrote EXCEPT ![s] = wrote[p]]
    /\ UNCHANGED <<phys, ram, pte, want>>
clone(s) ==
    LET p == Parent[s] IN
    /\ state[s] = "clonable"
    /\ state' = [state EXCEPT ![s] = "runs"]
    /\ att' = [att EXCEPT ![s] = att[p]]
    /\ regs' = [regs EXCEPT ![s] = [d \in Name |-> Cow(regs[p][d])],
                            ![p] = [d \in Name |-> IF DS[d].write THEN Cow(@[d]) ELSE @[d]]]
    /\ pte' = [pte EXCEPT ![p] = [d \in Name |-> IF DS[d].write THEN ReadOnly(p, d) ELSE @[d]]]
    /\ wrote' = [wrote EXCEPT ![s] = wrote[p]]
    /\ UNCHANGED <<phys, ram, want>>

\* unmap: memory that no other region refers to is revoked (RefCounted), and
\* with it all pages that show it; the memory of a file is kept.
unmap(s, d) ==
    LET mine == {regs[s][d][k].mem : k \in DOMAIN regs[s][d]}
        gone == {phys[m].gate : m \in {m \in mine : Refs(m) = 1 /\ (DS[d].anon \/ DS[d].write)}} IN
    /\ state[s] = "runs" /\ d \in att[s] /\ want[s] = NoWant
    /\ UnmapShared \/ \A t \in Session : d \in att[t] => t = s
    /\ att' = [att EXCEPT ![s] = @ \ {d}]
    /\ regs' = [regs EXCEPT ![s][d] = << >>]
    /\ pte' = [t \in Session |-> [n \in Name |-> [p \in Page(n) |->
                  IF pte[t][n][p].g \in gone THEN NoPte ELSE pte[t][n][p]]]]
    /\ UNCHANGED <<state, phys, ram, want, wrote>>

--------------------------------------------------------------------------
(***************************************************************************)
(* The VPEs.                                                               *)
(***************************************************************************)
\* The access needs a page table entry that is missing or read-only.  pf treats
\* reads and writes alike: writable dataspaces are written, others read.
Missing(s, d, p) == pte[s][d][p].g = 0 \/ (DS[d].write /\ ~pte[s][d][p].w)

Access(s, d, p) ==
    /\ state[s] = "runs" /\ d \in att[s] /\ want[s] = NoWant
    /\ Missing(s, d, p)
    /\ want' = [want EXCEPT ![s] = [d |-> d, page |-> p]]
    /\ UNCHANGED <<state, regs, att, phys, ram, pte, wrote>>

Fault(s) == want[s] # NoWant /\ Missing(s, want[s].d, want[s].page) /\ pf(s, want[s].d, want[s].page)

Resume(s) ==
    /\ want[s] # NoWant /\ ~Missing(s, want[s].d, want[s].page)
    /\ want' = [want EXCEPT ![s] = NoWant]
    /\ UNCHANGED <<state, regs, att, phys, ram, pte, wrote>>

\* Every store writes a value of its own.
Value(s, x) == IF x \div 10 = s THEN x + 1 ELSE 10 * s + 1
Store(s, d, p) ==
    LET e == pte[s][d][p]
        v == Value(s, wrote[s][d][p]) IN
    /\ state[s] = "runs" /\ d \in att[s] /\ want[s] = NoWant
    /\ e.g # 0 /\ e.w /\ v % 10 <= MaxStores
    /\ ram' = [ram EXCEPT ![e.g][e.i] = v]
    /\ wrote' = [wrote EXCEPT ![s][d][p] = v]
    /\ UNCHANGED <<state, regs, att, phys, pte, want>>

Handled(s) ==
    \/ create_clone(s)
    \/ \E d \in Name : map_ds(s, d) \/ unmap(s, d)
    \/ clone(s)
Progress == \E s \in Session : Fault(s) \/ Resume(s)
Next ==
    \/ \E s \in Session : Handled(s)
    \/ \E s \in Session, d \in Name : \E p \in Touched[d] :
         Access(s, d, p) \/ Store(s, d, p)
    \/ Progress

Fairness == WF_vars(Progress)
Spec == Init /\ [][Next]_vars /\ Fairness

--------------------------------------------------------------------------
(***************************************************************************)
(* Properties.                                                             *)
(***************************************************************************)
\* A VPE finds in each mapped page what it wrote there itself, or what its
\* creator had written when it was cloned: Region::copy and createmap keep the
\* address spaces apart, although they share memory.
OwnMemory ==
    \A s \in Session : state[s] = "runs" =>
        \A d \in att[s] : \A p \in Page(d) :
            LET e == pte[s][d][p] IN e.g # 0 => ram[e.g][e.i] = wrote[s][d][p]

\* The regions of a dataspace follow one another without overlap and within the
\* dataspace, as RegionList::pagefault relies on ("the offset can only be
\* increased, but not decreased").
RegionsApart ==
    \A s \in Session, d \in Name : \A k \in DOMAIN regs[s][d] :
        /\ 0 < regs[s][d][k].size /\ End(regs[s][d][k]) <= DS[d].size
        /\ k > 1 => End(regs[s][d][k - 1]) <= regs[s][d][k].off

\* Every page fault is served in the end, although one answer of the pager may
\* map only pages before the one that is missing (ExternalDataSpace::get_page).
Faulting == \E s \in Session : want[s] # NoWant
FaultsServed == Faulting ~> ~Faulting
=============================================================================
