-------------------------- MODULE PageTables_exact --------------------------
(***************************************************************************)
(* Whatever memory capabilities there are, however many pages, and in      *)
(* whatever order the kernel maps, remaps and revokes while the VPE runs:  *)
(* when the kernel is done, page table and TLB allow what the mapping      *)
(* capabilities say.                                                       *)
(***************************************************************************)
EXTENDS PageTables, SequenceTheorems, TLAPS

\* The configuration the theorem is about.
Machine ==
    /\ Pages \in Nat /\ Entries \in Nat \ {0}
    /\ "none" \notin DOMAIN MemCaps
    /\ \A m \in DOMAIN MemCaps : MemCaps[m].base \in Nat /\ MemCaps[m].pages \in Nat

\* As long as the kernel runs, the mapping capabilities are those that the memory
\* capabilities list, and these exist; a PE without a VPE has none.
Listed == halted \/
    /\ \A p \in Page : caps[p].mem = "none" => caps[p] = NoCap
    /\ \A p \in Page : caps[p].mem \in live \cup {"none"}
    /\ \A m \in DOMAIN MemCaps : children[m] = {p \in Page : caps[p].mem = m}
    /\ runs \/ \A p \in Page : caps[p] = NoCap

\* The calls of map_page that are left concern a page each, and make its entry
\* what its mapping capability says; only the first one may be half done.
Wanted ==
    /\ \A i, j \in DOMAIN todo : todo[i].page = todo[j].page => i = j
    /\ \A i \in DOMAIN todo : todo[i].inv => i = 1
    /\ \A i \in DOMAIN todo :
         LET c == todo[i] IN
         /\ c.perm = caps[c.page].attr
         /\ c.perm # {} => c.phys = caps[c.page].phys

\* A call for page p is left; its entry is written; it is still to be invalidated.
Pending(p) == \E i \in DOMAIN todo : todo[i].page = p
Written(p) == ~Pending(p) \/ \E i \in DOMAIN todo : todo[i].page = p /\ todo[i].inv
Stale(p) == \E i \in DOMAIN todo : todo[i].page = p /\ todo[i].inv

\* The entry of a page is right unless it is still to be written; if it is
\* written again for the same capability, it has that capability's memory.
Entered ==
    \A p \in Page :
      /\ Written(p) => Allowed(p) = caps[p].attr
      /\ Allowed(p) # {} /\ caps[p].attr # {} => pte[p].phys = caps[p].phys

\* The TLB has no more than the entry unless the page is to be invalidated.
Cached ==
    \A p \in Page : ~Stale(p) =>
      /\ tlb[p].perm \subseteq Allowed(p)
      /\ tlb[p].perm # {} => tlb[p].phys = pte[p].phys

\* The inductive invariant.
Inv == TypeOK /\ Listed /\ Wanted /\ Entered /\ Cached

\* A call of map_page, and a mapping capability.
CallType == [page : Page, phys : Nat, perm : SUBSET Right, inv : BOOLEAN]
CapType == [mem : DOMAIN MemCaps \cup {"none"}, phys : Nat, attr : SUBSET Right]

--------------------------------------------------------------------------
\* CapTable::revoke_rec unmaps the page of a mapping, and the kernel gets no
\* further.
LEMMA RevokeMappingInv ==
    ASSUME Machine, Inv, Ready, NEW p \in Page, RevokeMapping(p), runs' \in BOOLEAN,
           UNCHANGED <<live, children, root, pte, tlb>>
    PROVE  Inv'
<1>1. caps \in [Page -> CapType] /\ NoCap \in CapType /\ todo = << >>
    BY DEF Inv, TypeOK, CapType, NoCap, Ready
<1>0. ~checkType(ParentType)
    BY DEF checkType, ParentType, MEMCAP, MAPCAP
<1>2. caps' = [caps EXCEPT ![p] = NoCap] /\ todo' = <<Call(p, 0, {})>> /\ halted' = TRUE
    BY <1>0, Zenon DEF RevokeMapping
<1>3. caps' \in [Page -> CapType] /\ caps'[p].attr = {} /\ \A q \in Page \ {p} : caps'[q] = caps[q]
    BY <1>1, <1>2 DEF NoCap
<1>4. /\ todo' \in Seq(CallType) /\ DOMAIN todo' = {1}
      /\ todo'[1].page = p /\ todo'[1].perm = {} /\ ~todo'[1].inv
    BY <1>2 DEF Call, CallType
<1>5. Wanted'
    BY <1>3, <1>4, Zenon DEF Wanted
<1>6. /\ \A q \in Page : Written(q) /\ ~Stale(q) /\ ~Stale(q)' /\ Allowed(q)' = Allowed(q)
      /\ ~Written(p)'
    BY <1>1, <1>4 DEF Written, Pending, Stale, Allowed
<1>7. Cached'
    BY <1>6 DEF Inv, Cached
<1>8. Entered'
    <2> SUFFICES ASSUME NEW q \in Page
                 PROVE  /\ Written(q)' => Allowed(q) = caps'[q].attr
                        /\ Allowed(q) # {} /\ caps'[q].attr # {} => pte[q].phys = caps'[q].phys
        BY <1>6 DEF Entered
    <2> QED
        BY <1>3, <1>6 DEF Inv, Entered
<1>9. TypeOK'
    BY <1>2, <1>3, <1>4, Zenon DEF Inv, TypeOK, CapType, CallType
<1> QED
    BY <1>2, <1>5, <1>7, <1>8, <1>9 DEF Inv, Listed

\* CapTable::revoke_rec for a memory capability: without mappings it is gone, and
\* otherwise the kernel gets no further.
LEMMA RevokeMemInv ==
    ASSUME Machine, Inv, NEW m \in DOMAIN MemCaps, RevokeMem(m)
    PROVE  Inv'
<1>1. /\ todo = << >> /\ UNCHANGED <<caps, root, pte, tlb, todo, runs>> /\ ~halted
      /\ live' = live \ {m} /\ children' = [children EXCEPT ![m] = {}]
      /\ halted' = (children[m] # {})
    BY DEF RevokeMem, Ready, checkType, MAPCAP
<1>2. \A p \in Page : Allowed(p)' = Allowed(p) /\ Stale(p)' = Stale(p) /\ Written(p)' = Written(p)
    BY <1>1 DEF Allowed, Stale, Written, Pending
<1>3. TypeOK'
    BY <1>1, Zenon DEF Inv, TypeOK
<1>4. Listed'
    <2> SUFFICES ASSUME children[m] = {} PROVE Listed'
        BY <1>1, Zenon DEF Listed
    <2>1. children' = children
        BY <1>1 DEF Inv, TypeOK
    <2>2. \A p \in Page : caps[p].mem # m
        BY <1>1 DEF Inv, Listed
    <2> QED
        BY <1>1, <2>1, <2>2 DEF Inv, Listed
<1>5. Wanted' /\ Entered' /\ Cached'
    BY <1>1, <1>2 DEF Inv, Wanted, Entered, Cached
<1> QED
    BY <1>3, <1>4, <1>5 DEF Inv

\* The end of a VPE without mappings.
LEMMA ExitInv ==
    ASSUME Machine, Inv, Exit
    PROVE  Inv'
<1>1. /\ Ready /\ UNCHANGED <<live, children, root, pte, tlb>> /\ runs' = FALSE
      /\ \/ (\A p \in Page : caps[p] = NoCap) /\ UNCHANGED <<caps, todo, halted>>
         \/ \E p \in Page : RevokeMapping(p)
    BY DEF Exit
<1>2. CASE (\A p \in Page : caps[p] = NoCap) /\ UNCHANGED <<caps, todo, halted>>
    <2>1. \A p \in Page : Allowed(p)' = Allowed(p) /\ Stale(p)' = Stale(p) /\ Written(p)' = Written(p)
        BY <1>1, <1>2 DEF Allowed, Stale, Written, Pending
    <2>2. TypeOK' /\ Listed'
        BY <1>1, <1>2, Zenon DEF Inv, TypeOK, Listed
    <2>3. Wanted' /\ Entered' /\ Cached'
        BY <1>1, <1>2, <2>1 DEF Inv, Wanted, Entered, Cached
    <2> QED
        BY <2>2, <2>3 DEF Inv
<1>3. ASSUME NEW p \in Page, RevokeMapping(p) PROVE Inv'
    BY <1>1, <1>3, RevokeMappingInv, Zenon
<1> QED
    BY <1>1, <1>2, <1>3

--------------------------------------------------------------------------
\* SyscallHandler::createmap.
LEMMA CreateMapInv ==
    ASSUME Machine, Inv, NEW m \in DOMAIN MemCaps,
           NEW first \in 0 .. (MemCaps[m].pages - 1), NEW n \in 1 .. MemCaps[m].pages,
           NEW dst \in Page, NEW perms \in Perms, dst + n <= Pages,
           createmap(m, first, n, dst, perms)
    PROVE  Inv'
<1> DEFINE range == dst .. (dst + n - 1)
           new == [i \in 0 .. (n - 1) |->
                    IF caps[dst + i] = NoCap THEN NewCap(m, first, i, perms)
                    ELSE [caps[dst + i] EXCEPT !.attr = perms]]
<1>1. /\ m \in live /\ todo = << >> /\ runs /\ ~halted
      /\ caps' = [p \in Page |-> IF p \in range THEN new[p - dst] ELSE caps[p]]
      /\ children' = [children EXCEPT ![m] = @ \cup {p \in range : caps[p] = NoCap}]
      /\ todo' = [k \in 1 .. n |-> Call(dst + k - 1, new[k - 1].phys, perms)]
      /\ UNCHANGED <<live, root, pte, tlb, runs, halted>>
    BY DEF createmap, Ready
<1>2. dst \in Nat /\ n \in Nat \ {0} /\ first \in Nat /\ perms \in SUBSET Right
    BY DEF Machine, Page, Right
<1>3. range \subseteq Page
    BY <1>2 DEF Machine, Page
<1>4. caps \in [Page -> CapType]
    BY DEF Inv, TypeOK, CapType
<1>5. ASSUME NEW p \in range
      PROVE  /\ p - dst \in 0 .. (n - 1)
             /\ caps'[p] = new[p - dst] /\ caps'[p].attr = perms /\ caps'[p] \in CapType
             /\ caps[p] = NoCap => caps'[p].mem = m
             /\ caps[p] # NoCap => caps'[p].mem = caps[p].mem /\ caps'[p].phys = caps[p].phys
    <2>1. p - dst \in 0 .. (n - 1) /\ dst + (p - dst) = p
        BY <1>2
    <2>2. caps'[p] = IF caps[p] = NoCap THEN NewCap(m, first, p - dst, perms)
                     ELSE [caps[p] EXCEPT !.attr = perms]
        BY <1>1, <1>3, <2>1
    <2>3. caps'[p] = new[p - dst]
        BY <1>1, <1>3
    <2>4. MemCaps[m].base + first + (p - dst) \in Nat
        BY <1>2, <2>1 DEF Machine
    <2>5. CASE caps[p] = NoCap
        BY <1>2, <2>1, <2>2, <2>3, <2>4, <2>5 DEF NewCap, CapType
    <2>6. CASE caps[p] # NoCap
        <3>1. caps[p] \in CapType
            BY <1>3, <1>4
        <3> QED
            BY <1>2, <2>1, <2>2, <2>3, <2>6, <3>1 DEF CapType
    <2> QED
        BY <2>5, <2>6
<1>6. \A p \in Page \ range : caps'[p] = caps[p]
    BY <1>1
<1> HIDE DEF range
<1>7. ASSUME NEW k \in 1 .. n
      PROVE  /\ dst + k - 1 \in range /\ todo'[k] \in CallType
             /\ todo'[k].page = dst + k - 1 /\ todo'[k].inv = FALSE
             /\ todo'[k].perm = perms /\ todo'[k].phys = caps'[dst + k - 1].phys
    <2> DEFINE q == dst + k - 1
    <2>1. q \in range /\ q - dst = k - 1
        BY <1>2 DEF range
    <2>2. todo'[k] = Call(q, new[k - 1].phys, perms)
        BY <1>1
    <2> HIDE DEF q
    <2>3. caps'[q] = new[k - 1] /\ caps'[q].phys \in Nat /\ q \in Page
        BY <1>3, <1>5, <2>1, Zenon DEF CapType
    <2>4. todo'[k] = [page |-> q, phys |-> caps'[q].phys, perm |-> perms, inv |-> FALSE]
        BY <2>2, <2>3 DEF Call
    <2>5. todo'[k] \in CallType
        BY <1>2, <2>3, <2>4 DEF CallType
    <2> QED
        BY <2>1, <2>4, <2>5 DEF q
<1> HIDE DEF new
<1>8. DOMAIN todo' = 1 .. n /\ Len(todo') = n
    BY <1>1, <1>2
<1>9. todo' \in Seq(CallType)
    <2>1. \A k \in 1 .. n : todo'[k] \in CallType
        BY <1>7, Zenon
    <2> QED
        BY <1>1, <1>2, <2>1
<1>10. caps' \in [Page -> CapType]
    BY <1>1, <1>4, <1>5, <1>6, Zenon
<1>11. TypeOK'
    BY <1>1, <1>3, <1>9, <1>10, Zenon DEF Inv, TypeOK, CapType, CallType
<1>12. Listed'
    <2>1. NoCap.mem = "none" /\ m # "none"
        BY DEF NoCap, Machine
    <2>2. \A p \in Page : caps'[p].mem = "none" => caps'[p] = NoCap
        BY <1>1, <1>5, <1>6, <2>1, Zenon DEF Inv, Listed
    <2>3. \A p \in Page : caps'[p].mem \in live' \cup {"none"}
        BY <1>1, <1>5, <1>6, Zenon DEF Inv, Listed
    <2>4. ASSUME NEW a \in DOMAIN MemCaps PROVE children'[a] = {p \in Page : caps'[p].mem = a}
        <3>1. children[a] = {p \in Page : caps[p].mem = a} /\ a # "none"
            BY <1>1 DEF Inv, Listed, Machine
        <3>2. children'[a] = IF a = m THEN children[a] \cup {p \in range : caps[p] = NoCap}
                             ELSE children[a]
            BY <1>1, Zenon DEF Inv, TypeOK
        <3>3. \A p \in range : caps[p] = NoCap => caps[p].mem = "none" /\ caps'[p].mem = m
            BY <1>5, <2>1
        <3>4. \A p \in Page : ~(p \in range /\ caps[p] = NoCap) => caps'[p].mem = caps[p].mem
            BY <1>5, <1>6
        <3> QED
            BY <1>3, <3>1, <3>2, <3>3, <3>4
    <2> QED
        BY <1>1, <2>2, <2>3, <2>4, Zenon DEF Listed
<1>13. Wanted'
    <2>1. \A k \in 1 .. n : LET c == todo'[k] IN
                            /\ c.page \in range /\ c.inv = FALSE
                            /\ c.perm = perms /\ c.phys = caps'[c.page].phys
        BY <1>7, Zenon
    <2>2. \A i, j \in 1 .. n : dst + i - 1 = dst + j - 1 => i = j
        BY <1>2
    <2>3. \A i, j \in DOMAIN todo' : todo'[i].page = todo'[j].page => i = j
        <3> SUFFICES ASSUME NEW i \in 1 .. n, NEW j \in 1 .. n, todo'[i].page = todo'[j].page
                     PROVE  i = j
            BY <1>8
        <3>1. todo'[i].page = dst + i - 1 /\ todo'[j].page = dst + j - 1
            BY <1>7, Zenon
        <3> QED
            BY <2>2, <3>1, Zenon
    <2>4. \A i \in DOMAIN todo' : todo'[i].perm = caps'[todo'[i].page].attr
        BY <1>5, <1>8, <2>1
    <2> QED
        BY <1>8, <2>1, <2>3, <2>4 DEF Wanted
<1>14. \A p \in Page : ~Stale(p) /\ ~Stale(p)' /\ Allowed(p)' = Allowed(p) /\ ~Pending(p)
    <2>1. \A k \in DOMAIN todo' : todo'[k].inv = FALSE
        BY <1>7, <1>8, Zenon
    <2> QED
        BY <1>1, <2>1 DEF Stale, Allowed, Pending
<1>15. Cached'
    BY <1>1, <1>14 DEF Inv, Cached
<1>16. \A p \in range : ~Written(p)'
    <2> SUFFICES ASSUME NEW p \in range PROVE Pending(p)'
        BY <1>3, <1>14 DEF Written, Stale
    <2>1. p - dst + 1 \in 1 .. n /\ dst + (p - dst + 1) - 1 = p
        BY <1>2 DEF range
    <2> QED
        BY <1>7, <1>8, <2>1, Zenon DEF Pending
<1>17. Entered'
    <2> SUFFICES ASSUME NEW p \in Page
                 PROVE  /\ Written(p)' => Allowed(p) = caps'[p].attr
                        /\ Allowed(p) # {} /\ caps'[p].attr # {} => pte[p].phys = caps'[p].phys
        BY <1>1, <1>14 DEF Entered
    <2>1. /\ Allowed(p) = caps[p].attr
          /\ Allowed(p) # {} => pte[p].phys = caps[p].phys
        BY <1>14 DEF Inv, Entered, Written
    <2>2. CASE p \in range
        BY <1>5, <1>16, <2>1, <2>2 DEF NoCap
    <2>3. CASE p \notin range
        BY <1>6, <2>1, <2>3
    <2> QED
        BY <2>2, <2>3
<1> QED
    BY <1>11, <1>12, <1>13, <1>15, <1>17 DEF Inv

--------------------------------------------------------------------------
\* DTU::map_page up to the write of the entry.  If the TLB could hold more than
\* the new entry allows, the call is not done yet.
LEMMA MapPageInv ==
    ASSUME Machine, Inv, map_page
    PROVE  Inv'
<1>0. todo # << >> /\ Head(todo) \in CallType
    <2>1. todo # << >>
        BY DEF map_page
    <2>2. todo \in Seq(CallType)
        BY DEF Inv, TypeOK, CallType
    <2> QED
        BY <2>1, <2>2
<1> PICK c \in CallType : c = Head(todo)
    BY <1>0
<1> DEFINE q == c.page
           old == IF Absent(c) THEN Zero ELSE pte[q]
           d == [c EXCEPT !.inv = TRUE]
<1>1. todo[1] = c /\ ~c.inv /\ 1 \in DOMAIN todo
    BY <1>0 DEF map_page, Inv, TypeOK, CallType
<1>2. /\ q \in Page /\ c.perm \in SUBSET Right /\ c.phys \in Nat
      /\ c.perm = caps[q].attr
      /\ c.perm # {} => c.phys = caps[q].phys
      /\ \A i \in DOMAIN todo : todo[i].page = q => i = 1
      /\ \A i \in DOMAIN todo : ~todo[i].inv
    BY <1>1 DEF CallType, Inv, Wanted
<1>3. \A p \in Page : ~Stale(p)
    BY <1>2 DEF Stale
<1>4. Len(todo) \in Nat \ {0} /\ DOMAIN todo = 1 .. Len(todo)
    BY <1>0 DEF Inv, TypeOK
<1>5. /\ UNCHANGED <<live, caps, children, tlb, runs, halted>>
      /\ IF Absent(c) /\ c.perm = {}
         THEN todo' = Tail(todo) /\ UNCHANGED <<root, pte>>
         ELSE /\ root' = [root EXCEPT ![Table(q)] = TRUE]
              /\ pte' = [p \in Page |->
                           IF p = q THEN NewPte(c)
                           ELSE IF Absent(c) /\ p \in Below(c) THEN Zero ELSE pte[p]]
              /\ todo' = IF NewPte(c) # old /\ Downgraded(old, c)
                           THEN [todo EXCEPT ![1] = d] ELSE Tail(todo)
    <2>1. [todo EXCEPT ![1].inv = TRUE] = [todo EXCEPT ![1] = d]
        BY <1>1
    <2> QED
        BY <2>1 DEF map_page
<1>6. ASSUME NEW p \in Page
      PROVE  /\ p # q => Allowed(p)' = Allowed(p)
             /\ p # q /\ Allowed(p) # {} => pte'[p] = pte[p]
             /\ Allowed(q)' = c.perm
             /\ c.perm # {} => pte'[q].phys = c.phys
             /\ old.perm = Allowed(q)
    <2>1. Table(p) \in DOMAIN root /\ Table(q) \in DOMAIN root
        BY <1>2 DEF Inv, TypeOK
    <2>2. old.perm = Allowed(q)
        BY DEF Absent, Allowed, Zero
    <2>3. CASE Absent(c) /\ c.perm = {}
        BY <1>5, <2>2, <2>3, Zenon DEF Absent, Allowed
    <2>4. CASE ~(Absent(c) /\ c.perm = {})
        <3>1. root'[Table(q)] = TRUE /\ pte'[q] = NewPte(c)
            BY <1>2, <1>5, <2>1, <2>4
        <3>2. Allowed(q)' = c.perm /\ pte'[q].phys = c.phys
            BY <3>1 DEF Allowed, NewPte
        <3>3. CASE p # q /\ Table(p) = Table(q)
            <4>1. p \in Below(c)
                BY <3>3 DEF Below
            <4>2. pte'[p] = IF Absent(c) THEN Zero ELSE pte[p]
                BY <1>5, <2>4, <3>3, <4>1
            <4> QED
                BY <2>2, <3>1, <3>2, <3>3, <4>2, Zenon DEF Absent, Allowed, Zero
        <3>4. CASE p # q /\ Table(p) # Table(q)
            <4>1. pte'[p] = pte[p] /\ root'[Table(p)] = root[Table(p)]
                BY <1>5, <2>1, <2>4, <3>4 DEF Below
            <4> QED
                BY <2>2, <3>2, <4>1 DEF Allowed
        <3> QED
            BY <2>2, <3>2, <3>3, <3>4
    <2> QED
        BY <2>3, <2>4
<1>7. root' \in [{Table(p) : p \in Page} -> BOOLEAN]
    BY <1>5, Zenon DEF Inv, TypeOK
<1>8. pte' \in [Page -> [phys : Nat, perm : SUBSET Right, i : BOOLEAN]]
    <2>1. NewPte(c) \in [phys : Nat, perm : SUBSET Right, i : BOOLEAN]
        BY <1>2 DEF NewPte
    <2>2. Zero \in [phys : Nat, perm : SUBSET Right, i : BOOLEAN]
        BY DEF Zero
    <2> QED
        BY <1>5, <2>1, <2>2, Zenon DEF Inv, TypeOK
<1>9. Listed'
    BY <1>5 DEF Inv, Listed
<1>10. /\ [todo EXCEPT ![1] = d] \in Seq(CallType)
       /\ Len([todo EXCEPT ![1] = d]) = Len(todo)
    <2>1. todo \in Seq(CallType) /\ 1 \in 1 .. Len(todo)
        BY <1>1, <1>4 DEF Inv, TypeOK, CallType
    <2>2. d \in CallType
        BY Zenon DEF CallType
    <2> QED
        BY <2>1, <2>2, ExceptSeq
<1>11. CASE todo' = Tail(todo)
    <2>1. NewPte(c) = old \/ ~Downgraded(old, c) \/ (Absent(c) /\ c.perm = {})
        <3>1. Len(Tail(todo)) = Len(todo) - 1
            BY <1>0, <1>4 DEF Inv, TypeOK
        <3> DEFINE e == [todo EXCEPT ![1] = d]
        <3>2. Len(e) = Len(todo)
            BY <1>10
        <3> HIDE DEF e
        <3>3. todo' # e
            BY <1>4, <1>11, <3>1, <3>2
        <3> QED
            BY <1>5, <3>3 DEF e
    <2>2. Allowed(q) \subseteq c.perm
        <3>1. CASE Absent(c)
            BY <3>1 DEF Absent, Allowed
        <3>2. CASE NewPte(c) = old
            BY <1>2, <1>6, <3>2 DEF NewPte
        <3>3. CASE ~Downgraded(old, c)
            BY <1>2, <1>6, <3>3, Zenon DEF Downgraded
        <3> QED
            BY <2>1, <3>1, <3>2, <3>3
    <2>3. todo' \in Seq(CallType)
        BY <1>0, <1>11 DEF Inv, TypeOK, CallType
    <2>4. DOMAIN todo' = 1 .. (Len(todo) - 1) /\ \A i \in DOMAIN todo' : todo'[i] = todo[i + 1]
        BY <1>0, <1>4, <1>11 DEF Inv, TypeOK
    <2>5. \A i \in DOMAIN todo' : i + 1 \in DOMAIN todo /\ i \in Nat
        BY <1>4, <2>4
    <2>6. Wanted'
        <3>1. \A i, j \in DOMAIN todo' : todo'[i].page = todo'[j].page => i = j
            <4>1. \A i, j \in DOMAIN todo' : todo'[i].page = todo'[j].page => i + 1 = j + 1
                BY <2>4, <2>5 DEF Inv, Wanted
            <4> QED
                BY <2>5, <4>1
        <3>2. \A i \in DOMAIN todo' : ~todo'[i].inv
            BY <1>2, <2>4, <2>5
        <3>3. \A i \in DOMAIN todo' : /\ todo'[i].perm = caps'[todo'[i].page].attr
                                      /\ todo'[i].perm # {} => todo'[i].phys = caps'[todo'[i].page].phys
            BY <1>5, <2>4, <2>5 DEF Inv, Wanted
        <3> QED
            BY <3>1, <3>2, <3>3 DEF Wanted
    <2>7. \A p \in Page : p # q /\ Written(p)' => Written(p)
        <3> SUFFICES ASSUME NEW p \in Page, p # q, Pending(p) PROVE Pending(p)' /\ ~Stale(p)'
            BY <2>4, <2>5, <1>2 DEF Written, Stale
        <3>1. PICK i \in DOMAIN todo : todo[i].page = p
            BY DEF Pending
        <3>2. i # 1
            BY <1>1, <3>1
        <3>3. i - 1 \in 1 .. (Len(todo) - 1) /\ (i - 1) + 1 = i
            BY <1>4, <3>2
        <3>4. Pending(p)'
            BY <2>4, <3>1, <3>3 DEF Pending
        <3> QED
            BY <1>2, <2>4, <2>5, <3>4 DEF Stale
    <2>8. Entered'
        <3> SUFFICES ASSUME NEW p \in Page
                     PROVE  /\ Written(p)' => Allowed(p)' = caps[p].attr
                            /\ Allowed(p)' # {} /\ caps[p].attr # {} => pte'[p].phys = caps[p].phys
            BY <1>5 DEF Entered
        <3>1. CASE p = q
            BY <1>2, <1>6, <3>1, Zenon
        <3>2. CASE p # q
            BY <1>6, <2>7, <3>2 DEF Inv, Entered
        <3> QED
            BY <3>1, <3>2
    <2>9. Cached'
        <3> SUFFICES ASSUME NEW p \in Page
                     PROVE  /\ tlb[p].perm \subseteq Allowed(p)'
                            /\ tlb[p].perm # {} => tlb[p].phys = pte'[p].phys
            BY <1>5 DEF Cached
        <3>1. tlb[p].perm \subseteq Allowed(p) /\ (tlb[p].perm # {} => tlb[p].phys = pte[p].phys)
            BY <1>3 DEF Inv, Cached
        <3>2. CASE p = q
            <4>1. Allowed(q) # {} => c.perm # {} /\ pte[q].phys = c.phys
                BY <1>2, <2>2 DEF Inv, Entered
            <4> QED
                BY <1>2, <1>6, <2>2, <3>1, <3>2, <4>1, Zenon
        <3>3. CASE p # q
            BY <1>6, <3>1, <3>3
        <3> QED
            BY <3>2, <3>3
    <2> QED
        BY <1>5, <1>7, <1>8, <1>9, <2>3, <2>6, <2>8, <2>9, Zenon DEF Inv, TypeOK, CallType
<1>12. CASE todo' = [todo EXCEPT ![1] = d]
    <2>1. todo' \in Seq(CallType)
        BY <1>12, <1>10
    <2>2. /\ DOMAIN todo' = DOMAIN todo /\ todo'[1].page = q /\ todo'[1].inv = TRUE
          /\ todo'[1].perm = c.perm /\ todo'[1].phys = c.phys
          /\ \A i \in DOMAIN todo : i # 1 => todo'[i] = todo[i]
        BY <1>1, <1>4, <1>12 DEF CallType
    <2>3. \A i \in DOMAIN todo : todo'[i].page = todo[i].page
        BY <1>1, <2>2
    <2>4. Wanted'
        <3>1. \A i, j \in DOMAIN todo' : todo'[i].page = todo'[j].page => i = j
            BY <2>2, <2>3 DEF Inv, Wanted
        <3>2. \A i \in DOMAIN todo' : todo'[i].inv => i = 1
            BY <1>2, <2>2
        <3>3. \A i \in DOMAIN todo' : /\ todo'[i].perm = caps'[todo'[i].page].attr
                                      /\ todo'[i].perm # {} => todo'[i].phys = caps'[todo'[i].page].phys
            BY <1>1, <1>2, <1>5, <2>2 DEF Inv, Wanted
        <3> QED
            BY <3>1, <3>2, <3>3 DEF Wanted
    <2>5. Stale(q)' /\ \A p \in Page : p # q => Written(p)' = Written(p)
        <3>1. Stale(q)'
            BY <1>1, <2>2 DEF Stale
        <3>2. ASSUME NEW p \in Page, p # q PROVE Written(p)' = Written(p)
            <4>1. Pending(p)' = Pending(p)
                BY <2>2, <2>3 DEF Pending
            <4>2. ~Stale(p)'
                BY <1>2, <2>2, <3>2 DEF Stale
            <4> QED
                BY <1>3, <4>1, <4>2 DEF Written, Stale
        <3> QED
            BY <3>1, <3>2
    <2>6. Entered'
        <3> SUFFICES ASSUME NEW p \in Page
                     PROVE  /\ Written(p)' => Allowed(p)' = caps[p].attr
                            /\ Allowed(p)' # {} /\ caps[p].attr # {} => pte'[p].phys = caps[p].phys
            BY <1>5 DEF Entered
        <3>1. CASE p = q
            BY <1>2, <1>6, <3>1, Zenon
        <3>2. CASE p # q
            BY <1>6, <2>5, <3>2 DEF Inv, Entered
        <3> QED
            BY <3>1, <3>2
    <2>7. Cached'
        <3> SUFFICES ASSUME NEW p \in Page, p # q
                     PROVE  /\ tlb[p].perm \subseteq Allowed(p)'
                            /\ tlb[p].perm # {} => tlb[p].phys = pte'[p].phys
            BY <1>5, <2>5 DEF Cached
        <3>1. tlb[p].perm \subseteq Allowed(p) /\ (tlb[p].perm # {} => tlb[p].phys = pte[p].phys)
            BY <1>3 DEF Inv, Cached
        <3> QED
            BY <1>6, <3>1
    <2> QED
        BY <1>5, <1>7, <1>8, <1>9, <2>1, <2>4, <2>6, <2>7, Zenon DEF Inv, TypeOK, CallType
<1> QED
    BY <1>5, <1>11, <1>12

\* The end of map_page: the page is invalidated in the TLB.
LEMMA InvPageInv ==
    ASSUME Machine, Inv, InvPage
    PROVE  Inv'
<1>1. todo # << >> /\ todo \in Seq(CallType)
    BY DEF InvPage, Inv, TypeOK, CallType
<1> PICK c \in CallType : c = Head(todo)
    BY <1>1
<1> DEFINE q == c.page
<1>2. todo[1] = c /\ c.inv /\ Len(todo) \in Nat \ {0} /\ DOMAIN todo = 1 .. Len(todo) /\ q \in Page
    BY <1>1 DEF InvPage, CallType
<1>3. /\ UNCHANGED <<live, caps, children, root, pte, runs, halted>>
      /\ tlb' = [tlb EXCEPT ![q] = NoEntry]
      /\ todo' = Tail(todo)
    BY DEF InvPage
<1>4. /\ todo' \in Seq(CallType) /\ DOMAIN todo' = 1 .. (Len(todo) - 1)
      /\ \A i \in DOMAIN todo' : todo'[i] = todo[i + 1]
    BY <1>1, <1>2, <1>3
<1>5. \A i \in DOMAIN todo' : i + 1 \in DOMAIN todo /\ i \in Nat /\ i + 1 # 1
    BY <1>2, <1>4
<1>6. \A i \in DOMAIN todo' : ~todo'[i].inv /\ todo'[i].page # q
    BY <1>2, <1>4, <1>5 DEF Inv, Wanted
<1>7. Wanted'
    <2>1. \A i, j \in DOMAIN todo' : todo'[i].page = todo'[j].page => i = j
        <3>1. \A i, j \in DOMAIN todo' : todo'[i].page = todo'[j].page => i + 1 = j + 1
            BY <1>4, <1>5 DEF Inv, Wanted
        <3> QED
            BY <1>5, <3>1
    <2>2. \A i \in DOMAIN todo' : /\ todo'[i].perm = caps'[todo'[i].page].attr
                                  /\ todo'[i].perm # {} => todo'[i].phys = caps'[todo'[i].page].phys
        BY <1>3, <1>4, <1>5 DEF Inv, Wanted
    <2> QED
        BY <1>6, <2>1, <2>2 DEF Wanted
<1>8. \A p \in Page : Allowed(p)' = Allowed(p) /\ ~Stale(p)' /\ (p # q => ~Stale(p))
    <2>1. \A i \in DOMAIN todo : todo[i].inv => todo[i].page = q
        BY <1>2 DEF Inv, Wanted
    <2> QED
        BY <1>3, <1>6, <2>1 DEF Allowed, Stale
<1>9. \A p \in Page : Written(p)' => Written(p)
    <2> SUFFICES ASSUME NEW p \in Page, Pending(p), ~Stale(p) PROVE Pending(p)'
        BY <1>8 DEF Written, Stale
    <2>1. PICK i \in DOMAIN todo : todo[i].page = p
        BY DEF Pending
    <2>2. i # 1
        BY <1>2, <2>1 DEF Stale
    <2>3. i - 1 \in 1 .. (Len(todo) - 1) /\ (i - 1) + 1 = i
        BY <1>2, <2>2
    <2> QED
        BY <1>4, <2>1, <2>3 DEF Pending
<1>10. Entered'
    BY <1>3, <1>8, <1>9 DEF Inv, Entered
<1>11. tlb' \in [Page -> [phys : Nat, perm : SUBSET Right]]
    BY <1>3, Zenon DEF Inv, TypeOK, NoEntry
<1>12. Cached'
    <2> SUFFICES ASSUME NEW p \in Page
                 PROVE  /\ tlb'[p].perm \subseteq Allowed(p)
                        /\ tlb'[p].perm # {} => tlb'[p].phys = pte[p].phys
        BY <1>3, <1>8 DEF Cached
    <2>1. CASE p = q
        BY <1>2, <1>3, <2>1, Zenon DEF Inv, TypeOK, NoEntry
    <2>2. CASE p # q
        BY <1>2, <1>3, <1>8, <2>2, Zenon DEF Inv, TypeOK, Cached
    <2> QED
        BY <2>1, <2>2
<1>13. Listed'
    BY <1>3 DEF Inv, Listed
<1> QED
    BY <1>3, <1>4, <1>7, <1>10, <1>11, <1>12, <1>13, Zenon DEF Inv, TypeOK, CallType

\* The accesses of the VPE, between any two steps of the kernel.
LEMMA TlbInv ==
    ASSUME Machine, Inv, NEW p \in Page,
           UNCHANGED <<live, caps, children, root, pte, todo, runs, halted>>,
           \/ tlb' = [tlb EXCEPT ![p] = NoEntry]
           \/ tlb' = [tlb EXCEPT ![p] = [phys |-> pte[p].phys, perm |-> pte[p].perm]] /\ root[Table(p)]
    PROVE  Inv'
<1>1. \A x \in Page : Allowed(x)' = Allowed(x) /\ Stale(x)' = Stale(x) /\ Written(x)' = Written(x)
    BY DEF Allowed, Stale, Written, Pending
<1>2. tlb' \in [Page -> [phys : Nat, perm : SUBSET Right]]
    <2>1. NoEntry \in [phys : Nat, perm : SUBSET Right]
        BY DEF NoEntry
    <2>2. [phys |-> pte[p].phys, perm |-> pte[p].perm] \in [phys : Nat, perm : SUBSET Right]
        BY DEF Inv, TypeOK
    <2>3. tlb \in [Page -> [phys : Nat, perm : SUBSET Right]]
        BY DEF Inv, TypeOK
    <2> QED
        BY <2>1, <2>2, <2>3
<1>3. Cached'
    <2> SUFFICES ASSUME NEW x \in Page, ~Stale(x)
                 PROVE  /\ tlb'[x].perm \subseteq Allowed(x)
                        /\ tlb'[x].perm # {} => tlb'[x].phys = pte[x].phys
        BY <1>1 DEF Cached
    <2>1. CASE x = p
        BY <2>1 DEF Inv, TypeOK, NoEntry, Allowed
    <2>2. CASE x # p
        BY <2>2, Zenon DEF Inv, TypeOK, Cached
    <2> QED
        BY <2>1, <2>2
<1>4. Listed' /\ Wanted' /\ Entered'
    BY <1>1 DEF Inv, Listed, Wanted, Entered
<1> QED
    BY <1>2, <1>3, <1>4 DEF Inv, TypeOK

\* DTU::config_pf_remote: the root page table and the TLB of a new VPE are empty.
LEMMA ConfigInv ==
    ASSUME Machine, Inv, config_pf_remote
    PROVE  Inv'
<1>1. /\ todo = << >> /\ todo' = << >> /\ UNCHANGED <<live, caps, children, pte, halted>>
      /\ root' = [t \in DOMAIN root |-> FALSE] /\ tlb' = [p \in Page |-> NoEntry] /\ runs' = TRUE
      /\ \A p \in Page : caps[p] = NoCap
    BY DEF config_pf_remote, Ready, Inv, Listed
<1>2. TypeOK'
    BY <1>1 DEF Inv, TypeOK, NoEntry
<1>3. \A p \in Page : Allowed(p)' = {} /\ caps'[p].attr = {} /\ tlb'[p].perm = {}
    BY <1>1 DEF Inv, TypeOK, Allowed, NoCap, NoEntry
<1>4. Listed' /\ Wanted'
    BY <1>1 DEF Inv, Listed, Wanted
<1>5. Entered' /\ Cached'
    BY <1>3 DEF Entered, Cached
<1> QED
    BY <1>2, <1>4, <1>5 DEF Inv

\* SyscallHandler::reqmem: the memory of a revoked capability is handed out again.
LEMMA ReqMemInv ==
    ASSUME Machine, Inv, NEW m \in DOMAIN MemCaps, reqmem(m)
    PROVE  Inv'
<1>1. /\ UNCHANGED <<caps, children, root, pte, tlb, todo, runs, halted>> /\ live' = live \cup {m}
    BY DEF reqmem
<1>2. \A p \in Page : Allowed(p)' = Allowed(p) /\ Stale(p)' = Stale(p) /\ Written(p)' = Written(p)
    BY <1>1 DEF Allowed, Stale, Written, Pending
<1>3. TypeOK' /\ Listed'
    BY <1>1 DEF Inv, TypeOK, Listed
<1>4. Wanted' /\ Entered' /\ Cached'
    BY <1>1, <1>2 DEF Inv, Wanted, Entered, Cached
<1> QED
    BY <1>3, <1>4 DEF Inv

--------------------------------------------------------------------------
\* Before the first VPE is loaded, nothing is mapped and nothing is left to do.
LEMMA InitInv ==
    ASSUME Machine, Init
    PROVE  Inv
<1>1. TypeOK
    <2>1. NoCap \in [mem : DOMAIN MemCaps \cup {"none"}, phys : Nat, attr : SUBSET Right]
        BY DEF NoCap
    <2>2. Zero \in [phys : Nat, perm : SUBSET Right, i : BOOLEAN]
        BY DEF Zero
    <2>3. NoEntry \in [phys : Nat, perm : SUBSET Right]
        BY DEF NoEntry
    <2>4. caps \in [Page -> [mem : DOMAIN MemCaps \cup {"none"}, phys : Nat, attr : SUBSET Right]]
        BY <2>1 DEF Init
    <2>5. pte \in [Page -> [phys : Nat, perm : SUBSET Right, i : BOOLEAN]]
        BY <2>2 DEF Init
    <2>6. tlb \in [Page -> [phys : Nat, perm : SUBSET Right]]
        BY <2>3 DEF Init
    <2>7. todo \in Seq([page : Page, phys : Nat, perm : SUBSET Right, inv : BOOLEAN])
        BY DEF Init
    <2>8. /\ live \subseteq DOMAIN MemCaps /\ children \in [DOMAIN MemCaps -> SUBSET Page]
          /\ root \in [{Table(p) : p \in Page} -> BOOLEAN] /\ runs \in BOOLEAN
          /\ halted \in BOOLEAN
        BY Zenon DEF Init
    <2> QED
        BY <2>4, <2>5, <2>6, <2>7, <2>8 DEF TypeOK
<1>2. \A p \in Page : Allowed(p) = {} /\ caps[p] = NoCap /\ caps[p].attr = {} /\ tlb[p].perm = {}
    BY DEF Init, Allowed, NoCap, NoEntry, Zero
<1>3. \A p \in Page : caps[p].mem = "none"
    BY <1>2 DEF NoCap
<1>4. Listed
    BY <1>2, <1>3 DEF Init, Listed, Machine
<1>5. Wanted
    BY DEF Init, Wanted
<1>6. Entered /\ Cached
    BY <1>2 DEF Entered, Cached
<1> QED
    BY <1>1, <1>4, <1>5, <1>6 DEF Inv

\* Every step of the kernel and every access of the VPE keeps the invariant.
LEMMA NextInv ==
    ASSUME Machine, Inv, [Next]_vars
    PROVE  Inv'
<1>1. ASSUME NEW m \in DOMAIN MemCaps,
             NEW first \in 0 .. (MemCaps[m].pages - 1), NEW n \in 1 .. MemCaps[m].pages,
             NEW dst \in Page, NEW perms \in Perms, dst + n <= Pages,
             createmap(m, first, n, dst, perms)
      PROVE  Inv'
    BY <1>1, CreateMapInv
<1>2. ASSUME NEW m \in DOMAIN MemCaps, RevokeMem(m) \/ reqmem(m) PROVE Inv'
    BY <1>2, RevokeMemInv, ReqMemInv
<1>3. ASSUME NEW p \in Page, RevokeMap(p) PROVE Inv'
    BY <1>3, RevokeMappingInv, Zenon DEF RevokeMap, Inv, TypeOK
<1>4. ASSUME NEW p \in Page, Evict(p) PROVE Inv'
    BY <1>4, TlbInv, Zenon DEF Evict
<1>5. ASSUME NEW p \in Page, NEW perm \in Right, Access(p, perm) PROVE Inv'
    <2>1. root[Table(p)]
        BY <1>5 DEF Access, Allowed
    <2> QED
        BY <1>5, <2>1, TlbInv, Zenon DEF Access
<1>6. CASE config_pf_remote \/ Exit \/ map_page \/ InvPage
    BY <1>6, ConfigInv, ExitInv, MapPageInv, InvPageInv
<1>7. CASE UNCHANGED vars
    <2>1. \A p \in Page : Allowed(p)' = Allowed(p) /\ Stale(p)' = Stale(p) /\ Written(p)' = Written(p)
        BY <1>7 DEF vars, Allowed, Stale, Written, Pending
    <2>2. TypeOK' /\ Listed'
        BY <1>7 DEF vars, Inv, TypeOK, Listed
    <2>3. Wanted'
        BY <1>7 DEF vars, Inv, Wanted
    <2>4. Entered' /\ Cached'
        BY <1>7, <2>1 DEF vars, Inv, Entered, Cached
    <2> QED
        BY <2>2, <2>3, <2>4 DEF Inv
<1> QED
    BY <1>1, <1>2, <1>3, <1>4, <1>5, <1>6, <1>7 DEF Next

\* When the kernel is done no call is left, so nothing is half done.
LEMMA InvExact ==
    ASSUME Machine, Inv
    PROVE  AddressSpaceExact
<1>1. ASSUME NEW p \in Page, todo = << >>
      PROVE  /\ Allowed(p) = caps[p].attr
             /\ caps[p] # NoCap /\ Allowed(p) # {} => pte[p].phys = caps[p].phys
             /\ tlb[p].perm \subseteq Allowed(p)
             /\ tlb[p].perm # {} => tlb[p].phys = pte[p].phys
    <2>1. Written(p) /\ ~Stale(p)
        BY <1>1 DEF Written, Stale, Pending
    <2> QED
        BY <2>1 DEF Inv, Entered, Cached
<1>2. ASSUME NEW p \in Page, Ready, caps[p] # NoCap
      PROVE  caps[p].mem \in live /\ p \in children[caps[p].mem]
    <2>1. caps[p].mem \in live /\ caps[p].mem \in DOMAIN MemCaps
        BY <1>2 DEF Ready, Inv, Listed, TypeOK
    <2> QED
        BY <1>2, <2>1 DEF Ready, Inv, Listed
<1> QED
    BY <1>1, <1>2, Zenon DEF AddressSpaceExact

\* Whatever is mapped, remapped and revoked, and whatever the VPE accesses in
\* between: whenever no call of map_page is left, page table, TLB and mapping
\* capabilities agree, and a kernel that runs on has no mapping of memory that
\* was revoked (a kernel that revokes such memory does not run on).
THEOREM AddressSpaceIsExact == Machine => (Spec => []AddressSpaceExact)
<1> SUFFICES ASSUME Machine PROVE Spec => []AddressSpaceExact
    OBVIOUS
<1>1. Init => Inv
    BY InitInv
<1>2. Inv /\ [Next]_vars => Inv'
    BY NextInv
<1>3. Inv => AddressSpaceExact
    BY InvExact
<1> QED
    BY <1>1, <1>2, <1>3, PTL DEF Spec
=============================================================================
