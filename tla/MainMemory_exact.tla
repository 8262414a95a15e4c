-------------------------- MODULE MainMemory_exact --------------------------
(***************************************************************************)
(* Whatever the memory modules, the requests and their order: no memory is *)
(* handed out twice, none is lost on a PE with one module, and free areas  *)
(* are always joined, as long as requests can be fulfilled.                *)
(***************************************************************************)
EXTENDS MainMemory, WellFoundedInduction, TLAPS

PieceType == [by : {"reqmem", "AddrSpace", "kernel"}, mod : Module, addr : Nat, size : Nat \ {0}]

\* The configuration the theorem is about.  Of several modules of a PE the first
\* one is not available: Platform::Platform adds those with the file system image
\* and the segments of the kernel before the rest of the PE.
Platform ==
    /\ Module \subseteq Nat /\ Available # {}
    /\ \A i \in Module : Modules[i].addr \in Nat /\ Modules[i].size \in Nat \ {0}
    /\ \A i \in Module : ModuleOf(i) = i \/ ModuleOf(i) \notin Available
    /\ PAGE_SIZE \in Nat \ {0}
    /\ Sizes \subseteq Nat \ {0}
    /\ KernelSize \in Nat \ {0} /\ \E n \in Nat : KernelSize = n * PAGE_SIZE
    /\ Exhaust = FALSE

\* MainMemory::free finds the module by its PE, so nothing of it is lost.
Whole(i) == ModuleOf(i) = i

\* The free areas L and the pieces in use H are apart from each other between lo
\* and hi, and make up all the bytes if the whole is there.
Parts(L, H, lo, hi, whole) ==
    /\ \A a \in L : lo <= a.addr /\ a.addr + a.size <= hi
    /\ \A u \in H : lo <= u.addr /\ u.addr + u.size <= hi
    /\ \A a, b \in L : a = b \/ a.addr + a.size < b.addr \/ b.addr + b.size < a.addr
    /\ \A u, v \in H : u = v \/ u.addr + u.size <= v.addr \/ v.addr + v.size <= u.addr
    /\ \A a \in L, u \in H : a.addr + a.size <= u.addr \/ u.addr + u.size <= a.addr
    /\ whole => \A x \in lo .. (hi - 1) :
                  (\E a \in L : Holds(a, x)) \/ (\E u \in H : Holds(u, x))

Inv ==
    /\ TypeOK
    /\ \A i \in Available : Parts(list[i], Held(i), Modules[i].addr, End(Modules[i]), Whole(i))

\* A nonempty set of numbers has a least element.
LEMMA Least ==
    ASSUME NEW S, S \subseteq Nat, S # {}
    PROVE  \E m \in S : \A n \in S : m <= n
<1>1. IsWellFoundedOn(OpToRel(<, Nat), Nat)
    BY NatLessThanWellFounded, Zenon
<1>2. PICK m \in S : \A n \in S : ~(<<n, m>> \in OpToRel(<, Nat))
    BY <1>1, WFMin, Zenon
<1>3. ASSUME NEW n \in S PROVE m <= n
    <2>1. ~(n < m)
        BY <1>2, Zenon DEF OpToRel
    <2> QED
        BY <2>1
<1> QED
    BY <1>3

\* The first area that MemoryMap::allocate finds is one that is large enough.
LEMMA FirstFits ==
    ASSUME NEW L, L \subseteq AreaType, NEW size \in Nat, Fitting(L, size) # {}
    PROVE  FirstFit(L, size) \in L /\ FirstFit(L, size).size >= size
<1> DEFINE F == Fitting(L, size)
           S == {a.addr : a \in F}
<1>1. F \subseteq AreaType /\ S \subseteq Nat /\ S # {}
    BY DEF Fitting, AreaType
<1>2. PICK m \in S : \A n \in S : m <= n
    BY <1>1, Least, Zenon
<1>3. \E a \in F : \A b \in F : a.addr <= b.addr
    BY <1>2
<1>4. FirstFit(L, size) \in F
    BY <1>3 DEF FirstFit
<1> QED
    BY <1>4 DEF Fitting

\* Taking the front of a free area, or a piece within one, keeps the parts: the
\* area a is replaced by what is left of it in front of and behind the piece.
LEMMA TakeParts ==
    ASSUME NEW L, L \subseteq AreaType, NEW H, H \subseteq PieceType,
           NEW lo \in Nat, NEW hi \in Nat, NEW whole, Parts(L, H, lo, hi, whole),
           NEW a \in L, NEW u \in PieceType,
           a.addr <= u.addr, u.addr + u.size <= a.addr + a.size
    PROVE  LET front == Some(Area(a.addr, u.addr - a.addr))
               rest == Some(Area(u.addr + u.size, (a.addr + a.size) - (u.addr + u.size)))
           IN  /\ (L \ {a}) \cup front \cup rest \subseteq AreaType
               /\ Parts((L \ {a}) \cup front \cup rest, H \cup {u}, lo, hi, whole)
<1> DEFINE front == Some(Area(a.addr, u.addr - a.addr))
           rest == Some(Area(u.addr + u.size, (a.addr + a.size) - (u.addr + u.size)))
           M == (L \ {a}) \cup front \cup rest
           G == H \cup {u}
<1>1. /\ a.addr \in Nat /\ a.size \in Nat \ {0} /\ u.addr \in Nat /\ u.size \in Nat \ {0}
      /\ \A b \in L : b.addr \in Nat /\ b.size \in Nat \ {0}
      /\ \A v \in H : v.addr \in Nat /\ v.size \in Nat \ {0}
    BY DEF AreaType, PieceType
<1>2. \A f \in front : f \in AreaType /\ f.addr = a.addr /\ f.addr + f.size = u.addr
    BY <1>1 DEF Some, Area, AreaType
<1>3. \A r \in rest : r \in AreaType /\ r.addr = u.addr + u.size
                      /\ r.addr + r.size = a.addr + a.size
    BY <1>1 DEF Some, Area, AreaType
<1>4. M \subseteq AreaType
    BY <1>2, <1>3
<1>5. \A f, g \in front : f = g
    BY DEF Some
<1>6. \A f, g \in rest : f = g
    BY DEF Some
<1>7. u.addr # a.addr => Area(a.addr, u.addr - a.addr) \in front
    <2>1. Area(a.addr, u.addr - a.addr).size = u.addr - a.addr
        BY DEF Area
    <2> QED
        BY <1>1, <2>1 DEF Some
<1>8. u.addr + u.size # a.addr + a.size
        => Area(u.addr + u.size, (a.addr + a.size) - (u.addr + u.size)) \in rest
    <2>1. Area(u.addr + u.size, (a.addr + a.size) - (u.addr + u.size)).size
            = (a.addr + a.size) - (u.addr + u.size)
        BY DEF Area
    <2> QED
        BY <1>1, <2>1 DEF Some
<1>9. \A b \in M : b.addr \in Nat /\ b.size \in Nat \ {0}
    BY <1>4 DEF AreaType
<1> HIDE DEF front, rest
<1>10. \A b \in L \ {a} : b.addr + b.size < a.addr \/ a.addr + a.size < b.addr
    BY <1>1 DEF Parts
<1>11. /\ \A b \in L : lo <= b.addr /\ b.addr + b.size <= hi
       /\ \A v \in H : lo <= v.addr /\ v.addr + v.size <= hi
       /\ \A b, c \in L : b = c \/ b.addr + b.size < c.addr \/ c.addr + c.size < b.addr
       /\ \A v, w \in H : v = w \/ v.addr + v.size <= w.addr \/ w.addr + w.size <= v.addr
       /\ \A b \in L, v \in H : b.addr + b.size <= v.addr \/ v.addr + v.size <= b.addr
    BY DEF Parts
<1>12. \A b \in M : lo <= b.addr /\ b.addr + b.size <= hi
    BY <1>1, <1>2, <1>3, <1>9, <1>11
<1>13. \A v \in G : lo <= v.addr /\ v.addr + v.size <= hi
    BY <1>1, <1>11
<1>14. \A b, c \in M : b = c \/ b.addr + b.size < c.addr \/ c.addr + c.size < b.addr
    BY <1>1, <1>2, <1>3, <1>5, <1>6, <1>9, <1>10, <1>11
<1>15. \A v, w \in G : v = w \/ v.addr + v.size <= w.addr \/ w.addr + w.size <= v.addr
    BY <1>1, <1>11
<1>16. \A b \in M, v \in G : b.addr + b.size <= v.addr \/ v.addr + v.size <= b.addr
    BY <1>1, <1>2, <1>3, <1>9, <1>10, <1>11
<1>17. ASSUME whole, NEW x \in lo .. (hi - 1)
       PROVE  (\E b \in M : Holds(b, x)) \/ (\E v \in G : Holds(v, x))
    <2>1. (\E b \in L : Holds(b, x)) \/ (\E v \in H : Holds(v, x))
        BY <1>17 DEF Parts
    <2>2. CASE \E v \in H : Holds(v, x)
        BY <2>2
    <2>3. CASE \E b \in L \ {a} : Holds(b, x)
        BY <2>3
    <2>4. CASE Holds(a, x)
        <3>1. CASE x < u.addr
            BY <1>1, <1>2, <1>7, <2>4, <3>1 DEF Holds
        <3>2. CASE u.addr + u.size <= x
            BY <1>1, <1>3, <1>8, <2>4, <3>2 DEF Holds
        <3>3. CASE u.addr <= x /\ x < u.addr + u.size
            BY <3>3 DEF Holds
        <3> QED
            BY <1>1, <3>1, <3>2, <3>3
    <2> QED
        BY <2>1, <2>2, <2>3, <2>4
<1>18. Parts(M, G, lo, hi, whole)
    BY <1>12, <1>13, <1>14, <1>15, <1>16, <1>17 DEF Parts
<1> QED
    BY <1>4, <1>18 DEF front, rest

\* MemoryMap::allocate keeps the parts, with the piece it returns in use.
LEMMA AllocateParts ==
    ASSUME NEW L, L \subseteq AreaType, NEW H, H \subseteq PieceType,
           NEW lo \in Nat, NEW hi \in Nat, NEW whole, Parts(L, H, lo, hi, whole),
           NEW by \in {"reqmem", "AddrSpace", "kernel"}, NEW i \in Module,
           NEW size \in Nat \ {0}, Fitting(L, size) # {}
    PROVE  LET u == Piece(by, i, address(L, size), size)
           IN  /\ u \in PieceType
               /\ allocate(L, size) \subseteq AreaType
               /\ Parts(allocate(L, size), H \cup {u}, lo, hi, whole)
<1> DEFINE a == FirstFit(L, size)
           u == Piece(by, i, address(L, size), size)
<1>1. a \in L /\ a.size >= size
    BY FirstFits
<1>2. a.addr \in Nat /\ a.size \in Nat \ {0}
    BY <1>1 DEF AreaType
<1>3. u \in PieceType /\ u.addr = a.addr /\ u.size = size
    BY <1>1, <1>2 DEF Piece, PieceType, address
<1>4. allocate(L, size) = (L \ {a}) \cup Some(Area(a.addr + size, a.size - size))
    BY DEF allocate
<1> HIDE DEF a, u
<1>5. Some(Area(a.addr, u.addr - a.addr)) = {}
    BY <1>2, <1>3 DEF Some, Area
<1>6. (a.addr + a.size) - (u.addr + u.size) = a.size - size
    BY <1>2, <1>3
<1>7. a.addr <= u.addr /\ u.addr + u.size <= a.addr + a.size
    BY <1>1, <1>2, <1>3
<1>8. LET M == (L \ {a}) \cup {} \cup Some(Area(a.addr + size, a.size - size))
      IN  M \subseteq AreaType /\ Parts(M, H \cup {u}, lo, hi, whole)
    BY <1>1, <1>3, <1>5, <1>6, <1>7, TakeParts
<1>9. allocate(L, size) = (L \ {a}) \cup {} \cup Some(Area(a.addr + size, a.size - size))
    BY <1>4
<1> QED
    BY <1>3, <1>8, <1>9 DEF u

\* What MemoryMap::free joins are areas that touch the returned one.
LEMMA FreeTyped ==
    ASSUME NEW L, L \subseteq AreaType, NEW addr \in Nat, NEW size \in Nat \ {0}
    PROVE  \E lo \in Nat, hi \in Nat, p \in SUBSET L, n \in SUBSET L :
              /\ p = {a \in Before(L, addr) : a.addr + a.size = addr}
              /\ n = {a \in Behind(L, addr) : addr + size = a.addr}
              /\ IF p = {} THEN lo = addr ELSE \E a \in p : lo = a.addr
              /\ IF n = {} THEN hi = addr + size ELSE \E a \in n : hi = a.addr + a.size
              /\ lo <= addr /\ addr + size <= hi
              /\ free(L, addr, size) = (L \ (p \cup n)) \cup {Area(lo, hi - lo)}
              /\ free(L, addr, size) \subseteq AreaType
<1> DEFINE p == {a \in Before(L, addr) : End(a) = addr}
           n == {a \in Behind(L, addr) : addr + size = a.addr}
           lo == IF p = {} THEN addr ELSE (CHOOSE a \in p : TRUE).addr
           hi == IF n = {} THEN addr + size ELSE End(CHOOSE a \in n : TRUE)
<1>1. p \subseteq L /\ n \subseteq L
    BY DEF Before, Behind
<1>2. \A a \in L : a.addr \in Nat /\ a.size \in Nat \ {0}
    BY DEF AreaType
<1>3. p = {a \in Before(L, addr) : a.addr + a.size = addr}
    BY DEF End
<1>4. IF p = {} THEN lo = addr ELSE \E a \in p : lo = a.addr
    BY Zenon
<1>5. IF n = {} THEN hi = addr + size ELSE \E a \in n : hi = a.addr + a.size
    BY Zenon DEF End
<1>6. \A a \in p : a.addr < addr
    BY DEF Before
<1>7. free(L, addr, size) = (L \ (p \cup n)) \cup {Area(lo, hi - lo)}
    BY DEF free
<1> HIDE DEF lo, hi
<1>8. lo \in Nat /\ lo <= addr
    BY <1>1, <1>2, <1>4, <1>6
<1>9. \A a \in n : a.addr = addr + size
    OBVIOUS
<1>10. hi \in Nat /\ addr + size <= hi
    <2> HIDE DEF n
    <2> QED
        BY <1>1, <1>2, <1>5, <1>9
<1>11. Area(lo, hi - lo) \in AreaType
    BY <1>8, <1>10 DEF Area, AreaType
<1> HIDE DEF p
<1>12. free(L, addr, size) \subseteq AreaType
    BY <1>7, <1>11
<1> QED
    BY <1>1, <1>3, <1>4, <1>5, <1>7, <1>8, <1>10, <1>12, Zenon

\* MemoryMap::free keeps the parts, with the piece u no longer in use.
LEMMA FreeParts ==
    ASSUME NEW L, L \subseteq AreaType, NEW H, H \subseteq PieceType,
           NEW lo \in Nat, NEW hi \in Nat, NEW whole, Parts(L, H, lo, hi, whole), NEW u \in H
    PROVE  /\ free(L, u.addr, u.size) \subseteq AreaType
           /\ Parts(free(L, u.addr, u.size), H \ {u}, lo, hi, whole)
<1>1. /\ u.addr \in Nat /\ u.size \in Nat \ {0}
      /\ \A a \in L : a.addr \in Nat /\ a.size \in Nat \ {0}
      /\ \A v \in H : v.addr \in Nat /\ v.size \in Nat \ {0}
    BY DEF AreaType, PieceType
<1>2. PICK s \in Nat, e \in Nat, p \in SUBSET L, n \in SUBSET L :
        /\ p = {a \in Before(L, u.addr) : a.addr + a.size = u.addr}
        /\ n = {a \in Behind(L, u.addr) : u.addr + u.size = a.addr}
        /\ IF p = {} THEN s = u.addr ELSE \E a \in p : s = a.addr
        /\ IF n = {} THEN e = u.addr + u.size ELSE \E a \in n : e = a.addr + a.size
        /\ s <= u.addr /\ u.addr + u.size <= e
        /\ free(L, u.addr, u.size) = (L \ (p \cup n)) \cup {Area(s, e - s)}
        /\ free(L, u.addr, u.size) \subseteq AreaType
    BY <1>1, FreeTyped, Zenon
<1>3. /\ \A a \in L : lo <= a.addr /\ a.addr + a.size <= hi
      /\ \A v \in H : lo <= v.addr /\ v.addr + v.size <= hi
      /\ \A a, b \in L : a = b \/ a.addr + a.size < b.addr \/ b.addr + b.size < a.addr
      /\ \A v, w \in H : v = w \/ v.addr + v.size <= w.addr \/ w.addr + w.size <= v.addr
      /\ \A a \in L, v \in H : a.addr + a.size <= v.addr \/ v.addr + v.size <= a.addr
    BY DEF Parts
<1>4. \A a \in L : a.addr + a.size = u.addr => a \in p
    BY <1>1, <1>2, <1>3 DEF Before
<1>5. \A a \in L : u.addr + u.size = a.addr => a \in n
    BY <1>1, <1>2, <1>3 DEF Behind
<1>6. /\ \A a \in p : a \in L /\ a.addr + a.size = u.addr
      /\ \A a \in n : a \in L /\ u.addr + u.size = a.addr
    BY <1>2
<1>7. \A a \in p : a.addr = s
    BY <1>1, <1>2, <1>3, <1>6
<1>8. \A a \in n : a.addr + a.size = e
    BY <1>1, <1>2, <1>3, <1>6
<1> DEFINE c == Area(s, e - s)
           M == (L \ (p \cup n)) \cup {c}
           G == H \ {u}
<1>9. c.addr = s /\ c.size = e - s /\ c.addr + c.size = e
    BY <1>2 DEF Area
<1> HIDE DEF c
<1>10. \A a \in L \ (p \cup n) : a.addr + a.size < s \/ e < a.addr
    <2> SUFFICES ASSUME NEW a \in L \ (p \cup n) PROVE a.addr + a.size < s \/ e < a.addr
        OBVIOUS
    <2>1. a.addr + a.size < u.addr \/ u.addr + u.size < a.addr
        BY <1>1, <1>3, <1>4, <1>5
    <2>2. p = {} \/ \E b \in p : b.addr = s /\ b \in L /\ b # a /\ b.addr + b.size = u.addr
        BY <1>2, <1>6
    <2>3. n = {} \/ \E b \in n : b.addr + b.size = e /\ b \in L /\ b # a /\ u.addr + u.size = b.addr
        BY <1>2, <1>6
    <2>4. CASE a.addr + a.size < u.addr
        <3>1. CASE p = {}
            BY <1>2, <2>4, <3>1
        <3>2. CASE p # {}
            <4>1. PICK b \in p : b.addr = s /\ b \in L /\ b # a /\ b.addr + b.size = u.addr
                BY <2>2, <3>2
            <4>2. a.addr + a.size < b.addr \/ b.addr + b.size < a.addr
                BY <1>3, <4>1
            <4> QED
                BY <1>1, <2>4, <4>1, <4>2
        <3> QED
            BY <3>1, <3>2
    <2>5. CASE u.addr + u.size < a.addr
        <3>1. CASE n = {}
            BY <1>2, <2>5, <3>1
        <3>2. CASE n # {}
            <4>1. PICK b \in n : b.addr + b.size = e /\ b \in L /\ b # a /\ u.addr + u.size = b.addr
                BY <2>3, <3>2
            <4>2. a.addr + a.size < b.addr \/ b.addr + b.size < a.addr
                BY <1>3, <4>1
            <4> QED
                BY <1>1, <2>5, <4>1, <4>2
        <3> QED
            BY <3>1, <3>2
    <2> QED
        BY <2>1, <2>4, <2>5
<1>11. lo <= s /\ e <= hi
    BY <1>1, <1>2, <1>3
<1>12. \A v \in G : v.addr + v.size <= s \/ e <= v.addr
    <2> SUFFICES ASSUME NEW v \in G PROVE v.addr + v.size <= s \/ e <= v.addr
        OBVIOUS
    <2>1. v.addr + v.size <= u.addr \/ u.addr + u.size <= v.addr
        BY <1>3
    <2>2. s = u.addr \/ \E b \in L : b.addr = s /\ b.addr + b.size = u.addr
        BY <1>2, <1>6
    <2>3. e = u.addr + u.size \/ \E b \in L : b.addr + b.size = e /\ u.addr + u.size = b.addr
        BY <1>2, <1>6
    <2>4. CASE v.addr + v.size <= u.addr
        BY <1>1, <1>3, <2>2, <2>4
    <2>5. CASE u.addr + u.size <= v.addr
        BY <1>1, <1>3, <2>3, <2>5
    <2> QED
        BY <2>1, <2>4, <2>5
<1>13. \A a \in M : lo <= a.addr /\ a.addr + a.size <= hi
    BY <1>3, <1>9, <1>11
<1>14. \A v \in G : lo <= v.addr /\ v.addr + v.size <= hi
    BY <1>3
<1>15. \A a, b \in M : a = b \/ a.addr + a.size < b.addr \/ b.addr + b.size < a.addr
    BY <1>3, <1>9, <1>10
<1>16. \A v, w \in G : v = w \/ v.addr + v.size <= w.addr \/ w.addr + w.size <= v.addr
    BY <1>3
<1>17. \A a \in M, v \in G : a.addr + a.size <= v.addr \/ v.addr + v.size <= a.addr
    BY <1>3, <1>9, <1>12
<1>18. ASSUME whole, NEW x \in lo .. (hi - 1)
       PROVE  (\E a \in M : Holds(a, x)) \/ (\E v \in G : Holds(v, x))
    <2>1. (\E a \in L : Holds(a, x)) \/ (\E v \in H : Holds(v, x))
        BY <1>18 DEF Parts
    <2>2. CASE s <= x /\ x < e
        BY <1>9, <2>2 DEF Holds
    <2>3. CASE ~(s <= x /\ x < e)
        <3>1. \A a \in p \cup n : ~Holds(a, x)
            BY <1>1, <1>2, <1>6, <1>7, <1>8, <2>3 DEF Holds
        <3>2. ~Holds(u, x)
            BY <1>1, <1>2, <2>3 DEF Holds
        <3> QED
            BY <2>1, <3>1, <3>2
    <2> QED
        BY <2>2, <2>3
<1>19. Parts(M, G, lo, hi, whole)
    BY <1>13, <1>14, <1>15, <1>16, <1>17, <1>18 DEF Parts
<1> QED
    BY <1>2, <1>19 DEF c

\* The page boundaries around an address.
LEMMA Rounding ==
    ASSUME Platform, NEW x \in Nat
    PROVE  /\ \E q \in Nat : round_dn(x) = q * PAGE_SIZE
           /\ \E q \in Nat : round_up(x) = q * PAGE_SIZE
           /\ round_dn(x) <= x /\ x < round_dn(x) + PAGE_SIZE
           /\ x <= round_up(x)
<1>1. PAGE_SIZE \in Nat /\ PAGE_SIZE > 0
    BY DEF Platform
<1>2. ASSUME NEW y \in Nat
      PROVE  /\ y \div PAGE_SIZE \in Nat
             /\ (y \div PAGE_SIZE) * PAGE_SIZE <= y
             /\ y < (y \div PAGE_SIZE) * PAGE_SIZE + PAGE_SIZE
    <2>1. y \div PAGE_SIZE \in Nat
        BY <1>1
    <2>2. y = PAGE_SIZE * (y \div PAGE_SIZE) + (y % PAGE_SIZE)
        BY <1>1
    <2>3. y % PAGE_SIZE \in 0 .. (PAGE_SIZE - 1)
        BY <1>1
    <2>4. PAGE_SIZE * (y \div PAGE_SIZE) = (y \div PAGE_SIZE) * PAGE_SIZE
        BY <1>1, <2>1
    <2> QED
        BY <1>1, <2>1, <2>2, <2>3, <2>4
<1>3. x + PAGE_SIZE - 1 \in Nat
    BY <1>1
<1> QED
    BY <1>1, <1>2, <1>3 DEF round_dn, round_up

\* Of two numbers of pages, the larger number of bytes has more pages.
LEMMA MorePages ==
    ASSUME NEW P \in Nat \ {0}, NEW m \in Nat, NEW n \in Nat, m * P < n * P + P
    PROVE  m * P <= n * P
<1>1. CASE m <= n
    <2>1. PICK d \in Nat : n = m + d
        BY <1>1
    <2>2. n * P = m * P + d * P /\ d * P >= 0
        BY <2>1
    <2> QED
        BY <2>2
<1>2. CASE n < m
    <2>1. PICK d \in Nat : m = n + 1 + d
        BY <1>2
    <2>2. m * P = n * P + P + d * P /\ d * P >= 0
        BY <2>1
    <2> QED
        BY <2>2
<1> QED
    BY <1>1, <1>2

\* MemoryMap::detach keeps the parts, with the memory of the new kernel in use.
LEMMA DetachParts ==
    ASSUME Platform,
           NEW a \in AreaType, NEW H, H \subseteq PieceType,
           NEW lo \in Nat, NEW hi \in Nat, NEW whole, Parts({a}, H, lo, hi, whole),
           NEW i \in Module, Room(a, KernelSize)
    PROVE  LET u == Piece("kernel", i, detached(a, KernelSize), KernelSize)
           IN  /\ u \in PieceType
               /\ detach(a, KernelSize) \subseteq AreaType
               /\ Parts(detach(a, KernelSize), H \cup {u}, lo, hi, whole)
<1> DEFINE u == Piece("kernel", i, detached(a, KernelSize), KernelSize)
           top == round_dn(End(a))
<1>1. a.addr \in Nat /\ a.size \in Nat \ {0} /\ End(a) = a.addr + a.size /\ End(a) \in Nat
    BY DEF AreaType, End
<1>2. PAGE_SIZE \in Nat \ {0} /\ KernelSize \in Nat \ {0}
    BY DEF Platform
<1>3. PICK k \in Nat : KernelSize = k * PAGE_SIZE
    BY DEF Platform
<1>4. PICK q \in Nat : top = q * PAGE_SIZE
    BY <1>1, Rounding
<1>5. PICK r \in Nat : round_up(a.addr) = r * PAGE_SIZE
    BY <1>1, Rounding
<1>6. top <= End(a) /\ End(a) < top + PAGE_SIZE /\ a.addr <= round_up(a.addr) /\ top \in Nat
    <2>1. top <= End(a) /\ End(a) < top + PAGE_SIZE /\ a.addr <= round_up(a.addr)
        BY <1>1, Rounding
    <2>2. top \in Nat
        BY <1>2, <1>4
    <2> QED
        BY <2>1, <2>2
<1>7. round_up(a.addr) \in Nat
    BY <1>2, <1>5
<1>8. round_up(a.addr) + KernelSize <= End(a)
    BY <1>1, <1>2, <1>7 DEF Room
<1>9. round_up(a.addr) + KernelSize = (r + k) * PAGE_SIZE
    BY <1>2, <1>3, <1>5
<1>10. (r + k) * PAGE_SIZE <= q * PAGE_SIZE
    <2>1. (r + k) * PAGE_SIZE < q * PAGE_SIZE + PAGE_SIZE
        BY <1>1, <1>2, <1>4, <1>6, <1>8, <1>9
    <2> QED
        BY <1>2, <2>1, MorePages
<1>11. a.addr + KernelSize <= top
    BY <1>1, <1>2, <1>4, <1>6, <1>7, <1>9, <1>10
<1> HIDE DEF top
<1>12. /\ u \in PieceType /\ u.size = KernelSize
       /\ u.addr = top - KernelSize /\ u.addr + u.size = top
    BY <1>1, <1>2, <1>6, <1>11 DEF Piece, PieceType, detached, top
<1>13. detach(a, KernelSize) = Some(Area(a.addr, u.addr - a.addr))
          \cup Some(Area(u.addr + u.size, (a.addr + a.size) - (u.addr + u.size)))
    BY <1>1, <1>12 DEF detach, detached, top
<1> HIDE DEF u
<1>14. a.addr <= u.addr /\ u.addr + u.size <= a.addr + a.size
    BY <1>1, <1>2, <1>6, <1>11, <1>12
<1> DEFINE M == ({a} \ {a}) \cup Some(Area(a.addr, u.addr - a.addr))
          \cup Some(Area(u.addr + u.size, (a.addr + a.size) - (u.addr + u.size)))
<1>15. M \subseteq AreaType /\ Parts(M, H \cup {u}, lo, hi, whole)
    BY <1>12, <1>14, TakeParts, Zenon
<1>16. detach(a, KernelSize) = M
    BY <1>13
<1> HIDE DEF M
<1> QED
    BY <1>12, <1>15, <1>16 DEF u

\* The parts say that no byte is both free and in use.
LEMMA PartsOnce ==
    ASSUME Platform, Inv
    PROVE  HandedOutOnce /\ Merged
<1> SUFFICES ASSUME NEW i \in Available
    PROVE  /\ \A x \in Modules[i].addr .. (End(Modules[i]) - 1) :
                /\ ~((\E a \in list[i] : Holds(a, x)) /\ (\E u \in Held(i) : Holds(u, x)))
                /\ ModuleOf(i) = i =>
                     (\E a \in list[i] : Holds(a, x)) \/ (\E u \in Held(i) : Holds(u, x))
           /\ \A u, v \in Held(i) : u = v \/ End(u) <= v.addr \/ End(v) <= u.addr
           /\ \A u \in Held(i) : Modules[i].addr <= u.addr /\ End(u) <= End(Modules[i])
           /\ \A a \in list[i] : Modules[i].addr <= a.addr /\ End(a) <= End(Modules[i])
           /\ \A a, b \in list[i] : a = b \/ End(a) < b.addr \/ End(b) < a.addr
    BY Zenon DEF HandedOutOnce, Merged
<1>1. Parts(list[i], Held(i), Modules[i].addr, End(Modules[i]), Whole(i))
    BY DEF Inv
<1>2. /\ \A a \in list[i] : a.addr \in Nat /\ a.size \in Nat \ {0}
      /\ \A u \in Held(i) : u.addr \in Nat /\ u.size \in Nat \ {0}
    BY DEF Inv, TypeOK, AreaType, Held, Available
<1>3. Modules[i].addr \in Nat /\ End(Modules[i]) \in Nat
    BY DEF Platform, Available, End
<1>4. ASSUME NEW x \in Modules[i].addr .. (End(Modules[i]) - 1),
             NEW a \in list[i], NEW u \in Held(i), Holds(a, x), Holds(u, x)
      PROVE  FALSE
    <2>1. a.addr + a.size <= u.addr \/ u.addr + u.size <= a.addr
        BY <1>1 DEF Parts
    <2> QED
        BY <1>2, <1>3, <1>4, <2>1 DEF Holds
<1>5. ASSUME NEW x \in Modules[i].addr .. (End(Modules[i]) - 1), ModuleOf(i) = i
      PROVE  (\E a \in list[i] : Holds(a, x)) \/ (\E u \in Held(i) : Holds(u, x))
    BY <1>1, <1>5 DEF Parts, Whole
<1>6. /\ \A u, v \in Held(i) : u = v \/ End(u) <= v.addr \/ End(v) <= u.addr
      /\ \A u \in Held(i) : Modules[i].addr <= u.addr /\ End(u) <= End(Modules[i])
      /\ \A a \in list[i] : Modules[i].addr <= a.addr /\ End(a) <= End(Modules[i])
      /\ \A a, b \in list[i] : a = b \/ End(a) < b.addr \/ End(b) < a.addr
    BY <1>1 DEF Parts, End
<1> QED
    BY <1>4, <1>5, <1>6, Zenon

\* The initial memory is one free area per module.
LEMMA InitInv ==
    ASSUME Platform, Init
    PROVE  Inv
<1>1. \A i \in Module : Modules[i].addr \in Nat /\ Modules[i].size \in Nat \ {0}
    BY DEF Platform
<1>2. TypeOK
    BY <1>1 DEF Init, TypeOK, AreaType, Area
<1>3. ASSUME NEW i \in Available
      PROVE  Parts(list[i], Held(i), Modules[i].addr, End(Modules[i]), Whole(i))
    <2>1. i \in Module /\ Modules[i].addr \in Nat /\ Modules[i].size \in Nat \ {0}
        BY <1>1 DEF Available
    <2>2. Held(i) = {} /\ list[i] = {Area(Modules[i].addr, Modules[i].size)}
        BY <2>1 DEF Init, Held
    <2> QED
        BY <2>1, <2>2 DEF Parts, Area, Holds, End
<1> QED
    BY <1>2, <1>3 DEF Inv

\* A step that changes the areas and the pieces of one module by preserving its
\* parts preserves the invariant.
LEMMA OneModule ==
    ASSUME Platform, Inv, NEW i \in Module, NEW l, NEW S,
           list' = [list EXCEPT ![i] = l], used' = S,
           l \subseteq AreaType, S \subseteq PieceType,
           \A j \in Available : j # i => {u \in S : u.mod = j} = Held(j),
           i \in Available => Parts(l, {u \in S : u.mod = i}, Modules[i].addr, End(Modules[i]), Whole(i))
    PROVE  Inv'
<1>1. list \in [Module -> SUBSET AreaType]
    BY DEF Inv, TypeOK
<1>2. TypeOK'
    BY <1>1 DEF TypeOK, PieceType
<1>3. ASSUME NEW j \in Available
      PROVE  Parts(list[j], Held(j), Modules[j].addr, End(Modules[j]), Whole(j))'
    <2>1. j \in Module
        BY DEF Available
    <2>2. Held(j)' = {u \in S : u.mod = j}
        BY DEF Held
    <2>3. CASE j = i
        <3>1. list'[j] = l
            BY <1>1, <2>1, <2>3
        <3> QED
            BY <2>2, <2>3, <3>1 DEF Parts, Holds
    <2>4. CASE j # i
        <3>1. list'[j] = list[j] /\ Held(j)' = Held(j)
            BY <1>1, <2>1, <2>2, <2>4
        <3>2. Parts(list[j], Held(j), Modules[j].addr, End(Modules[j]), Whole(j))
            BY DEF Inv
        <3> QED
            BY <3>1, <3>2 DEF Parts, Holds
    <2> QED
        BY <2>3, <2>4
<1> QED
    BY <1>2, <1>3 DEF Inv

\* The module that MainMemory::allocate asks exists.
LEMMA FirstAvailable ==
    ASSUME Platform
    PROVE  First \in Available
<1>1. Available \subseteq Nat /\ Available # {}
    BY Zenon DEF Platform, Available
<1>2. \E i \in Available : \A j \in Available : i <= j
    BY <1>1, Least, Zenon
<1> QED
    BY <1>2 DEF First

\* A module begins and ends at an address.
LEMMA Bounds ==
    ASSUME Platform
    PROVE  \A i \in Module : Modules[i].addr \in Nat /\ End(Modules[i]) \in Nat
BY DEF Platform, End

\* MainMemory::allocate.
LEMMA AllocateInv ==
    ASSUME Platform, Inv, NEW by \in {"reqmem", "AddrSpace", "kernel"},
           NEW size \in Nat \ {0}, Allocate(by, size)
    PROVE  Inv'
<1> DEFINE i == First
           u == Piece(by, i, address(list[i], size), size)
           S == used \cup {u}
<1>1. i \in Available /\ i \in Module
    BY FirstAvailable DEF Available
<1>2. Modules[i].addr \in Nat /\ End(Modules[i]) \in Nat
    BY <1>1, Bounds
<1>3. list[i] \subseteq AreaType /\ used \subseteq PieceType /\ Held(i) \subseteq PieceType
    BY <1>1 DEF Inv, TypeOK, PieceType, Held
<1>4. Parts(list[i], Held(i), Modules[i].addr, End(Modules[i]), Whole(i))
    BY <1>1 DEF Inv
<1>5. Fitting(list[i], size) # {}
    BY DEF Allocate, Platform
<1>6. u.mod = i
    BY DEF Piece
<1>7. /\ u \in PieceType
      /\ allocate(list[i], size) \subseteq AreaType
      /\ Parts(allocate(list[i], size), Held(i) \cup {u}, Modules[i].addr, End(Modules[i]), Whole(i))
    BY <1>1, <1>2, <1>3, <1>4, <1>5, AllocateParts, Zenon
<1>8. /\ used' = S
      /\ list' = [list EXCEPT ![i] = allocate(list[i], size)]
    BY <1>1 DEF Allocate, Inv, TypeOK
<1> HIDE DEF i, u
<1>9. {v \in S : v.mod = i} = Held(i) \cup {u}
    BY <1>6 DEF Held
<1>10. \A j \in Available : j # i => {v \in S : v.mod = j} = Held(j)
    BY <1>6 DEF Held
<1>11. S \subseteq PieceType
    BY <1>3, <1>7
<1>12. Parts(allocate(list[i], size), {v \in S : v.mod = i}, Modules[i].addr, End(Modules[i]), Whole(i))
    BY <1>7, <1>9, Zenon
<1> HIDE DEF S
<1> QED
    BY <1>1, <1>7, <1>8, <1>10, <1>11, <1>12, OneModule, Zenon

\* MainMemory::free, if the memory goes back to the module it is from.
LEMMA ReleaseInv ==
    ASSUME Platform, Inv, NEW u \in used, NEW i \in Module, Release(u, i), i = u.mod
    PROVE  Inv'
<1> DEFINE l == free(list[i], u.addr, u.size)
           S == used \ {u}
<1>1. list[i] \subseteq AreaType /\ used \subseteq PieceType /\ Held(i) \subseteq PieceType
    BY DEF Inv, TypeOK, PieceType, Held
<1>2. u.addr \in Nat /\ u.size \in Nat \ {0}
    BY <1>1 DEF PieceType
<1>3. l \subseteq AreaType
    BY <1>1, <1>2, FreeTyped, Zenon
<1>4. used' = S /\ list' = [list EXCEPT ![i] = l]
    BY DEF Release, Inv, TypeOK
<1>5. \A j \in Available : j # i => {v \in S : v.mod = j} = Held(j)
    BY DEF Held
<1>6. ASSUME i \in Available
      PROVE  Parts(l, {v \in S : v.mod = i}, Modules[i].addr, End(Modules[i]), Whole(i))
    <2>1. Parts(list[i], Held(i), Modules[i].addr, End(Modules[i]), Whole(i)) /\ u \in Held(i)
        BY <1>6, Zenon DEF Inv, Held
    <2>2. Modules[i].addr \in Nat /\ End(Modules[i]) \in Nat
        BY Bounds
    <2>3. Parts(l, Held(i) \ {u}, Modules[i].addr, End(Modules[i]), Whole(i))
        BY <1>1, <2>1, <2>2, FreeParts, Zenon
    <2>4. {v \in S : v.mod = i} = Held(i) \ {u}
        BY DEF Held
    <2> QED
        BY <2>3, <2>4
<1>7. S \subseteq PieceType
    BY <1>1
<1> HIDE DEF l, S
<1> QED
    BY <1>3, <1>4, <1>5, <1>6, <1>7, OneModule, Zenon DEF S

\* MainMemory::free, if the memory goes to the first module of the PE and is from
\* another one: it is no longer in use, and not free where it was taken from.
LEMMA LoseInv ==
    ASSUME Platform, Inv, NEW u \in used, NEW i \in Module \ Available, Release(u, i),
           ~Whole(u.mod)
    PROVE  Inv'
<1> DEFINE l == free(list[i], u.addr, u.size)
<1>1. list \in [Module -> SUBSET AreaType] /\ used \subseteq PieceType
    BY DEF Inv, TypeOK, PieceType
<1>2. u.addr \in Nat /\ u.size \in Nat \ {0}
    BY <1>1 DEF PieceType
<1>3. list[i] \subseteq AreaType
    BY <1>1
<1>4. l \subseteq AreaType
    BY <1>2, <1>3, FreeTyped, Zenon
<1>5. used' = used \ {u} /\ list' = [list EXCEPT ![i] = l]
    BY DEF Release, Inv, TypeOK
<1> HIDE DEF l
<1>6. TypeOK'
    BY <1>1, <1>4, <1>5 DEF TypeOK, PieceType
<1>7. ASSUME NEW j \in Available
      PROVE  Parts(list[j], Held(j), Modules[j].addr, End(Modules[j]), Whole(j))'
    <2>1. list'[j] = list[j]
        BY <1>1, <1>5 DEF Available
    <2>2. Parts(list[j], Held(j), Modules[j].addr, End(Modules[j]), Whole(j))
        BY DEF Inv
    <2>3. CASE j = u.mod
        <3>1. ~Whole(j) /\ Held(j)' \subseteq Held(j)
            BY <1>5, <2>3 DEF Held
        <3> QED
            BY <2>1, <2>2, <3>1, Zenon DEF Parts, Holds, Whole, ModuleOf
    <2>4. CASE j # u.mod
        <3>1. Held(j)' = Held(j)
            BY <1>5, <2>4 DEF Held
        <3> QED
            BY <2>1, <2>2, <3>1, Zenon DEF Parts, Holds, Whole, ModuleOf
    <2> QED
        BY <2>3, <2>4
<1> QED
    BY <1>6, <1>7 DEF Inv

\* MainMemory::free finds the module of a piece by its PE.
LEMMA ModuleOfPiece ==
    ASSUME Platform, NEW i \in Module
    PROVE  ModuleOf(i) \in Module /\ (Whole(i) \/ ModuleOf(i) \notin Available)
<1> DEFINE J == {j \in Module : Modules[j].pe = Modules[i].pe}
<1>1. J \subseteq Nat /\ J # {}
    BY Zenon DEF Platform
<1>2. \E j \in J : \A k \in J : j <= k
    BY <1>1, Least, Zenon
<1>3. ModuleOf(i) \in Module
    BY <1>2 DEF ModuleOf
<1>4. ModuleOf(i) = i \/ ModuleOf(i) \notin Available
    BY Zenon DEF Platform
<1> QED
    BY <1>3, <1>4 DEF Whole

\* MainMemory::detach.
LEMMA StartKernelInv ==
    ASSUME Platform, Inv, StartKernel
    PROVE  Inv'
<1> DEFINE Cut(i, a) ==
              /\ SingleArea /\ Room(a, KernelSize)
              /\ list' = [list EXCEPT ![i] = detach(a, KernelSize)]
              /\ used' = used \cup {Piece("kernel", i, detached(a, KernelSize), KernelSize)}
<1>0. PICK i \in Available : \E a \in list[i] : Cut(i, a)
    BY Zenon DEF StartKernel
<1>1. PICK a \in list[i] : Cut(i, a)
    BY <1>0, Zenon
<1> DEFINE u == Piece("kernel", i, detached(a, KernelSize), KernelSize)
           S == used \cup {u}
<1>2. i \in Module /\ list[i] = {a}
    BY <1>1 DEF SingleArea, Available
<1>3. Modules[i].addr \in Nat /\ End(Modules[i]) \in Nat
    BY <1>2, Bounds
<1>4. a \in AreaType /\ used \subseteq PieceType /\ Held(i) \subseteq PieceType
    BY <1>2 DEF Inv, TypeOK, PieceType, Held
<1>5. Parts({a}, Held(i), Modules[i].addr, End(Modules[i]), Whole(i))
    BY <1>2 DEF Inv
<1>6. /\ u \in PieceType
      /\ detach(a, KernelSize) \subseteq AreaType
      /\ Parts(detach(a, KernelSize), Held(i) \cup {u}, Modules[i].addr, End(Modules[i]), Whole(i))
    BY <1>1, <1>2, <1>3, <1>4, <1>5, DetachParts
<1>7. u.mod = i
    BY DEF Piece
<1> HIDE DEF u
<1>8. {v \in S : v.mod = i} = Held(i) \cup {u}
    BY <1>7 DEF Held
<1>9. \A j \in Available : j # i => {v \in S : v.mod = j} = Held(j)
    BY <1>7 DEF Held
<1>10. S \subseteq PieceType
    BY <1>4, <1>6
<1>11. used' = S
    BY <1>1 DEF u
<1>12. Parts(detach(a, KernelSize), {v \in S : v.mod = i}, Modules[i].addr, End(Modules[i]), Whole(i))
    BY <1>6, <1>8
<1> HIDE DEF S
<1> QED
    BY <1>1, <1>2, <1>6, <1>9, <1>10, <1>11, <1>12, OneModule, Zenon

\* Every request, revocation and start of a kernel preserves the invariant.
LEMMA NextInv ==
    ASSUME Platform, Inv, [Next]_vars
    PROVE  Inv'
<1>1. ASSUME NEW size \in Sizes, reqmem(size) PROVE Inv'
    <2>1. size \in Nat \ {0} /\ Allocate("reqmem", size)
        BY <1>1 DEF Platform, reqmem
    <2> QED
        BY <2>1, AllocateInv
<1>2. ASSUME NEW size \in Sizes, reqmem_at(size) PROVE Inv'
    <2> DEFINE i == CHOOSE i \in Module \ Available : \A j \in Module \ Available : i <= j
               u == Piece("reqmem", i, Modules[i].addr, size)
               S == used \cup {u}
    <2>1. Module \ Available \subseteq Nat /\ Module \ Available # {}
        BY <1>2, Zenon DEF reqmem_at, Platform, Available
    <2>2. \E j \in Module \ Available : \A k \in Module \ Available : j <= k
        BY <2>1, Least, Zenon
    <2>3. i \in Module \ Available
        BY <2>2
    <2>4. used' = S /\ list' = list
        BY <1>2 DEF reqmem_at
    <2> HIDE DEF i
    <2>5. u \in PieceType /\ u.mod = i
        BY <2>3, Zenon DEF Platform, Piece, PieceType
    <2>6. S \subseteq PieceType
        BY <2>5 DEF Inv, TypeOK, PieceType
    <2>7. list' = [list EXCEPT ![i] = list[i]] /\ list[i] \subseteq AreaType
        BY <2>3, <2>4 DEF Inv, TypeOK
    <2> HIDE DEF u
    <2>8. \A j \in Available : j # i => {v \in S : v.mod = j} = Held(j)
        BY <2>5 DEF Held
    <2> QED
        BY <2>3, <2>4, <2>6, <2>7, <2>8, OneModule, Zenon
<1>3. ASSUME AddrSpace PROVE Inv'
    <2>1. PAGE_SIZE \in Nat \ {0} /\ Allocate("AddrSpace", PAGE_SIZE)
        BY <1>3 DEF Platform, AddrSpace
    <2> QED
        BY <2>1, AllocateInv
<1>4. ASSUME NEW u \in used PROVE u.mod \in Module
    BY DEF Inv, TypeOK
<1>5. ASSUME NEW u \in used, revokeAction(u) PROVE Inv'
    <2>1. Release(u, ModuleOf(u.mod)) /\ u.mod \in Module
        BY <1>4, <1>5 DEF revokeAction
    <2>2. CASE Whole(u.mod)
        BY <2>1, <2>2, ReleaseInv DEF Whole
    <2>3. CASE ~Whole(u.mod)
        <3>1. ModuleOf(u.mod) \in Module \ Available
            BY <2>1, <2>3, ModuleOfPiece
        <3> QED
            BY <2>1, <2>3, <3>1, LoseInv
    <2> QED
        BY <2>2, <2>3
<1>6. ASSUME NEW u \in used, EndAddrSpace(u) PROVE Inv'
    BY <1>4, <1>6, ReleaseInv DEF EndAddrSpace
<1>7. CASE StartKernel
    BY <1>7, StartKernelInv
<1>8. CASE UNCHANGED vars
    BY <1>8 DEF vars, Inv, TypeOK, Held, Parts, Holds
<1> QED
    BY <1>1, <1>2, <1>3, <1>5, <1>6, <1>7, <1>8 DEF Next

\* On every platform that puts the modules of a PE from which no memory is taken
\* first, as long as requests can be fulfilled: MainMemory hands out no byte
\* twice, loses none when memory is revoked except on a PE with several modules,
\* and keeps free areas joined.
THEOREM MemoryIsHandedOutOnce == Platform => (Spec => [](HandedOutOnce /\ Merged))
<1> SUFFICES ASSUME Platform PROVE Spec => [](HandedOutOnce /\ Merged)
    OBVIOUS
<1>1. Init => Inv
    BY InitInv
<1>2. Inv /\ [Next]_vars => Inv'
    BY NextInv
<1>3. Inv => HandedOutOnce /\ Merged
    BY PartsOnce
<1> QED
    BY <1>1, <1>2, <1>3, PTL DEF Spec
=============================================================================
