-------------------------------- MODULE Heap --------------------------------
(***************************************************************************)
(* The heap of a kernel or a program: areas one behind the other, each     *)
(* with a header that holds the distances to the next and to the previous  *)
(* one.  Headers are in the memory that the heap hands out.                *)
(*                                                                         *)
(* The unit is the size of a header, to which everything is aligned.  A    *)
(* word of the heap that is no header any more is Data.                    *)
(***************************************************************************)
EXTENDS Integers, FiniteSets

CONSTANTS
    InitEnd,  \* the place of the last header (_end) at first
    Chunk,    \* by how much extend_heap extends the heap; 0: not at all
    MaxEnd,   \* bound: the heap is not extended beyond
    Sizes,    \* the sizes that are requested, without header
    MaxAreas  \* bound: areas in use

VARIABLES
    area,     \* the headers: [next, used, prev]
    end,      \* Heap::_end
    given     \* what was allocated and not freed: the size of an area

vars == <<area, end, given>>

Addr == 0 .. MaxEnd
Data == [next |-> 0, used |-> TRUE, prev |-> 0]
Area(next, used, prev) == [next |-> next, used |-> used, prev |-> prev]

\* Heap::init.
Init ==
    /\ end = InitEnd
    /\ area = [a \in Addr |-> IF a = 0 THEN Area(InitEnd, FALSE, 0)
                              ELSE IF a = InitEnd THEN Area(0, FALSE, InitEnd) ELSE Data]
    /\ given = {}

--------------------------------------------------------------------------
\* try_alloc searches from the end.
Fits(h, a, size) == ~h[a].used /\ h[a].next >= size
Search(h, e, size) ==
    LET from[a \in Addr] == IF Fits(h, a, size) \/ h[a].prev = 0 THEN a ELSE from[a - h[a].prev]
    IN from[e - h[e].prev]

\* The area is split if there is space left for a header behind it.
Mut_split(h, a, size) ==
    IF h[a].next < size + 1 THEN [h EXCEPT ![a].used = TRUE]
    ELSE [h EXCEPT ![a] = Area(size, TRUE, @.prev),
                   ![a + size] = Area(h[a].next - size, FALSE, size)]
split(h, a, size) ==
    IF h[a].next < size + 1 THEN [h EXCEPT ![a].used = TRUE]
    ELSE [h EXCEPT ![a] = Area(size, TRUE, @.prev),
                   ![a + size] = Area(h[a].next - size, FALSE, size),
                   ![a + h[a].next].prev = h[a].next - size]

\* If nothing fits, the kernel extends its heap (extend_heap) and searches again.
Extended(last) ==
    LET new == end + Chunk IN
    IF area[last].used
      THEN [area EXCEPT ![new] = Area(0, FALSE, Chunk), ![end].next = Chunk]
      ELSE [area EXCEPT ![new] = Area(0, FALSE, area[end].prev + Chunk),
                        ![last].next = @ + Chunk, ![end] = Data]
Short(size) == ~Fits(area, Search(area, end, size), size)
Extends(size) == Short(size) /\ Chunk # 0 /\ end + Chunk <= MaxEnd
Heap1(size) == IF Extends(size) THEN Extended(end - area[end].prev) ELSE area
End1(size) == IF Extends(size) THEN end + Chunk ELSE end

\* The new area, and the heap with it.
Found(size) == Search(Heap1(size), End1(size), size)
Enough(n) == Fits(Heap1(n + 1), Found(n + 1), n + 1)
New(n) == [at |-> Found(n + 1), size |-> n]
try_alloc(n) == split(Heap1(n + 1), Found(n + 1), n + 1)

alloc(n) ==
    /\ Cardinality(given) < MaxAreas
    /\ Enough(n)
    /\ area' = try_alloc(n)
    /\ end' = End1(n + 1)
    /\ given' = given \cup {New(n)}

\* free merges the area with the one before it and with the one behind it.
freed(h, e, a) ==
    LET n == a + h[a].next
        h1 == [h EXCEPT ![a].used = FALSE]
        before == h[a].prev > 0 /\ ~h[a - h[a].prev].used
        b == IF before THEN a - h[a].prev ELSE a
        h2 == IF before THEN [h1 EXCEPT ![b].next = @ + h[a].next, ![a] = Data,
                                        ![n].prev = h[b].next + h[a].next]
              ELSE h1
        nn == n + h2[n].next IN
    IF n < e /\ ~h2[n].used
      THEN [h2 EXCEPT ![b].next = @ + h2[n].next, ![n] = Data,
                      ![nn].prev = h2[b].next + h2[n].next]
      ELSE h2

free(g) ==
    /\ area[g.at].used
    /\ area' = freed(area, end, g.at)
    /\ given' = given \ {g}
    /\ UNCHANGED end

\* realloc to a larger size moves the area in any case.
realloc(g, n) ==
    /\ n > g.size
    /\ Enough(n)
    /\ end' = End1(n + 1)
    /\ area' = freed(try_alloc(n), End1(n + 1), g.at)
    /\ given' = (given \ {g}) \cup {New(n)}

Next ==
    \/ \E n \in Sizes : alloc(n)
    \/ \E g \in given : free(g) \/ \E n \in Sizes : realloc(g, n)

Spec == Init /\ [][Next]_vars

--------------------------------------------------------------------------
(***************************************************************************)
(* Properties.                                                             *)
(***************************************************************************)
\* The areas by their distances to the next one.
Forward ==
    LET to[a \in Addr] == IF a >= end \/ area[a].next = 0 THEN {a} ELSE {a} \cup to[a + area[a].next]
    IN to[0]

\* contiguous_mem walks over them.
contiguous_mem ==
    LET free1 == {area[a].next - 1 : a \in {b \in Forward \ {end} : ~area[b].used}} IN
    IF free1 = {} THEN 0 ELSE CHOOSE n \in free1 : \A m \in free1 : m <= n

\* The areas cover the heap up to its end without overlap, each knows the one
\* before it, and no two free ones are neighbours; what was allocated is exactly
\* what is in use, and is as large as requested.  As a comment of contiguous_mem
\* says, so much memory can be allocated.
HeapExact ==
    /\ end \in Forward
    /\ \A a \in Forward \ {end} :
         LET n == a + area[a].next IN
         /\ n <= end
         /\ area[n].prev = area[a].next
         /\ n # end => area[a].used \/ area[n].used
    /\ {a \in Forward : area[a].used} = {g.at : g \in given}
    /\ \A g \in given : g.size < area[g.at].next
    /\ contiguous_mem > 0 => ~Short(contiguous_mem + 1)
=============================================================================
