-------------------------------- MODULE Treap --------------------------------
(***************************************************************************)
(* The treap in which the kernel keeps the capabilities of a VPE and the   *)
(* pager the data spaces of an address space: a binary search tree whose   *)
(* priorities grow towards the leaves.                                     *)
(*                                                                         *)
(* A node stands for the keys from its own key on; a capability for one, a *)
(* data space for as many as it has pages (matches).  The pointers of a    *)
(* node are its subtrees, and its key tells it from others.                *)
(***************************************************************************)
EXTENDS Integers, FiniteSets

CONSTANTS
    Nodes,     \* the keys of the nodes, and how many keys a node matches
    MaxInserts \* bound: insertions since the treap was empty

VARIABLES
    prio,      \* Treap::_prio, the priority of the next node
    root,      \* Treap::_root
    inserted,  \* how many nodes were inserted since the treap was empty
    within     \* the nodes that were inserted and not removed

vars == <<prio, root, inserted, within>>

Nil == [key |-> 0]
Node(k, p, l, r) == [key |-> k, prio |-> p, left |-> l, right |-> r]
Empty(t) == t.key = 0

\* The 32 bits of the priority wrap: it grows by 2^32 / phi, that is, it becomes
\* smaller by 1640531527 or greater by twice the number below.
FirstPrio == 314159265
Smaller == 1640531527
next_prio(p) == IF p < Smaller - 2147483647 - 1 THEN p + 1327217884 + 1327217885 ELSE p - Smaller

Init ==
    /\ prio = FirstPrio
    /\ root = Nil
    /\ inserted = 0
    /\ within = {}

--------------------------------------------------------------------------
matches(t, k) == k \in t.key .. (t.key + Nodes[t.key] - 1)

\* Treap::find.
RECURSIVE find(_, _)
find(t, k) ==
    IF Empty(t) THEN Nil
    ELSE IF matches(t, k) THEN t
    ELSE IF k < t.key THEN find(t.left, k) ELSE find(t.right, k)

\* The parts of a tree with smaller keys and with greater keys.
RECURSIVE split_left(_, _)
split_left(t, k) ==
    IF Empty(t) THEN Nil
    ELSE IF k < t.key THEN split_left(t.left, k)
    ELSE [t EXCEPT !.right = split_left(@, k)]
RECURSIVE split_right(_, _)
split_right(t, k) ==
    IF Empty(t) THEN Nil
    ELSE IF k < t.key THEN [t EXCEPT !.left = split_right(@, k)]
    ELSE split_right(t.right, k)

\* The node is put where the priorities begin to be greater than its own.
RECURSIVE put(_, _, _)
put(t, k, p) ==
    IF Empty(t) \/ ~(t.prio < p) THEN Node(k, p, split_left(t, k), split_right(t, k))
    ELSE IF k < t.key THEN [t EXCEPT !.left = put(@, k, p)]
    ELSE [t EXCEPT !.right = put(@, k, p)]

insert(k) ==
    /\ inserted < MaxInserts
    /\ k \notin within
    /\ root' = put(root, k, prio)
    /\ prio' = next_prio(prio)
    /\ inserted' = inserted + 1
    /\ within' = within \cup {k}

Mut_remove_from(t) == IF Empty(t.left) THEN t.right ELSE t.left

\* A node with two children is rotated down, below the child with the smaller
\* priority.
RECURSIVE remove_from(_)
remove_from(t) ==
    IF Empty(t.left) THEN t.right
    ELSE IF Empty(t.right) THEN t.left
    ELSE IF t.left.prio < t.right.prio
      THEN [t.left EXCEPT !.right = remove_from([t EXCEPT !.left = t.left.right])]
      ELSE [t.right EXCEPT !.left = remove_from([t EXCEPT !.right = t.right.left])]

RECURSIVE remove_at(_, _)
remove_at(t, k) ==
    IF t.key = k THEN remove_from(t)
    ELSE IF k < t.key THEN [t EXCEPT !.left = remove_at(@, k)]
    ELSE [t EXCEPT !.right = remove_at(@, k)]

remove(k) ==
    /\ k \in within
    /\ root' = remove_at(root, k)
    /\ within' = within \ {k}
    /\ UNCHANGED <<prio, inserted>>

\* Treap::remove_root, with which a CapTable is emptied.
remove_root ==
    /\ ~Empty(root)
    /\ root' = remove_at(root, root.key)
    /\ within' = within \ {root.key}
    /\ UNCHANGED <<prio, inserted>>

clear ==
    /\ root' = Nil /\ within' = {}
    /\ prio' = FirstPrio /\ inserted' = 0

Next ==
    \/ \E k \in DOMAIN Nodes : insert(k) \/ remove(k)
    \/ remove_root \/ clear

Spec == Init /\ [][Next]_vars

--------------------------------------------------------------------------
(***************************************************************************)
(* Properties.                                                             *)
(***************************************************************************)
RECURSIVE Keys(_)
Keys(t) == IF Empty(t) THEN {} ELSE {t.key} \cup Keys(t.left) \cup Keys(t.right)

RECURSIVE Ordered(_)
Ordered(t) ==
    Empty(t) \/ /\ \A k \in Keys(t.left) : k < t.key
                /\ \A k \in Keys(t.right) : k > t.key
                /\ \A c \in {t.left, t.right} : Empty(c) \/ t.prio < c.prio
                /\ Ordered(t.left) /\ Ordered(t.right)

TypeOK == inserted \in 0 .. MaxInserts /\ within \subseteq DOMAIN Nodes

\* Every key is found at the node that matches it as long as that is within, and
\* no other key is found; as the documentation of the class says, keys grow from
\* the left to the right and priorities from the root to the leaves.
FindsExactly ==
    /\ Ordered(root)
    /\ Keys(root) = within
    /\ \A n \in DOMAIN Nodes : \A k \in n .. (n + Nodes[n] - 1) :
         find(root, k).key = IF n \in within THEN n ELSE 0
=============================================================================
