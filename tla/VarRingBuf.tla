------------------------------ MODULE VarRingBuf ------------------------------
(***************************************************************************)
(* The ring of the pipe service (VarRingBuf.h).  A write is never split:   *)
(* if it does not fit at the end it goes to the front, and "last" is where *)
(* the data ends before.                                                   *)
(***************************************************************************)
EXTENDS Integers

CONSTANTS Size, DTU_PKG_SIZE

None == -1
ringAlign(x) == ((x + DTU_PKG_SIZE - 1) \div DTU_PKG_SIZE) * DTU_PKG_SIZE

Ring == [rdpos : 0..Size, wrpos : 0..Size, last : 0..Size]
empty == [rdpos |-> 0, wrpos |-> 0, last |-> 0]

\* get_write_pos moves both ends of an empty ring to the next package.
aligned(b) ==
    IF b.wrpos % DTU_PKG_SIZE # 0 /\ b.rdpos = b.wrpos
    THEN [b EXCEPT !.wrpos = ringAlign(@), !.rdpos = ringAlign(b.wrpos)] ELSE b

\* Mutant: a write may fill the ring up to the reader.
Mut_get_write_pos(b, size) ==
    CASE b.wrpos % DTU_PKG_SIZE # 0 -> None
      [] b.wrpos >= b.rdpos /\ Size - b.wrpos >= size -> b.wrpos
      [] b.wrpos >= b.rdpos /\ Size - b.wrpos < size /\ b.rdpos >= size -> 0
      [] b.wrpos < b.rdpos /\ b.rdpos - b.wrpos >= size -> b.wrpos
      [] OTHER -> None

\* Where a write of that size goes, for an aligned ring.
get_write_pos(b, size) ==
    CASE b.wrpos % DTU_PKG_SIZE # 0 -> None
      [] b.wrpos >= b.rdpos /\ Size - b.wrpos >= size -> b.wrpos
      [] b.wrpos >= b.rdpos /\ Size - b.wrpos < size /\ b.rdpos > size -> 0
      [] b.wrpos < b.rdpos /\ b.rdpos - b.wrpos > size -> b.wrpos
      [] OTHER -> None

\* Where a read of up to "size" bytes begins, and how many it gets.
get_read_pos(b, size) ==
    LET rpos == IF b.rdpos = b.last THEN 0 ELSE b.rdpos
        avail == IF b.wrpos > rpos THEN b.wrpos - rpos ELSE Size - rpos IN
    IF b.wrpos = b.rdpos THEN [pos |-> None, size |-> size]
    ELSE [pos |-> rpos, size |-> IF avail < size THEN avail ELSE size]

push(b, size) ==
    CASE b.wrpos >= b.rdpos /\ Size - b.wrpos >= size -> [b EXCEPT !.wrpos = @ + size]
      [] b.wrpos >= b.rdpos /\ Size - b.wrpos < size /\ b.rdpos > size ->
           [b EXCEPT !.last = b.wrpos, !.wrpos = size]
      [] b.wrpos < b.rdpos /\ b.rdpos - b.wrpos > size -> [b EXCEPT !.wrpos = @ + size]
      [] OTHER -> b

pull(b, size) ==
    IF b.rdpos = b.last THEN [b EXCEPT !.rdpos = size, !.last = 0]
    ELSE [b EXCEPT !.rdpos = @ + size]
=============================================================================
