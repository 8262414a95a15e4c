----------------------------- MODULE FSAllocator -----------------------------
(***************************************************************************)
(* The allocator of the file system service (apps/m3fs/Allocator.cc), which*)
(* hands out blocks and inode numbers from a bitmap that fills one or more *)
(* blocks of the disk.  An allocator is a record: the numbers whose bit is *)
(* set, the number of bits that are clear according to the superblock, the *)
(* position the next search starts at, and the number of bits there are.   *)
(*                                                                         *)
(* The loops over bits and words are described by where they stop.  An     *)
(* assumption: the number of bits is a multiple of the word, as in all the *)
(* images that the repository builds (4096, 16384 or 65536 blocks, 256 or  *)
(* 4096 inodes).  Otherwise max - i, which is unsigned, wraps in the last  *)
(* word (Allocator.cc:73).                                                 *)
(***************************************************************************)
EXTENDS Integers, FiniteSets

CONSTANTS WORD_BITS, perblock

Allocator(total, used) ==
    [set |-> used, total |-> total, free |-> total - Cardinality(used),
     first_free |-> IF used = 0..total - 1 THEN total
                    ELSE CHOOSE i \in 0..total - 1 : i \notin used /\ 0..i - 1 \subseteq used]

Least(S) == CHOOSE x \in S : \A y \in S : x <= y
Greater(x, y) == IF x >= y THEN x ELSE y
round_up(i) == ((i + WORD_BITS - 1) \div WORD_BITS) * WORD_BITS
Word(i) == LET w == i \div WORD_BITS IN w * WORD_BITS .. (w + 1) * WORD_BITS - 1
is_word_set(S, i) == Word(i) \subseteq S
is_word_free(S, i) == Word(i) \cap S = {}

\* The bits of one block of the bitmap, and how many of them are of use.
Bits(a, b) == {i \in 0..perblock - 1 : b * perblock + i \in a.set}
last(a) == (a.total - 1) \div perblock
max(a, b) == IF b < last(a) \/ a.total % perblock = 0 THEN perblock ELSE a.total % perblock

\* How many of the bits from i on are clear, before the end and at most n.
Run(S, i, end, n) == Least({j \in i..Greater(i, end) : j \in S \/ j >= end \/ j = i + n}) - i

\* Words without a clear bit are skipped; in the next one, the first clear bit
\* is looked for.
SkipWords(S, i, m) ==
    LET words == {j \in i + 1..m - 1 : j % WORD_BITS = 0 /\ ~is_word_set(S, j)} IN
    IF ~(i < m /\ is_word_set(S, i)) THEN i
    ELSE IF words = {} THEN round_up(Greater(m, i + 1))
    ELSE Least(Word(Least(words)) \ S)

\* Single bits up to the end of the word.
Align(S, i, icount) ==
    LET end == round_up(i)
        clear == (i..end - 1) \ S IN
    IF clear = {} THEN [i |-> end, total |-> 0]
    ELSE LET n == Run(S, Least(clear), end, icount) IN [i |-> Least(clear) + n, total |-> n]

\* Whole words: without a bit so far, words that are not clear are skipped.
TakeWords(S, r, icount, m) ==
    LET want == (icount - r.total) \div WORD_BITS
        room == (m - r.i) \div WORD_BITS
        free == {k \in 0..room - 1 : is_word_free(S, r.i + k * WORD_BITS)}
        first == IF r.total > 0 \/ free = {} THEN 0 ELSE Least(free)
        n == Least({k \in 0..Greater(room - first, 0) :
                        k = want \/ first + k = room \/ first + k \notin free}) IN
    IF want = 0 \/ room <= 0 THEN r
    ELSE IF r.total = 0 /\ free = {} THEN [i |-> r.i + room * WORD_BITS, total |-> 0]
    ELSE [i |-> r.i + (first + n) * WORD_BITS, total |-> r.total + n * WORD_BITS]

\* What is left.  If there is nothing so far, all clear bits are taken, even
\* if others lie between them; the file system asks for one bit or for words
\* (WRITE_INC_BLOCKS), and then there are none between.
TakeRest(S, r, icount, m) ==
    IF r.total > 0
    THEN LET n == Run(S, r.i, m, icount - r.total) IN
         [i |-> r.i + n, total |-> r.total + n, taken |-> r.i - r.total..r.i + n - 1]
    ELSE LET clear == (r.i..m - 1) \ S
             some == {j \in clear : Cardinality({k \in clear : k <= j}) <= icount} IN
         [i |-> IF some = {} \/ Cardinality(some) < icount THEN Greater(r.i, m)
                ELSE 1 + CHOOSE j \in some : \A k \in some : k <= j,
          total |-> Cardinality(some), taken |-> some]

\* The search in one block of the bitmap, from bit i on.
Search(S, i, icount, m) ==
    TakeRest(S, TakeWords(S, Align(S, SkipWords(S, i, m), icount), icount, m), icount, m)

\* The first block of the bitmap with a clear bit is searched, the block of
\* first_free from there on.
From(a, b) == IF b = a.first_free \div perblock THEN a.first_free % perblock ELSE 0
Found(a, b, icount) == Search(Bits(a, b), From(a, b), icount, max(a, b))

Taken(a, b, r) ==
    LET off == b * perblock + r.i IN
    [alloc |-> [set |-> a.set \cup {b * perblock + i : i \in r.taken}, total |-> a.total,
                free |-> a.free - r.total, first_free |-> off],
     start |-> off - r.total, count |-> r.total]

AllocIn(a, blocks, icount) ==
    IF blocks = {} THEN [alloc |-> a, start |-> 0, count |-> 0]
    ELSE Taken(a, Least(blocks), Found(a, Least(blocks), icount))

alloc(a, icount) ==
    AllocIn(a, {b \in a.first_free \div perblock..last(a) : Found(a, b, icount).total > 0}, icount)

\* Mutant: the superblock is not told.
Mut_free(a, start, count) ==
    [a EXCEPT !.set = @ \ (start..start + count - 1), !.first_free = IF start < @ THEN start ELSE @]

free(a, start, count) ==
    [a EXCEPT !.set = @ \ (start..start + count - 1),
              !.free = @ + count,
              !.first_free = IF start < @ THEN start ELSE @]
=============================================================================
