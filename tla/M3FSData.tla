------------------------------ MODULE M3FSData -------------------------------
(***************************************************************************)
(* What the file system service keeps on its disk, and the functions that  *)
(* work on it: inodes with their extents (apps/m3fs/INodes.cc), directory  *)
(* entries (Links.cc) and paths (Dirs.cc).                                 *)
(*                                                                         *)
(* A disk is a record of the two allocators and the inodes.  An inode has  *)
(* its extents in order; "inode->extents" is their number.  The entries of *)
(* a directory are kept with its inode, one sequence per block, which is   *)
(* the same as long as no block belongs to two inodes (property UsedOnce of*)
(* module M3FS).  Every function returns a new disk.  What files contain is*)
(* left out, and so is the double indirect block.                          *)
(***************************************************************************)
EXTENDS Integers, Sequences, FiniteSets, SequencesExt

CONSTANTS WORD_BITS, perblock,
          blocksize, total_blocks, total_inodes, first_data_block,
          INODE_DIR_COUNT, HeaderSize, NameLen

INSTANCE FSAllocator

INVALID_INO == -1
Ino == 0..total_inodes - 1

\* An inode that was never in use, and the directory entries of a block.
Blank == [mode |-> "none", links |-> 0, size |-> 0, ext |-> << >>, indirect |-> 0, ents |-> << >>]
Entry(name, ino, next) == [name |-> name, ino |-> ino, next |-> next]
Size(e) == HeaderSize + NameLen[e.name]

Update(d, i, inode) == [d EXCEPT !.node[i] = inode]
blocks_free(d, start, count) == [d EXCEPT !.blocks = free(@, start, count)]

--------------------------------------------------------------------------
\* Extents.  get_extent allocates the indirect block when it is asked to create
\* an extent behind the direct ones.
Extent(d, i, n) == IF n < Len(d.node[i].ext) THEN d.node[i].ext[n + 1] ELSE [start |-> 0, length |-> 0]

get_extent(d, i, n, create) ==
    IF n < INODE_DIR_COUNT \/ d.node[i].indirect # 0 \/ ~create THEN d
    ELSE LET made(r) == [d EXCEPT !.blocks = r.alloc, !.node[i].indirect = r.start] IN
         made(alloc(d.blocks, 1))

round_up_block(n) == ((n + blocksize - 1) \div blocksize) * blocksize

\* Appends an extent of at most that many blocks; nothing changes if no block
\* is found.
fill_extent(d, i, blocks) ==
    LET filled(r) ==
          IF r.count = 0 THEN d
          ELSE [d EXCEPT !.blocks = r.alloc,
                         !.node[i].ext = Append(@, [start |-> r.start, length |-> r.count]),
                         !.node[i].size = round_up_block(@) + r.count * blocksize] IN
    filled(alloc(d.blocks, blocks))

\* Mutant: the indirect block stays.
Mut_remove_last(d, i) ==
    LET inode == d.node[i]
        ch == Last(inode.ext)
        indir == Len(inode.ext) - 1 = INODE_DIR_COUNT IN
    Update(blocks_free(d, ch.start, ch.length), i,
           [inode EXCEPT !.ext = Front(@), !.size = @ - ch.length * blocksize,
                         !.indirect = IF indir THEN 0 ELSE @])

\* The last extent goes, and with the first indirect one the indirect block.
remove_last(d, i) ==
    LET inode == d.node[i]
        ch == Last(inode.ext)
        indir == Len(inode.ext) - 1 = INODE_DIR_COUNT
        d1 == IF indir THEN blocks_free(d, inode.indirect, 1) ELSE d IN
    Update(blocks_free(d1, ch.start, ch.length), i,
           [inode EXCEPT !.ext = Front(@), !.size = @ - ch.length * blocksize,
                         !.indirect = IF indir THEN 0 ELSE @])

\* The extent itself is shortened to extoff bytes.  The last block may be in
\* use in part.
shorten(d, i, extent, extoff) ==
    LET inode == d.node[i]
        ch == Extent(d, i, extent)
        mod == inode.size % blocksize
        curlen == ch.length * blocksize - (IF mod = 0 THEN 0 ELSE blocksize - mod)
        diff == curlen - extoff
        blocks == (IF extoff = 0 THEN round_up_block(diff) ELSE diff) \div blocksize
        rest == [ch EXCEPT !.length = @ - blocks]
        indir == extent = INODE_DIR_COUNT /\ extoff = 0
        d1 == IF indir THEN blocks_free(d, inode.indirect, 1) ELSE d
        d2 == IF blocks = 0 THEN d1 ELSE blocks_free(d1, ch.start + rest.length, blocks) IN
    IF extoff >= curlen THEN Update(d1, i, [inode EXCEPT !.indirect = IF indir THEN 0 ELSE @])
    ELSE Update(d2, i,
                [inode EXCEPT !.size = @ - diff,
                              !.ext = Front(@) \o (IF rest.length = 0 THEN << >> ELSE <<rest>>),
                              !.indirect = IF indir THEN 0 ELSE @])

\* Everything behind byte extoff of the extent is cut off.
RECURSIVE truncate(_, _, _, _)
truncate(d, i, extent, extoff) ==
    IF Len(d.node[i].ext) = 0 THEN d
    ELSE IF Len(d.node[i].ext) - 1 > extent THEN truncate(remove_last(d, i), i, extent, extoff)
    ELSE shorten(d, i, extent, extoff)

INodes_create(d, mode) ==
    LET made(r) ==
          [disk |-> IF r.count = 0 THEN d
                    ELSE Update([d EXCEPT !.inodes = r.alloc], r.start, [Blank EXCEPT !.mode = mode]),
           ino |-> r.start] IN
    made(alloc(d.inodes, 1))

\* A freed inode keeps its mode and its links; its blocks are gone.
INodes_free(d, i) ==
    LET d1 == truncate(d, i, 0, 0) IN
    [d1 EXCEPT !.inodes = free(@, i, 1), !.node[i].ents = << >>]

--------------------------------------------------------------------------
\* Directory entries.  An entry reaches to the next one, so that what follows
\* its name is free; an entry that begins a block is removed by taking its name.
Positions(ents) == UNION {{b} \X (1..Len(ents[b])) : b \in 1..Len(ents)}
FirstOf(S) == CHOOSE x \in S : \A y \in S : x[1] < y[1] \/ (x[1] = y[1] /\ x[2] <= y[2])
Named(ents, name) == {x \in Positions(ents) : ents[x[1]][x[2]].name = name}
WithRoom(ents, size) == {x \in Positions(ents) : ents[x[1]][x[2]].next - Size(ents[x[1]][x[2]]) >= size}

Replace(ents, b, seq) == [ents EXCEPT ![b] = seq]
\* Positions x[1] and x[2] are a block and an entry of it.
InsertAfter(ents, x, name, ino) ==
    LET es == ents[x[1]]
        e == es[x[2]] IN
    Replace(ents, x[1], SubSeq(es, 1, x[2] - 1)
                        \o <<[e EXCEPT !.next = Size(e)], Entry(name, ino, e.next - Size(e))>>
                        \o SubSeq(es, x[2] + 1, Len(es)))
Without(ents, x) ==
    LET es == ents[x[1]] IN
    Replace(ents, x[1], IF x[2] = 1 THEN [es EXCEPT ![1].name = ""]
                        ELSE RemoveAt([es EXCEPT ![x[2] - 1].next = @ + es[x[2]].next], x[2]))

\* A further block of a directory is a further extent; get_extent is called
\* with a null pointer for the indirect block.
Links_create(d, dir, name, ino) ==
    LET room == WithRoom(d.node[dir].ents, HeaderSize + NameLen[name])
        linked(d1, ents) ==
          [disk |-> [d1 EXCEPT !.node[dir].ents = ents, !.node[ino].links = @ + 1], res |-> "ok"]
        extended(d1) ==
          IF d1 = d THEN [disk |-> d, res |-> "NO_SPACE"]
          ELSE linked(d1, Append(d.node[dir].ents, <<Entry(name, ino, blocksize)>>)) IN
    IF room # {} THEN linked(d, InsertAfter(d.node[dir].ents, FirstOf(room), name, ino))
    ELSE IF Len(d.node[dir].ext) >= INODE_DIR_COUNT THEN [disk |-> d, res |-> "null"]
    ELSE extended(fill_extent(d, dir, 1))

\* The entry goes, and with the last one the inode.
Links_remove(d, dir, name, isdir) ==
    LET found == Named(d.node[dir].ents, name)
        x == FirstOf(found)
        ino == d.node[dir].ents[x[1]][x[2]].ino
        d1 == [d EXCEPT !.node[dir].ents = Without(@, x), !.node[ino].links = @ - 1] IN
    IF found = {} THEN [disk |-> d, res |-> "NO_SUCH_FILE"]
    ELSE IF ~isdir /\ d.node[ino].mode = "dir" THEN [disk |-> d, res |-> "IS_DIR"]
    ELSE [disk |-> IF d1.node[ino].links = 0 THEN INodes_free(d1, ino) ELSE d1, res |-> "ok"]

\* The old entry goes before the new one is made.
Links_rename(d, olddir, oldname, newdir, newname) ==
    LET found == Named(d.node[olddir].ents, oldname)
        x == FirstOf(found)
        ino == d.node[olddir].ents[x[1]][x[2]].ino
        d1 == [d EXCEPT !.node[olddir].ents = Without(@, x), !.node[ino].links = @ - 1] IN
    IF found = {} THEN [disk |-> d, res |-> "NO_SUCH_FILE"]
    ELSE IF d.node[ino].mode = "dir" THEN [disk |-> d, res |-> "IS_DIR"]
    ELSE Links_create(d1, newdir, newname, ino)

--------------------------------------------------------------------------
\* Paths are sequences of names.
find_entry(d, i, name) ==
    LET ents == d.node[i].ents
        found == Named(ents, name) IN
    IF found = {} THEN INVALID_INO ELSE ents[FirstOf(found)[1]][FirstOf(found)[2]].ino

RECURSIVE search(_, _, _)
search(d, i, path) ==
    IF path = << >> \/ i = INVALID_INO THEN i
    ELSE search(d, find_entry(d, i, path[1]), Tail(path))
Lookup(d, path) == search(d, 0, path)

\* search with create: the file is made in its directory, if that exists.
search_create(d, path) ==
    LET dir == Lookup(d, Front(path))
        fails(d1, res) == [disk |-> d1, res |-> res, ino |-> INVALID_INO]
        linked(r, ino) == IF r.res = "ok" THEN [disk |-> r.disk, res |-> "ok", ino |-> ino]
                          ELSE fails(INodes_free(r.disk, ino), r.res)
        created(new) == IF new.ino = 0 THEN fails(d, "NO_SPACE")
                        ELSE linked(Links_create(new.disk, dir, Last(path), new.ino), new.ino) IN
    IF Lookup(d, path) # INVALID_INO THEN [disk |-> d, res |-> "ok", ino |-> Lookup(d, path)]
    ELSE IF dir = INVALID_INO THEN fails(d, "NO_SUCH_FILE")
    ELSE created(INodes_create(d, "reg"))

\* When one of the links cannot be made, those made so far are removed, and the
\* inode of the parent is freed.
Dirs_create(d, path) ==
    LET par == Lookup(d, Front(path))
        name == Last(path)
        errINode(d1, res) == [disk |-> INodes_free(d1, par), res |-> res]
        errLink1(d1, res) == errINode(Links_remove(d1, par, name, TRUE).disk, res)
        errLink2(d1, ino, res) == errLink1(Links_remove(d1, ino, ".", TRUE).disk, res)
        link3(r, ino) == IF r.res = "ok" THEN r ELSE errLink2(r.disk, ino, r.res)
        link2(r, ino) == IF r.res = "ok" THEN link3(Links_create(r.disk, ino, "..", par), ino)
                         ELSE errLink1(r.disk, r.res)
        link1(r, ino) == IF r.res = "ok" THEN link2(Links_create(r.disk, ino, ".", ino), ino)
                         ELSE errINode(r.disk, r.res)
        created(new) == IF new.ino = 0 THEN [disk |-> d, res |-> "NO_SPACE"]
                        ELSE link1(Links_create(new.disk, par, name, new.ino), new.ino) IN
    IF par = INVALID_INO THEN [disk |-> d, res |-> "NO_SUCH_FILE"]
    ELSE IF Lookup(d, path) # INVALID_INO THEN [disk |-> d, res |-> "EXISTS"]
    ELSE created(INodes_create(d, "dir"))

Dirs_unlink(d, path, isdir) ==
    LET par == Lookup(d, Front(path)) IN
    IF par = INVALID_INO THEN [disk |-> d, res |-> "NO_SUCH_FILE"]
    ELSE Links_remove(d, par, Last(path), isdir)

\* An entry whose name was taken counts as one that is neither "." nor "..".
Dirs_remove(d, path) ==
    LET ino == Lookup(d, path)
        ents == d.node[ino].ents
        others == {x \in Positions(ents) : ents[x[1]][x[2]].name \notin {".", ".."}} IN
    IF ino = INVALID_INO THEN [disk |-> d, res |-> "NO_SUCH_FILE"]
    ELSE IF d.node[ino].mode # "dir" THEN [disk |-> d, res |-> "IS_NO_DIR"]
    ELSE IF others # {} THEN [disk |-> d, res |-> "DIR_NOT_EMPTY"]
    ELSE Dirs_unlink([d EXCEPT !.node[ino].links = @ - 1], path, TRUE)

Dirs_link(d, oldpath, newpath) ==
    LET old == Lookup(d, oldpath)
        dir == Lookup(d, Front(newpath)) IN
    IF old = INVALID_INO THEN [disk |-> d, res |-> "NO_SUCH_FILE"]
    ELSE IF d.node[old].mode = "dir" THEN [disk |-> d, res |-> "IS_DIR"]
    ELSE IF dir = INVALID_INO THEN [disk |-> d, res |-> "NO_SUCH_FILE"]
    ELSE Links_create(d, dir, Last(newpath), old)

\* A file at the new path is removed first.
Dirs_rename(d, oldpath, newpath) ==
    LET old == Lookup(d, oldpath)
        newdir == Lookup(d, Front(newpath))
        renamed(gone) ==
          IF gone.res # "ok" THEN gone
          ELSE Links_rename(gone.disk, Lookup(gone.disk, Front(oldpath)), Last(oldpath),
                            newdir, Last(newpath)) IN
    IF old = INVALID_INO THEN [disk |-> d, res |-> "NO_SUCH_FILE"]
    ELSE IF oldpath = newpath THEN [disk |-> d, res |-> "INV_ARGS"]
    ELSE IF d.node[old].mode = "dir" THEN [disk |-> d, res |-> "IS_DIR"]
    ELSE IF newdir = INVALID_INO THEN [disk |-> d, res |-> "NO_SUCH_FILE"]
    ELSE renamed(IF Lookup(d, newpath) = INVALID_INO THEN [disk |-> d, res |-> "ok"]
                 ELSE Links_remove(d, newdir, Last(newpath), FALSE))
=============================================================================
