-------------------------------- MODULE M3FS ---------------------------------
(***************************************************************************)
(* The file system service (apps/m3fs/m3fs.cc) and the files its clients   *)
(* have open (libs/m3/vfs/RegularFile.cc).  The service handles one request*)
(* after the other; the requests of its clients interleave.  To write, a   *)
(* client asks for the extents of the file, which the service extends by   *)
(* many blocks at once; what is not used is cut off when the file is closed*)
(*                                                                         *)
(* The service counts no references to an inode (m3fs.cc:94), so the       *)
(* clients here do not open a file that is open for writing, and do not    *)
(* remove a file that is open.  To read, they may keep a file open while   *)
(* another one writes to it.                                               *)
(***************************************************************************)
EXTENDS M3FSData

CONSTANTS Client, FilePaths, DirPaths, MAX_LOCS, WRITE_INC_BLOCKS,
          NO_SPACE,                 \* Errors::NO_SPACE, a positive number
          Flags,                    \* how files are opened: sets of "w", "trunc", "create", "append"
          Amounts, Offsets,         \* bytes to write or read at once, offsets to seek to
          MaxSize, MaxRequests      \* bounds: bytes of a file, files opened and paths changed

VARIABLES disk,     \* what M3FSData describes
          file,     \* the open file of a client, if there is one
          bytes,    \* the position in it, counted in bytes
          changed,  \* the clients that have a file open which another client has
                    \* opened for writing meanwhile
          want,     \* the size a file should have, for every inode
          spoilt,   \* whether mkdir or rename failed half-way, or a file got an
                    \* indirect block that it does not need
          requests  \* how many files were opened and paths changed

vars == <<disk, file, bytes, changed, want, spoilt, requests>>

Closed == [ino |-> INVALID_INO]
IsOpen(c) == file[c] # Closed
Writes(c) == IsOpen(c) /\ "w" \in file[c].flags
UsersOf(i) == {c \in Client : IsOpen(c) /\ file[c].ino = i}
InUseToWrite(i) == \E c \in UsersOf(i) : Writes(c)

\* A client has written behind the last extent of its file, for want of blocks
\* (see get_location).  Nothing is said of what it does then.
WrittenBehind(c) == Writes(c) /\ file[c].last_off > 0
                    /\ file[c].last_extent >= Len(disk.node[file[c].ino].ext)
GoesOn(c) == IsOpen(c) /\ ~WrittenBehind(c)

\* mkm3fs makes a root directory that contains itself twice.
Init ==
    /\ LET d == [blocks |-> Allocator(total_blocks, 0..first_data_block),
                 inodes |-> Allocator(total_inodes, {0}),
                 node |-> [i \in Ino |-> Blank]] IN
       disk = [d EXCEPT !.node[0] =
                  [mode |-> "dir", links |-> 2, size |-> blocksize, indirect |-> 0,
                   ext |-> <<[start |-> first_data_block, length |-> 1]>>,
                   ents |-> <<<<Entry(".", 0, HeaderSize + NameLen["."]),
                                Entry("..", 0, blocksize - HeaderSize - NameLen["."])>>>>]]
    /\ file = [c \in Client |-> Closed]
    /\ bytes = [c \in Client |-> 0]
    /\ changed = {}
    /\ want = [i \in Ino |-> 0]
    /\ spoilt = FALSE
    /\ requests = 0

--------------------------------------------------------------------------
\* The extents a client asks for, beginning with extent n.  If there is none and
\* blocks are wanted, one is made.
RECURSIVE Locations(_, _, _, _)
Locations(r, i, n, end) ==
    LET create == r.blocks > 0
        \* The extent is there in d, after get_extent and fill_extent; the size is
        \* rounded up if the file is to be extended, otherwise it ends the location.
        found(d, ch, empty) ==
          LET left == IF n = Len(d.node[i].ext) - 1 THEN d.node[i].size % blocksize ELSE 0
              rest == IF left = 0 THEN 0 ELSE blocksize - left IN
          [disk |-> IF create THEN [d EXCEPT !.node[i].size = @ + rest] ELSE d,
           locs |-> Append(r.locs, ch.length * blocksize - (IF create THEN 0 ELSE rest)),
           blocks |-> IF ch.length <= r.blocks THEN r.blocks - ch.length ELSE r.blocks,
           extended |-> r.extended \/ empty]
        filled(d1, d2) == IF d2 = d1 THEN [r EXCEPT !.disk = d1]
                          ELSE Locations(found(d2, Extent(d2, i, n), TRUE), i, n + 1, end)
        got(d1) == IF n < Len(d1.node[i].ext)
                   THEN Locations(found(d1, Extent(d1, i, n), FALSE), i, n + 1, end)
                   ELSE IF ~create \/ r.locs # << >> THEN [r EXCEPT !.disk = d1]
                   ELSE filled(d1, fill_extent(d1, i, r.blocks)) IN
    IF n = end THEN r ELSE got(get_extent(r.disk, i, n, create))

\* Mutant: the client gets one extent less than it asked for.
Mut_get_locs(d, i, extent, blocks) ==
    Locations([disk |-> d, locs |-> << >>, blocks |-> blocks, extended |-> FALSE],
              i, extent, extent + MAX_LOCS - 1)

get_locs(d, i, extent, blocks) ==
    Locations([disk |-> d, locs |-> << >>, blocks |-> blocks, extended |-> FALSE],
              i, extent, extent + MAX_LOCS)

\* Where byte "off" of a file is: an extent and an offset in it.
RECURSIVE ExtentOf(_, _, _)
ExtentOf(ext, n, off) ==
    IF n < Len(ext) /\ off >= ext[n + 1].length * blocksize
    THEN ExtentOf(ext, n + 1, off - ext[n + 1].length * blocksize)
    ELSE [extent |-> n, extoff |-> off]

seek_set(d, i, off) == ExtentOf(d.node[i].ext, 0, off)
seek_end(d, i) ==
    LET extoff == d.node[i].size % blocksize
        n == Len(d.node[i].ext) IN
    [extent |-> IF extoff = 0 THEN n ELSE n - 1, extoff |-> extoff]

--------------------------------------------------------------------------
Requested == requests < MaxRequests /\ requests' = requests + 1

\* A file is opened: first at the service, then RegularFile is created.
OpenFile(d, i, flags) ==
    LET inode == d.node[i]
        n == Len(inode.ext)
        mod == inode.size % blocksize
        keeps == n > 0 /\ {"w", "trunc"} \cap flags = {"w"}
        at == IF "append" \in flags THEN seek_end(d, i) ELSE [extent |-> 0, extoff |-> 0] IN
    [ino |-> i, flags |-> flags, orgsize |-> inode.size,
     orgextent |-> IF keeps THEN n - 1 ELSE 0,
     orgoff |-> IF keeps THEN Last(inode.ext).length * blocksize
                              - (IF mod = 0 THEN 0 ELSE blocksize - mod) ELSE 0,
     local |-> MAX_LOCS, global |-> at.extent, offset |-> at.extoff,
     extended |-> FALSE, last_extent |-> 0, last_off |-> 0, locs |-> << >>,
     op |-> "none", todo |-> 0]

MayOpen(i) == ~InUseToWrite(i)

Open(c, path, flags) ==
    /\ Requested
    /\ ~IsOpen(c)
    /\ MayOpen(Lookup(disk, path))
    /\ \E r \in {IF "create" \in flags THEN search_create(disk, path)
                 ELSE [disk |-> disk, ino |-> Lookup(disk, path), res |-> "ok"]} :
         /\ r.res # "null"
         /\ IF r.ino = INVALID_INO THEN disk' = r.disk /\ UNCHANGED <<file, bytes, changed, want>>
            ELSE \E d \in {IF "trunc" \in flags THEN truncate(r.disk, r.ino, 0, 0) ELSE r.disk} :
                /\ disk' = d
                /\ file' = [file EXCEPT ![c] = OpenFile(d, r.ino, flags)]
                /\ bytes' = [bytes EXCEPT ![c] = IF "append" \in flags THEN d.node[r.ino].size ELSE 0]
                /\ changed' = changed \cup (IF "w" \in flags THEN UsersOf(r.ino) ELSE {})
                /\ want' = IF "trunc" \in flags \/ Lookup(disk, path) = INVALID_INO
                           THEN [want EXCEPT ![r.ino] = 0] ELSE want
    /\ UNCHANGED spoilt

\* read and write work in a loop, which asks the service when it has used up the
\* extents it knows of.  What is in a file is not written over and extended at
\* once: get_locs counts the blocks of the extents it finds and hands out the last
\* one up to the end of the file when the count is used up (INodes.cc:98).
Limit(f) == IF f.orgsize = 0 \/ "append" \in f.flags THEN MaxSize ELSE f.orgsize

Transfer(c, n) ==
    /\ GoesOn(c) /\ file[c].todo = 0
    /\ \E op \in {"r", "w"} \cap file[c].flags :
         /\ op = "w" => bytes[c] + n <= Limit(file[c])
         /\ file' = [file EXCEPT ![c].op = op, ![c].todo = n]
    /\ UNCHANGED <<disk, bytes, changed, want, spoilt, requests>>

LocAt(f, n) == IF n < Len(f.locs) THEN f.locs[n + 1] ELSE 0
valid(f) == f.local < MAX_LOCS

\* Mutant: the offset is kept.
Mut_next_extent(f) == [f EXCEPT !.local = @ + 1, !.global = @ + 1]

next_extent(f) == [f EXCEPT !.local = @ + 1, !.global = @ + 1, !.offset = 0]

\* The extent for the position: its length, the file and the disk afterwards.
\* When no block is left the error code of the service is returned like a length
\* (error codes are positive numbers).
get_location(f, writing) ==
    LET at(f1, d) == [len |-> LocAt(f1, f1.local), file |-> f1, disk |-> d]
        asked(f1, r) == IF r.locs = << >>
                        THEN [len |-> IF writing THEN NO_SPACE ELSE 0, file |-> f1, disk |-> r.disk]
                        ELSE at(IF f1.offset = r.locs[1] THEN next_extent(f1) ELSE f1, r.disk)
        ask(r) == asked([f EXCEPT !.local = 0, !.locs = r.locs,
                                  !.extended = @ \/ r.extended], r) IN
    IF ~valid(f) \/ (writing /\ LocAt(f, f.local) = 0)
    THEN ask(get_locs(disk, f.ino, f.global, IF writing THEN WRITE_INC_BLOCKS ELSE 0))
    ELSE [len |-> IF f.extended /\ ~writing /\ f.global + f.local >= f.last_extent
                  THEN IF f.global + f.local > f.last_extent \/ f.offset >= f.last_off THEN 0
                       ELSE f.last_off
                  ELSE LocAt(f, f.local),
          file |-> f, disk |-> disk]

get_amount(f, len) == IF f.todo >= len - f.offset THEN len - f.offset ELSE f.todo

\* The position, and the largest one written to, after that many bytes.
Advance(f, len, writing) ==
    LET amount == get_amount(f, len)
        f1 == IF amount = len - f.offset THEN next_extent(f) ELSE [f EXCEPT !.offset = @ + amount] IN
    [f1 EXCEPT !.todo = @ - amount,
               !.last_extent = IF writing /\ f.global >= @ THEN f.global ELSE @,
               !.last_off = IF writing /\ (f.global > f.last_extent
                                           \/ (f.global = f.last_extent /\ f.offset + amount > @))
                            THEN f.offset + amount ELSE @]

\* get_locs is asked for MAX_LOCS extents and may make the indirect block of a
\* file whose extents fit into the inode; m3fsck (m3fsck.cc:98) takes offence.
IndirectNeeded(inode) == inode.indirect # 0 => Len(inode.ext) > INODE_DIR_COUNT

Chunk(c) ==
    /\ GoesOn(c) /\ file[c].todo > 0
    /\ LET writing == file[c].op = "w" IN
       \E loc \in {get_location(file[c], writing)} :
         /\ disk' = loc.disk
         /\ IF loc.len = 0
            THEN /\ file' = [file EXCEPT ![c] = [loc.file EXCEPT !.todo = 0]]
                 /\ UNCHANGED <<bytes, want>>
            ELSE LET end == bytes[c] + get_amount(loc.file, loc.len) IN
                 /\ file' = [file EXCEPT ![c] = Advance(loc.file, loc.len, writing)]
                 /\ bytes' = [bytes EXCEPT ![c] = end]
                 /\ want' = [want EXCEPT ![file[c].ino] = IF writing THEN Greater(@, end) ELSE @]
    /\ spoilt' = (spoilt \/ ~IndirectNeeded(disk'.node[file[c].ino]))
    /\ UNCHANGED <<changed, requests>>

adjust_written_part(f) ==
    IF f.extended /\ (f.global > f.last_extent \/ (f.global = f.last_extent /\ f.offset > f.last_off))
    THEN [f EXCEPT !.last_extent = f.global, !.last_off = f.offset] ELSE f

\* Clients seek to places in the file.
Seek(c, off) ==
    /\ GoesOn(c) /\ file[c].todo = 0 /\ off <= want[file[c].ino]
    /\ LET f == file[c]
           at == seek_set(disk, f.ino, off)
           moved == [f EXCEPT !.global = at.extent, !.offset = at.extoff,
                              !.local = IF at.extent = f.global THEN @ ELSE MAX_LOCS] IN
       file' = [file EXCEPT ![c] = adjust_written_part(moved)]
    /\ bytes' = [bytes EXCEPT ![c] = off]
    /\ UNCHANGED <<disk, changed, want, spoilt, requests>>

\* Mutant: the part that was written becomes the file.
Mut_cut(d, f) ==
    IF f.last_off = 0 \/ d.node[f.ino].size <= f.orgsize THEN d
    ELSE truncate(d, f.ino, f.last_extent, f.last_off)

\* What was allocated beyond the largest position written to, or beyond the
\* original size, is cut off.
cut(d, f) ==
    IF f.last_off = 0 \/ d.node[f.ino].size <= f.orgsize THEN d
    ELSE IF f.last_extent > f.orgextent \/ (f.last_extent = f.orgextent /\ f.last_off > f.orgoff)
    THEN truncate(d, f.ino, f.last_extent, f.last_off)
    ELSE [truncate(d, f.ino, f.orgextent, f.orgoff) EXCEPT !.node[f.ino].size = f.orgsize]

Close(c) ==
    /\ GoesOn(c) /\ file[c].todo = 0
    /\ disk' = cut(disk, file[c])
    /\ file' = [file EXCEPT ![c] = Closed]
    /\ bytes' = [bytes EXCEPT ![c] = 0]
    /\ changed' = changed \ {c}
    /\ UNCHANGED <<want, spoilt, requests>>

--------------------------------------------------------------------------
\* Requests about paths.  Nothing is said of what follows the access to a null
\* pointer in Links::create.
Done(r) == Requested /\ r.res # "null" /\ disk' = r.disk /\ UNCHANGED <<file, bytes, changed, want>>
Unused(path) == UsersOf(Lookup(disk, path)) = {}

Mkdir(path) ==
    \E r \in {Dirs_create(disk, path)} :
        Done(r) /\ spoilt' = (spoilt \/ (r.res = "NO_SPACE" /\ r.disk # disk))

Rmdir(path) == Done(Dirs_remove(disk, path)) /\ UNCHANGED spoilt

Link(old, new) == Done(Dirs_link(disk, old, new)) /\ UNCHANGED spoilt

Unlink(path) ==
    /\ Unused(path)
    /\ Done(Dirs_unlink(disk, path, FALSE)) /\ UNCHANGED spoilt

Rename(old, new) ==
    /\ Unused(new)
    /\ \E r \in {Dirs_rename(disk, old, new)} :
         Done(r) /\ spoilt' = (spoilt \/ r.res = "NO_SPACE")

Next ==
    \/ \E c \in Client :
         \/ \E path \in FilePaths, flags \in Flags : Open(c, path, flags)
         \/ \E n \in Amounts : Transfer(c, n)
         \/ Chunk(c)
         \/ \E off \in Offsets : Seek(c, off)
         \/ Close(c)
    \/ \E path \in DirPaths : Mkdir(path) \/ Rmdir(path)
    \/ \E path \in FilePaths : Unlink(path)
    \/ \E old, new \in FilePaths : Link(old, new) \/ Rename(old, new)

Spec == Init /\ [][Next]_vars

--------------------------------------------------------------------------
\* The disk is of its type, and the superblock counts its clear bits (m3fsck.cc:154).
Extents(i) == Range(disk.node[i].ext)
TypeOK ==
    /\ \A a \in {disk.blocks, disk.inodes} :
         a.set \subseteq 0..a.total - 1 /\ a.free = a.total - Cardinality(a.set)
    /\ \A i \in Ino : \A e \in Extents(i) : e.length > 0 /\ e.start + e.length <= total_blocks
    /\ \A c \in Client : IsOpen(c) => file[c].ino \in disk.inodes.set

\* No block is part of two inodes, or of one inode twice, and a block that is
\* part of one is marked as used.
BlocksOf(i) ==
    UNION {e.start..e.start + e.length - 1 : e \in Extents(i)} \cup ({disk.node[i].indirect} \ {0})
Count(i) ==
    MapThenSumSet(LAMBDA n : disk.node[i].ext[n].length, 1..Len(disk.node[i].ext))
    + (IF disk.node[i].indirect = 0 THEN 0 ELSE 1)
UsedOnce ==
    LET used == UNION {BlocksOf(i) : i \in disk.inodes.set} IN
    /\ used \subseteq disk.blocks.set \ (0..first_data_block - 1)
    /\ Cardinality(used) = MapThenSumSet(Count, disk.inodes.set)

\* As long as nothing was spoilt, the bitmaps mark what has a name and nothing
\* else, and the links of a file are its names.
Named_in(i) == {disk.node[i].ents[x[1]][x[2]] : x \in Positions(disk.node[i].ents)}
Children(i) == {e.ino : e \in {e \in Named_in(i) : e.name # ""}}
Reached == LET R1 == Children(0)
               R2 == UNION {Children(i) : i \in R1} IN R2 \cup UNION {Children(i) : i \in R2}
LinksTo(i) ==
    MapThenSumSet(LAMBDA j : Cardinality({x \in Positions(disk.node[j].ents) :
        disk.node[j].ents[x[1]][x[2]].ino = i /\ disk.node[j].ents[x[1]][x[2]].name # ""}), Reached)
AllNamed ==
    /\ disk.inodes.set = Reached
    /\ disk.blocks.set = 0..first_data_block - 1 \cup UNION {BlocksOf(i) : i \in Reached}
    /\ \A i \in Reached :
         /\ IndirectNeeded(disk.node[i])
         /\ disk.node[i].mode = "reg" => disk.node[i].links = LinksTo(i)
DiskExact == UsedOnce /\ (~spoilt => AllNamed)

\* The extent and the offset in it that a client goes on writing at are the byte
\* of the file it is at.
Start(i, n) == MapThenSumSet(LAMBDA k : disk.node[i].ext[k].length * blocksize, 1..n)
WriteLands ==
    \A c \in Client : GoesOn(c) /\ Writes(c) /\ file[c].todo > 0 =>
        /\ file[c].global <= Len(disk.node[file[c].ino].ext)
        /\ Start(file[c].ino, file[c].global) + file[c].offset = bytes[c]

\* A file nobody writes to is as large as what was written to it.
SizeIsWritten ==
    \A i \in disk.inodes.set :
        disk.node[i].mode = "reg" /\ ~InUseToWrite(i) => disk.node[i].size = want[i]

\* A client that reads nothing is at the end of the file, unless another client
\* has opened the file for writing since it was opened.
ReadsStep ==
    \A c \in Client \ changed :
        IsOpen(c) /\ file[c].todo > 0 /\ file[c].op = "r" /\ Chunk(c) /\ bytes'[c] = bytes[c]
            => bytes[c] = want[file[c].ino]
=============================================================================
