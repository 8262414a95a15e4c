------------------------------ MODULE DirectPipe ------------------------------
(***************************************************************************)
(* The pipe between two VPEs (DirectPipeWriter, DirectPipeReader): a ring  *)
(* in shared memory, messages (position, length) from the writer to the    *)
(* reader and replies (length) back.  A reply of length 0 says that the    *)
(* reader has gone, a message of length 0 that the writer has.             *)
(***************************************************************************)
EXTENDS Integers, Sequences, SequencesExt

CONSTANTS
    Size,           \* of the shared memory, a multiple of DTU_PKG_SIZE
    DTU_PKG_SIZE,
    Cap,            \* MSG_BUF_SIZE / MSG_SIZE
    Writes, Reads,  \* the sizes of the calls
    MaxBytes        \* bound: no write begins after so many bytes

VARIABLES
    mem,        \* the shared memory
    msgs,       \* messages on their way to the reader
    replies,    \* replies on their way to the writer
    wpc, wr,    \* what the writer does, and DirectPipeWriter::State
    rpc, rd,    \* what the reader does, and DirectPipeReader::State
    sent, got   \* bytes written so far; what the last read returned

vars == <<mem, msgs, replies, wpc, wr, rpc, rd, sent, got>>

None == -1
round_up(x) == ((x + DTU_PKG_SIZE - 1) \div DTU_PKG_SIZE) * DTU_PKG_SIZE
Least(x, y) == IF x < y THEN x ELSE y
Bytes(pos, len) == [i \in 1..len |-> mem[pos + i - 1]]

Init ==
    /\ mem = [i \in 0..(Size - 1) |-> 0]
    /\ msgs = << >> /\ replies = << >>
    /\ wpc = "idle"
    /\ wr = [free |-> Size, rdpos |-> 0, wrpos |-> 0, capacity |-> Cap, eof |-> {}, rem |-> 0]
    /\ rpc = "idle"
    /\ rd = [pos |-> 0, rem |-> 0, pkglen |-> None, eof |-> {}, count |-> 0]
    /\ sent = 0 /\ got = << >>

(***************************************************************************)
(* The writer.                                                             *)
(***************************************************************************)
\* Where the next bytes go, and how many fit there.
find_spot(w, len) ==
    CASE w.free = 0 -> [off |-> None, len |-> len]
      [] w.free # 0 /\ w.wrpos >= w.rdpos -> [off |-> w.wrpos, len |-> Least(len, Size - w.wrpos)]
      [] w.free # 0 /\ w.wrpos < w.rdpos -> [off |-> w.wrpos, len |-> Least(len, w.rdpos - w.wrpos)]

\* The writer takes a reply: part of the ring is free again.
received(w, len) ==
    [w EXCEPT !.rdpos = (@ + round_up(len)) % Size, !.free = @ + round_up(len),
              !.capacity = @ + 1]

Write(count) ==
    /\ wpc = "idle" /\ sent < MaxBytes /\ wr.eof = {}
    /\ wr' = [wr EXCEPT !.rem = count]
    /\ wpc' = "write"
    /\ UNCHANGED <<mem, msgs, replies, rpc, rd, sent, got>>

\* ~DirectPipeWriter: send_eof is a write of nothing.
CloseWriter ==
    /\ wpc = "idle"
    /\ wpc' = IF wr.eof = {} THEN "send_eof" ELSE "read_replies"
    /\ wr' = [wr EXCEPT !.rem = 0]
    /\ UNCHANGED <<mem, msgs, replies, rpc, rd, sent, got>>

\* The loop of write is left; send_eof goes on with read_replies.
Return(w) ==
    /\ wpc' = IF wpc = "write" THEN "idle" ELSE "read_replies"
    /\ wr' = [w EXCEPT !.rem = 0,
                       !.eof = IF wpc = "send_eof" THEN @ \cup {"WRITE_EOF"} ELSE @]

\* The bytes go into the ring at "spot" and the reader is told.
Push(w, spot) ==
    LET amount == Least(spot.len, w.rem)
        left == w.rem - spot.len
        w2 == [w EXCEPT !.free = @ - spot.len, !.capacity = @ - 1, !.rem = left,
                        !.wrpos = IF spot.len > 0 THEN (spot.off + spot.len) % Size ELSE @] IN
    /\ mem' = [i \in DOMAIN mem |->
                 IF i \in spot.off..(spot.off + spot.len - 1)
                 THEN (IF i < spot.off + amount THEN sent + i - spot.off + 1 ELSE 0) ELSE mem[i]]
    /\ msgs' = Append(msgs, [pos |-> spot.off, len |-> amount])
    /\ sent' = sent + amount
    /\ IF left > 0 THEN wr' = w2 /\ UNCHANGED wpc ELSE Return(w2)

\* One turn of the loop of write.  Without a spot or a message slot it takes
\* a reply first; then the spot is looked for again if there was none.
WriteChunk ==
    LET len == round_up(wr.rem)
        spot == find_spot(wr, len)
        w == received(wr, Head(replies))
        again == IF spot.off = None THEN find_spot(w, len) ELSE spot IN
    /\ wpc \in {"write", "send_eof"}
    /\ IF wr.capacity > 0 /\ spot.off # None
         THEN Push(wr, spot) /\ UNCHANGED replies
         ELSE /\ replies # << >>
              /\ replies' = Tail(replies)
              /\ IF Head(replies) = 0
                   THEN /\ Return([w EXCEPT !.eof = @ \cup {"READ_EOF"}])
                        /\ UNCHANGED <<mem, msgs, sent>>
                   ELSE IF again.off = None THEN Return(w) /\ UNCHANGED <<mem, msgs, sent>>
                   ELSE Push(w, again)
    /\ UNCHANGED <<rpc, rd, got>>

\* read_replies: until all messages are answered or the reader has gone.
ReadReply ==
    /\ wpc = "read_replies"
    /\ IF "READ_EOF" \in wr.eof \/ wr.capacity = Cap
         THEN wpc' = "closed" /\ UNCHANGED <<wr, replies>>
         ELSE /\ replies # << >>
              /\ replies' = Tail(replies)
              /\ wr' = [wr EXCEPT !.capacity = @ + 1]
              /\ wpc' = IF Head(replies) = 0 THEN "closed" ELSE wpc
    /\ UNCHANGED <<mem, msgs, rpc, rd, sent, got>>

(***************************************************************************)
(* The reader.                                                             *)
(***************************************************************************)
\* The end of read, with r.rem bytes at r.pos.
Copy(r) ==
    LET amount == Least(r.count, r.rem) IN
    /\ got' = IF amount = 0 THEN got ELSE Bytes(r.pos, amount)
    /\ rd' = IF amount = 0 THEN [r EXCEPT !.eof = @ \cup {"WRITE_EOF"}]
             ELSE [r EXCEPT !.pos = @ + round_up(amount), !.rem = @ - amount]
    /\ rpc' = "idle"

\* A call of read.  Once a message is used up it is answered and the next
\* one is waited for.
Read(count) ==
    /\ rpc = "idle" /\ rd.eof = {}
    /\ IF rd.rem = 0
         THEN /\ replies' = IF rd.pos > 0 THEN Append(replies, rd.pkglen) ELSE replies
              /\ rpc' = "receive"
              /\ rd' = [rd EXCEPT !.count = count]
              /\ UNCHANGED got
         ELSE Copy([rd EXCEPT !.count = count]) /\ UNCHANGED replies
    /\ UNCHANGED <<mem, msgs, wpc, wr, sent>>

Receive ==
    /\ rpc = "receive" /\ msgs # << >>
    /\ msgs' = Tail(msgs)
    /\ Copy([rd EXCEPT !.pos = Head(msgs).pos, !.pkglen = Head(msgs).len, !.rem = Head(msgs).len])
    /\ UNCHANGED <<mem, replies, wpc, wr, sent>>

\* Mutant: a reader that has got nothing leaves without a reply.
Mut_CloseReader ==
    /\ rpc = "idle"
    /\ replies' = IF rd.pkglen = None THEN replies ELSE Append(replies, 0)
    /\ rpc' = "closed"
    /\ UNCHANGED <<mem, msgs, rd, wpc, wr, sent, got>>

\* ~DirectPipeReader: send_eof answers the message it has, or waits for one.
CloseReader ==
    /\ rpc = "idle"
    /\ rd.pkglen = None => msgs # << >>
    /\ msgs' = IF rd.pkglen = None THEN Tail(msgs) ELSE msgs
    /\ replies' = Append(replies, 0)
    /\ rd' = [rd EXCEPT !.eof = @ \cup {"READ_EOF"}]
    /\ rpc' = "closed"
    /\ UNCHANGED <<mem, wpc, wr, sent, got>>

WriterRuns == WriteChunk \/ ReadReply
WriterCalls == CloseWriter \/ \E c \in Writes : Write(c)
ReaderRuns == Receive
ReaderCalls == CloseReader \/ \E c \in Reads : Read(c)
Next == WriterRuns \/ WriterCalls \/ ReaderRuns \/ ReaderCalls

\* Calls go on while they can, and "after being done with reading/writing, you
\* need to close the file descriptor to notify the other end" (DirectPipe.h).
Fairness == WF_vars(Next)

Spec == Init /\ [][Next]_vars
FairSpec == Spec /\ Fairness

(***************************************************************************)
(* Properties.                                                             *)
(***************************************************************************)
\* The messages the writer has not been told the end of, in order, and the
\* bytes of the ring they occupy.
Held == (IF rd.pkglen # None /\ rpc # "receive" THEN <<rd.pkglen>> ELSE << >>)
        \o [i \in DOMAIN msgs |-> msgs[i].len]
Total(lens) == FoldSeq(LAMBDA x, y : round_up(x) + y, 0, lens)

\* The state is of its type, and the writer's account of the ring is exact: a
\* byte is free or part of a message the reader holds or has answered.
TypeOK ==
    /\ wpc \in {"idle", "write", "send_eof", "read_replies", "closed"}
    /\ rpc \in {"idle", "receive", "closed"}
    /\ wr.rdpos \in 0..(Size - 1) /\ wr.wrpos \in 0..(Size - 1) /\ wr.free \in 0..Size
    /\ wr.capacity \in 0..Cap
    /\ wpc \notin {"read_replies", "closed"} /\ rpc # "closed" =>
         /\ wr.capacity + Len(Held) + Len(replies) = Cap
         /\ wr.free + Total(Held) + Total(replies) = Size

\* The pipe is a pipe (module BytePipe): the reader gets what was written, in
\* order, and the writer never overwrites what the reader has still to read.
Contents ==
    Bytes(rd.pos, rd.rem) \o FlattenSeq([i \in DOMAIN msgs |-> Bytes(msgs[i].pos, msgs[i].len)])
Abstract == INSTANCE BytePipe WITH q <- Contents, n <- sent
PipeStep == Abstract!Next \/ UNCHANGED <<Contents, sent, got>> \/ rpc' = "closed"

\* A read returns 0 only when the writer has closed the pipe and everything
\* has been read (File::read: "0 = EOF").
EofIsEnd ==
    "WRITE_EOF" \in rd.eof => /\ wpc \in {"read_replies", "closed"}
                              /\ Contents = << >>
                              /\ sent > 0 => got # << >> /\ got[Len(got)] = sent

\* Both ends come to their end whatever the other does: nobody waits forever
\* for a message or a reply, closing included.
BothClose == <>(wpc = "closed" /\ rpc = "closed")
=============================================================================
