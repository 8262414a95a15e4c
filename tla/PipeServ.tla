------------------------------- MODULE PipeServ -------------------------------
(***************************************************************************)
(* The pipe service and its clients (apps/pipeserv, IndirectPipeReader and *)
(* IndirectPipeWriter).  A client asks the service where to read or write, *)
(* then copies the data itself; that it has done so, it says with its next *)
(* request or with close.  A request that cannot be granted waits in the   *)
(* service.  Each end has one VPE that uses it; another one, which created *)
(* the pipe, only closes it.                                               *)
(***************************************************************************)
EXTENDS Integers, Sequences, SequencesExt

CONSTANTS
    Size, DTU_PKG_SIZE,
    Programs,       \* sequences of the sizes that the writer writes
    Reads           \* sizes of the reader's calls

VARIABLES
    rbuf,           \* PipeSessionData::rbuf
    eof,            \* PipeSessionData::flags
    rh, wh,         \* PipeReadHandler and PipeWriteHandler
    rpc, wpc,       \* what the two clients do
    rcl, wcl,       \* what they asked for and got
    left,           \* ends the creator of the pipe has still open
    program,        \* what the writer has still to write
    mem, sent, got  \* the memory; bytes written; what the last read returned

vars == <<rbuf, eof, rh, wh, rpc, wpc, rcl, wcl, left, program, mem, sent, got>>

Buf == INSTANCE VarRingBuf
None == -1
Bytes(pos, len) == [i \in 1..len |-> mem[pos + i - 1]]

\* Both ends are attached twice: by the creator and by the VPE that uses them.
Init ==
    /\ rbuf = Buf!empty
    /\ eof = {}
    /\ rh = [last |-> 0, id |-> 0, pending |-> << >>, refs |-> 2]
    /\ wh = [last |-> 0, id |-> 0, pending |-> << >>, refs |-> 2]
    /\ rpc = "idle" /\ wpc = "idle"
    /\ rcl = [amount |-> 0, pos |-> 0, id |-> 0]
    /\ wcl = [amount |-> 0, pos |-> 0, id |-> 0]
    /\ left = {"read", "write"}
    /\ program \in Programs
    /\ mem = [i \in 0..(Size - 1) |-> 0]
    /\ sent = 0 /\ got = << >>

(***************************************************************************)
(* The service.  Its state is a record s of the ring b, the two handlers r *)
(* and w, and the answers to the clients, which are None or a record.      *)
(***************************************************************************)
State == [b |-> rbuf, r |-> rh, w |-> wh, eof |-> eof, toReader |-> << >>, toWriter |-> << >>,
          pushed |-> 0]

Answer(pos, amount, id) == <<[pos |-> pos, amount |-> amount, id |-> id]>>

\* A read that can be granted is, with a new id; the data stays in the ring.
GrantRead(s, amount) ==
    LET g == Buf!get_read_pos(s.b, amount) IN
    [s EXCEPT !.r.id = @ + 1, !.r.last = g.size, !.toReader = Answer(g.pos, g.size, s.r.id + 1)]

CanRead(s, amount) == Buf!get_read_pos(s.b, amount).pos # None
EndOfFile == Answer(None, 0, 0)

handle_pending_read(s) ==
    CASE s.r.pending = << >> -> s
      [] s.r.pending # << >> /\ CanRead(s, Head(s.r.pending)) ->
           [GrantRead(s, Head(s.r.pending)) EXCEPT !.r.pending = Tail(@)]
      [] s.r.pending # << >> /\ ~CanRead(s, Head(s.r.pending)) /\ "WRITE_EOF" \in s.eof ->
           [s EXCEPT !.r.pending = << >>, !.toReader = EndOfFile]
      [] OTHER -> s

CanWrite(s, amount) == Buf!get_write_pos(Buf!aligned(s.b), amount) # None
GrantWrite(s, amount) ==
    LET b == Buf!aligned(s.b) IN
    [s EXCEPT !.b = b, !.w.id = @ + 1, !.w.last = amount,
              !.toWriter = Answer(Buf!get_write_pos(b, amount), amount, s.w.id + 1)]

handle_pending_write(s) ==
    CASE "READ_EOF" \in s.eof ->
           IF s.w.pending = << >> THEN s ELSE [s EXCEPT !.w.pending = << >>, !.toWriter = EndOfFile]
      [] "READ_EOF" \notin s.eof /\ s.w.pending # << >> /\ CanWrite(s, Head(s.w.pending)) ->
           [GrantWrite(s, Head(s.w.pending)) EXCEPT !.w.pending = Tail(@)]
      [] "READ_EOF" \notin s.eof /\ s.w.pending # << >> /\ ~CanWrite(s, Head(s.w.pending)) ->
           [s EXCEPT !.b = Buf!aligned(@)]
      [] OTHER -> s

\* The last grant is over when its client names its id.
pulled(s, id) ==
    IF s.r.last # 0 /\ s.r.id = id
    THEN [s EXCEPT !.b = Buf!pull(@, s.r.last), !.r.last = 0] ELSE s
pushed(s, id) ==
    IF s.w.last # 0 /\ s.w.id = id
    THEN [s EXCEPT !.b = Buf!push(@, s.w.last), !.w.last = 0, !.pushed = s.w.last] ELSE s

\* The end of PipeReadHandler::read and PipeWriteHandler::write: the request
\* is granted, refused or appended to those that wait.
ReadWaits(s, amount) == [s EXCEPT !.r.pending = Append(@, amount)]
ReadOrWait(s, amount) ==
    CASE CanRead(s, amount) -> GrantRead(s, amount)
      [] ~CanRead(s, amount) /\ "WRITE_EOF" \in s.eof -> [s EXCEPT !.toReader = EndOfFile]
      [] OTHER -> ReadWaits(s, amount)

WriteWaits(s, amount) == [s EXCEPT !.w.pending = Append(@, amount)]
WriteOrWait(s, amount) ==
    IF CanWrite(s, amount) THEN GrantWrite(s, amount)
    ELSE WriteWaits([s EXCEPT !.b = Buf!aligned(@)], amount)

\* A request is handled: s is the new state.  A client that gets an answer
\* copies next; one that is told the end of file gets an amount of 0.
Handled(s) ==
    /\ rbuf' = s.b /\ rh' = s.r /\ wh' = s.w /\ eof' = s.eof
    /\ sent' = sent + s.pushed

Answered(pc, a) == IF a = << >> THEN pc ELSE IF a[1].amount = 0 THEN "eof" ELSE "copy"
Delivered(s, r, w) ==
    /\ rpc' = Answered(r, s.toReader)
    /\ rcl' = IF s.toReader = << >> THEN rcl ELSE s.toReader[1]
    /\ wpc' = Answered(w, s.toWriter)
    /\ wcl' = IF s.toWriter \in {<< >>, EndOfFile} THEN wcl ELSE s.toWriter[1]

(***************************************************************************)
(* The clients.  A request and its handling are one step.                  *)
(***************************************************************************)
Read(amount) ==
    LET open == rh.last # 0
        others == open /\ rh.id # rcl.id IN
    /\ rpc = "idle"
    /\ \E s1 \in {pulled(State, rcl.id)} :
       \E s2 \in {IF open /\ ~others THEN handle_pending_write(s1) ELSE s1} :
       \E s3 \in {IF others THEN s2 ELSE handle_pending_read(s2)} :
       \E s \in {IF others \/ (s2.r.pending # << >> /\ "WRITE_EOF" \notin eof)
                 THEN ReadWaits(s3, amount) ELSE ReadOrWait(s3, amount)} :
         Handled(s) /\ Delivered(s, "wait", wpc)
    /\ UNCHANGED <<left, program, mem, got>>

CopyOut ==
    /\ rpc = "copy"
    /\ got' = Bytes(rcl.pos, rcl.amount)
    /\ rpc' = "idle"
    /\ UNCHANGED <<rbuf, eof, rh, wh, wpc, rcl, wcl, left, program, mem, sent>>

Write ==
    LET amount == Head(program)
        open == wh.last # 0
        others == open /\ wh.id # wcl.id
        gone == "READ_EOF" \in eof IN
    /\ wpc = "idle" /\ program # << >>
    /\ program' = Tail(program)
    /\ \E s1 \in {IF gone THEN State ELSE pushed(State, wcl.id)} :
       \E s2 \in {IF open /\ ~others /\ ~gone THEN handle_pending_read(s1) ELSE s1} :
       \E s3 \in {IF others \/ gone THEN s2 ELSE handle_pending_write(s2)} :
       \E s \in {CASE gone -> [s3 EXCEPT !.toWriter = EndOfFile]
                   [] ~gone /\ (others \/ s2.w.pending # << >>) -> WriteWaits(s3, amount)
                   [] OTHER -> WriteOrWait(s3, amount)} :
         Handled(s) /\ Delivered(s, rpc, "wait")
    /\ UNCHANGED <<left, mem, got>>

\* The writer copies whole packages.
CopyIn ==
    /\ wpc = "copy"
    /\ mem' = [i \in DOMAIN mem |->
                 IF i \notin wcl.pos..(wcl.pos + Buf!ringAlign(wcl.amount) - 1) THEN mem[i]
                 ELSE IF i < wcl.pos + wcl.amount THEN sent + i - wcl.pos + 1 ELSE 0]
    /\ wpc' = "idle"
    /\ UNCHANGED <<rbuf, eof, rh, wh, rpc, rcl, wcl, left, program, sent, got>>

\* PipeReadHandler::close for a client with that id, which does "pc" next.
closeRead(id, pc) ==
    \E s1 \in {[pulled(State, id) EXCEPT !.r.refs = @ - 1]} :
    \E s2 \in {IF s1.r.refs > 0 THEN handle_pending_read(s1)
               ELSE [s1 EXCEPT !.eof = @ \cup {"READ_EOF"}]} :
    \E s \in {handle_pending_write(s2)} : Handled(s) /\ Delivered(s, pc, wpc)

\* Mutant: the first writer that closes ends the file.
Mut_closeWrite(id, pc) ==
    \E s1 \in {[pushed(State, id) EXCEPT !.w.refs = @ - 1, !.eof = @ \cup {"WRITE_EOF"}]} :
    \E s \in {handle_pending_read(s1)} : Handled(s) /\ Delivered(s, rpc, pc)

\* PipeWriteHandler::close
closeWrite(id, pc) ==
    \E s1 \in {[pushed(State, id) EXCEPT !.w.refs = @ - 1]} :
    \E s2 \in {IF s1.w.refs > 0 THEN handle_pending_write(s1)
               ELSE [s1 EXCEPT !.eof = @ \cup {"WRITE_EOF"}]} :
    \E s \in {handle_pending_read(s2)} : Handled(s) /\ Delivered(s, rpc, pc)

CloseReader ==
    /\ rpc \in {"idle", "eof"}
    /\ closeRead(rcl.id, "closed")
    /\ UNCHANGED <<left, program, mem, got>>

CloseWriter ==
    /\ wpc \in {"idle", "eof"}
    /\ closeWrite(wcl.id, "closed")
    /\ UNCHANGED <<left, program, mem, got>>

\* The creator of the pipe, which has never read or written, closes an end.
CloseCreator(end) ==
    /\ end \in left
    /\ left' = left \ {end}
    /\ IF end = "read" THEN closeRead(0, rpc) ELSE closeWrite(0, wpc)
    /\ UNCHANGED <<program, mem, got>>

ReaderStep == (\E n \in Reads : Read(n)) \/ CopyOut \/ CloseReader
WriterStep == Write \/ CopyIn \/ CloseWriter
Next == ReaderStep \/ WriterStep \/ \E end \in {"read", "write"} : CloseCreator(end)

\* Every VPE goes on and closes what it has opened.
Fairness == WF_vars(Next)

Spec == Init /\ [][Next]_vars
FairSpec == Spec /\ Fairness

(***************************************************************************)
(* Properties.                                                             *)
(***************************************************************************)
\* The state is of its type.
TypeOK ==
    /\ rbuf \in Buf!Ring
    /\ eof \subseteq {"READ_EOF", "WRITE_EOF"}
    /\ \A h \in {rh, wh} : /\ h.last \in 0..Size /\ h.id \in Nat /\ h.refs \in 0..2
                           /\ h.pending \in Seq(1..Size) /\ Len(h.pending) <= 1
    /\ rpc \in {"idle", "wait", "copy", "eof", "closed"}
    /\ wpc \in {"idle", "wait", "copy", "eof", "closed"}

\* The bytes of the ring that the reader has not copied.
Ring ==
    IF rbuf.last # 0 THEN Bytes(rbuf.rdpos, rbuf.last - rbuf.rdpos) \o Bytes(0, rbuf.wrpos)
    ELSE Bytes(rbuf.rdpos, rbuf.wrpos - rbuf.rdpos)
Contents == IF rpc = "copy" THEN Ring ELSE SubSeq(Ring, rh.last + 1, Len(Ring))

\* The service is a pipe (module BytePipe): what is read was written, in
\* order, and a writer that copies does not destroy what is still to be read.
Abstract == INSTANCE BytePipe WITH q <- Contents, n <- sent
PipeStep == Abstract!Next \/ UNCHANGED <<Contents, sent, got>>

\* A read returns 0 only when all writers have closed the pipe and everything
\* has been read (File::read: "0 = EOF").
EofIsEnd ==
    rpc = "eof" => /\ wpc = "closed" /\ "write" \notin left /\ Contents = << >>
                   /\ sent > 0 => got # << >> /\ got[Len(got)] = sent

\* All calls return and both ends are closed in the end.
BothClose == <>(wpc = "closed" /\ rpc = "closed")
=============================================================================
