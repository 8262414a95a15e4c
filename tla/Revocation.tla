----------------------------- MODULE Revocation -----------------------------
(***************************************************************************)
(* Distributed revocation of capabilities (apps/kernel/cap/CapTable.cc,    *)
(* cap/Revocations.h, cap/Revocations.cc and the revoke, revokeFinish,     *)
(* removeChildCapPtr and exchangeOverSession kernelcalls).                 *)
(*                                                                         *)
(* A capability is named by its DDL key; the key determines the VPE whose  *)
(* table holds it and thereby the kernel responsible for it.  Kernels      *)
(* share nothing: a capability lists its children by key, and a child on   *)
(* another kernel is revoked by a message.                                 *)
(*                                                                         *)
(* A kernel runs one thread at a time and switches only when the thread    *)
(* waits, so a call of revoke_rec or notifySubscribers is a run of small   *)
(* steps during which the kernel handles nothing else (act[k]).  Message   *)
(* slots are taken to suffice here (KPEChannel is about them).             *)
(***************************************************************************)
EXTENDS Integers, Sequences, FiniteSets

CONSTANTS
    Kernel,       \* the kernels
    Vpe,          \* the VPEs: one capability table each
    Cap,          \* the keys of object capabilities: a VPE and a selector
    VpeKernel,    \* the kernel that manages a VPE
    Owner,        \* the VPE in whose table the key lies
    InitParent,   \* the capability forest at the start: parent or None
    InitLive,     \* and the selectors that are in use
    Revocable,    \* selectors for which the VPEs issue a revoke system call
    Exiting,      \* the VPEs that may exit
    Obtainable,   \* selectors into which the VPEs obtain capabilities
    CleanReuse,   \* whether they refill a selector only when no trace of it is left
    None

Home == [c \in Cap |-> VpeKernel[Owner[c]]]

ASSUME ConstantsAssumption ==
    /\ None \notin Cap \cup Vpe \cup Kernel
    /\ Cap \cap Vpe = {}
    /\ VpeKernel \in [Vpe -> Kernel]
    /\ Owner \in [Cap -> Vpe]
    /\ InitLive \subseteq Cap
    /\ InitParent \in [Cap -> Cap \cup {None}]
    /\ \A c \in InitLive : InitParent[c] \in InitLive \cup {None}
    /\ Revocable \subseteq Cap /\ Obtainable \subseteq Cap
    /\ Exiting \subseteq Vpe
    /\ CleanReuse \in BOOLEAN

VARIABLES
    live,      \* keys with a capability in the table of their VPE
    parent,    \* Capability::_parent of the capability (last one) at a key
    children,  \* Capability::_children, as a set of keys
    rev,       \* the RevocationLists: the entry for a key, or NoEntry
    msgs,      \* kernelcalls in flight
    pc,        \* what the system call of a VPE is doing
    cur,       \* the capability it is about
    done,      \* the capability whose revoke system call returned last
    halted,    \* whether a kernel followed a null pointer or panicked
    act        \* what the running thread of a kernel is doing

vars == <<live, parent, children, rev, msgs, pc, cur, done, halted, act>>

Caps(v) == {c \in Cap : Owner[c] = v}

(***************************************************************************)
(* Data.                                                                   *)
(***************************************************************************)
NoEntry == [kind |-> "none", parent |-> None, origin |-> None,
            awaitedResp |-> 0, tid |-> None, subs |-> {}]

Entry == [kind : {"entry"}, parent : Cap \cup {None}, origin : Cap,
          awaitedResp : Int, tid : Vpe \cup {None}, subs : SUBSET Cap]

\* One activation of revoke_rec.  "ongoing" is the local variable of that
\* name: whether this activation added the entry of its capability.
Frame == [cap : Cap, parent : Cap \cup {None}, kids : SUBSET Cap,
          ongoing : BOOLEAN]

Idle == [mode |-> "idle", thr |-> None, origin |-> None, req |-> None,
         stack |-> << >>, pend |-> {}, fin |-> None]

Activity == [mode : {"idle", "rec", "notify"}, thr : Vpe \cup {None},
             origin : Cap \cup {None}, req : Cap \cup {None},
             stack : Seq(Frame), pend : SUBSET (Cap \X Cap),
             fin : Cap \cup {None}]

\* Mutant: the message carries the VPE of the origin instead of its key.
Mut_Revoke(c, p, o) ==
    [op |-> "revoke", cap |-> c, parent |-> p, origin |-> Owner[o]]

Revoke(c, p, o) == [op |-> "revoke", cap |-> c, parent |-> p, origin |-> o]
RevokeFinish(c, p) == [op |-> "revokeFinish", cap |-> c, parent |-> p,
                       origin |-> None]
RemoveChild(c, p) == [op |-> "removeChildCapPtr", cap |-> c, parent |-> p,
                      origin |-> None]
Exchange(c, p) == [op |-> "exchange", cap |-> c, parent |-> p,
                   origin |-> None]
ExchangeReply(c, p) == [op |-> "exchangeReply", cap |-> c, parent |-> p,
                        origin |-> None]

Message == [op : {"revoke", "revokeFinish", "removeChildCapPtr", "exchange",
                  "exchangeReply"},
            cap : Cap, parent : Cap \cup {None}, origin : Cap \cup {None}]

Init ==
    /\ live = InitLive
    /\ parent = InitParent
    /\ children = [p \in Cap |-> {c \in InitLive : InitParent[c] = p}]
    /\ rev = [c \in Cap |-> NoEntry]
    /\ msgs = {}
    /\ pc = [v \in Vpe |-> "idle"]
    /\ cur = [v \in Vpe |-> None]
    /\ done = [v \in Vpe |-> None]
    /\ halted = [k \in Kernel |-> "no"]
    /\ act = [k \in Kernel |-> Idle]

(***************************************************************************)
(* Helpers.                                                                *)
(***************************************************************************)
CanRun(k) == halted[k] = "no" /\ act[k].mode = "idle"

\* A null pointer is followed, or RevocationList::add panics: the kernel
\* does not run on.
Halt(k, why) == halted' = [halted EXCEPT ![k] = why]

HasEntry(c) == rev[c] # NoEntry

\* MHTInstance::get of a local capability key fills one of its result items
\* with the key and length 1 whether or not the table has a capability, so
\* MHTItem::isEmpty of the result is never true: the branches of revoke_rec
\* and of the revoke handler for an empty item are not taken, and a missing
\* capability shows as null data.
\* PEManager::vpe follows the entry of the VPE, which is null once the VPE
\* is removed; every use of a capability without a check follows its data.
VpeGone(c) == pc[Owner[c]] = "gone"
NullData(c) == VpeGone(c) \/ c \notin live

\* Entering revoke_rec for c: move the children out, unset the selector.
FrameOf(c) == [cap |-> c, parent |-> parent[c], kids |-> children[c],
               ongoing |-> FALSE]
Unset(c) ==
    /\ live' = live \ {c}
    /\ children' = [children EXCEPT ![c] = {}]

Top(k) == act[k].stack[Len(act[k].stack)]
Below(k) == SubSeq(act[k].stack, 1, Len(act[k].stack) - 1)
WithTop(k, f) == Append(Below(k), f)

\* RevocationList::add, with the constructor's choice of the thread id.
NewEntry(k, f, n) ==
    [kind |-> "entry", parent |-> f.parent, origin |-> act[k].origin,
     awaitedResp |-> n, subs |-> {},
     tid |-> IF act[k].origin = f.cap THEN act[k].thr ELSE None]

\* "if(!ongoing) ongoing = add(...)" followed by "awaitedResp += n".  A second
\* entry for a key is a PANIC (in the builds without NDEBUG, which this models).
CanAwait(f) == f.ongoing \/ ~HasEntry(f.cap)
Await(k, f, n) ==
    IF f.ongoing THEN [rev[f.cap] EXCEPT !.awaitedResp = @ + n]
                 ELSE NewEntry(k, f, n)

(***************************************************************************)
(* Starting a revocation.                                                  *)
(***************************************************************************)
StartRec(k, v, c, o, req) ==
    /\ act' = [act EXCEPT ![k] = [Idle EXCEPT !.mode = "rec", !.thr = v,
                     !.origin = o, !.req = req, !.stack = <<FrameOf(c)>>]]
    /\ Unset(c)

\* The revoke system call for a selector in use: this thread is the root.
RevokeSyscall(v, c) ==
    LET k == VpeKernel[v] IN
    /\ CanRun(k) /\ pc[v] = "idle" /\ Owner[c] = v
    /\ c \in Revocable \cap live
    /\ StartRec(k, v, c, c, None)
    /\ pc' = [pc EXCEPT ![v] = "revoke"]
    /\ cur' = [cur EXCEPT ![v] = c]
    /\ done' = [done EXCEPT ![v] = None]
    /\ UNCHANGED <<parent, rev, msgs, halted>>

\* The key that the system call constructs for a selector not in use has the
\* type MAPCAP (the two generic types are swapped), to which revoke adds the
\* bits of GENERICOCAP.  The entries in the list have the type GENERICOCAP.
MAPCAP == 1
GENERICOCAP == 14
ConstructedType == MAPCAP + GENERICOCAP
Find(c, type) == IF type = GENERICOCAP THEN rev[c] ELSE NoEntry

\* The revoke system call for a selector that is not in use.  It would wait
\* for an entry of that key, but it finds none and returns at once.
RevokeUnused(v, c) ==
    /\ CanRun(VpeKernel[v]) /\ pc[v] = "idle" /\ Owner[c] = v
    /\ c \in Revocable \ live
    /\ Find(c, ConstructedType) = NoEntry
    /\ done' = [done EXCEPT ![v] = c]
    /\ UNCHANGED <<live, parent, children, rev, msgs, pc, cur, halted, act>>

\* The last reference to a VPE is gone: its table is destroyed, which
\* revokes its capabilities one by one (CapTable::revoke_all).
Exit(v) ==
    /\ CanRun(VpeKernel[v]) /\ pc[v] = "idle" /\ v \in Exiting
    /\ pc' = [pc EXCEPT ![v] = "exit"]
    /\ done' = [done EXCEPT ![v] = None]
    /\ UNCHANGED <<live, parent, children, rev, msgs, cur, halted, act>>

RevokeAll(v) ==
    LET k == VpeKernel[v] IN
    /\ CanRun(k) /\ pc[v] = "exit"
    /\ IF Caps(v) \cap live = {}
         THEN /\ pc' = [pc EXCEPT ![v] = "gone"]
              /\ UNCHANGED <<live, children, cur, act>>
         ELSE \E c \in Caps(v) \cap live :
                /\ StartRec(k, v, c, c, None)
                /\ pc' = [pc EXCEPT ![v] = "revokeAll"]
                /\ cur' = [cur EXCEPT ![v] = c]
    /\ UNCHANGED <<parent, rev, msgs, done, halted>>

\* KernelcallHandler::revoke.  If the capability is gone, its null pointer is
\* followed.
HandleRevoke(m) ==
    LET k == Home[m.cap] IN
    /\ m \in msgs /\ m.op = "revoke" /\ CanRun(k)
    /\ msgs' = msgs \ {m}
    /\ IF NullData(m.cap)
         THEN Halt(k, "null") /\ UNCHANGED <<live, children, act>>
         ELSE StartRec(k, None, m.cap, m.origin, m.parent) /\ UNCHANGED halted
    /\ UNCHANGED <<parent, rev, pc, cur, done>>

(***************************************************************************)
(* The loop over the children in revoke_rec.                               *)
(***************************************************************************)
InRec(k) == halted[k] = "no" /\ act[k].mode = "rec"

\* A child on another kernel: add to the awaited responses, send a message.
RevokeRemoteChild(k, d) ==
    LET f == Top(k) IN
    /\ InRec(k) /\ d \in f.kids /\ Home[d] # k
    /\ IF CanAwait(f)
         THEN /\ rev' = [rev EXCEPT ![f.cap] = Await(k, f, 1)]
              /\ msgs' = msgs \cup {Revoke(d, f.cap, act[k].origin)}
              /\ act' = [act EXCEPT ![k].stack = WithTop(k,
                           [f EXCEPT !.kids = @ \ {d}, !.ongoing = TRUE])]
              /\ UNCHANGED halted
         ELSE /\ Halt(k, "panic")
              /\ UNCHANGED <<rev, msgs, act>>
    /\ UNCHANGED <<live, parent, children, pc, cur, done>>

\* A child on this kernel: recursive call.
RevokeLocalChild(k, d) ==
    LET f == Top(k)
        rest == [f EXCEPT !.kids = @ \ {d}] IN
    /\ InRec(k) /\ d \in f.kids /\ Home[d] = k
    /\ IF NullData(d)
         THEN Halt(k, "null") /\ UNCHANGED <<live, children, act>>
         ELSE /\ act' = [act EXCEPT ![k].stack =
                           Append(WithTop(k, rest), FrameOf(d))]
              /\ Unset(d)
              /\ UNCHANGED halted
    /\ UNCHANGED <<parent, rev, msgs, pc, cur, done>>

(***************************************************************************)
(* The end of revoke_rec.                                                  *)
(***************************************************************************)
Returned(k) == InRec(k) /\ Top(k).kids = {}

\* The value revoke_rec returns: what its own entry awaits.
Awaits(f) == IF f.ongoing THEN rev[f.cap].awaitedResp ELSE 0

\* To the activation for the local parent, which adds what the child awaits
\* to its own entry and subscribes to the entry of the child.
ReturnToParent(k) ==
    LET f == Top(k)
        g == Below(k)[Len(Below(k))]
        rest == SubSeq(act[k].stack, 1, Len(act[k].stack) - 2) IN
    /\ Returned(k) /\ Len(act[k].stack) > 1
    /\ CASE Awaits(f) = 0 ->
              /\ act' = [act EXCEPT ![k].stack = Below(k)]
              /\ UNCHANGED <<rev, halted>>
         [] Awaits(f) # 0 /\ CanAwait(g) ->
              /\ rev' = [[rev EXCEPT ![g.cap] = Await(k, g, Awaits(f))]
                           EXCEPT ![f.cap].subs = @ \cup {g.cap}]
              /\ act' = [act EXCEPT ![k].stack =
                           Append(rest, [g EXCEPT !.ongoing = TRUE])]
              /\ UNCHANGED halted
         [] OTHER -> Halt(k, "panic") /\ UNCHANGED <<rev, act>>
    /\ UNCHANGED <<live, parent, children, msgs, pc, cur, done>>

\* Mutant: the handler answers whether or not something is awaited.
Mut_ReturnToHandler(k) ==
    /\ Returned(k) /\ Len(act[k].stack) = 1 /\ act[k].thr = None
    /\ msgs' = msgs \cup {RevokeFinish(Top(k).cap, act[k].req)}
    /\ act' = [act EXCEPT ![k] = Idle]
    /\ UNCHANGED <<live, parent, children, rev, pc, cur, done, halted>>

\* To KernelcallHandler::revoke, which answers at once if nothing is awaited.
ReturnToHandler(k) ==
    LET f == Top(k) IN
    /\ Returned(k) /\ Len(act[k].stack) = 1 /\ act[k].thr = None
    /\ msgs' = IF Awaits(f) = 0
                 THEN msgs \cup {RevokeFinish(f.cap, act[k].req)} ELSE msgs
    /\ act' = [act EXCEPT ![k] = Idle]
    /\ UNCHANGED <<live, parent, children, rev, pc, cur, done, halted>>

\* The root has remote revocations outstanding: its thread waits.
RootWait(k) ==
    LET f == Top(k) IN
    /\ Returned(k) /\ Len(act[k].stack) = 1 /\ act[k].thr # None
    /\ Awaits(f) > 0
    /\ pc' = [pc EXCEPT ![act[k].thr] =
                IF @ = "revoke" THEN "wait" ELSE "waitAll"]
    /\ act' = [act EXCEPT ![k] = Idle]
    /\ UNCHANGED <<live, parent, children, rev, msgs, cur, done, halted>>

\* "tell parent to removes the child ptr to this cap", and return to the VPE.
ReturnToVpe(v, c) ==
    /\ pc' = [pc EXCEPT ![v] =
                IF @ \in {"revoke", "ready"} THEN "idle" ELSE "exit"]
    /\ done' = [done EXCEPT ![v] =
                IF pc[v] \in {"revoke", "ready"} THEN c ELSE None]

TellParent(k, v, c, p) ==
    CASE p = None -> ReturnToVpe(v, c) /\ UNCHANGED <<children, msgs, halted>>
      [] p # None /\ Home[p] # k ->
           /\ msgs' = msgs \cup {RemoveChild(c, p)}
           /\ ReturnToVpe(v, c)
           /\ UNCHANGED <<children, halted>>
      [] p # None /\ Home[p] = k /\ ~NullData(p) ->
           /\ children' = [children EXCEPT ![p] = @ \ {c}]
           /\ ReturnToVpe(v, c)
           /\ UNCHANGED <<msgs, halted>>
      [] OTHER -> Halt(k, "null") /\ UNCHANGED <<children, msgs, pc, done>>

\* The root has nothing outstanding.  
RootReturn(k) ==
    LET f == Top(k) IN
    /\ Returned(k) /\ Len(act[k].stack) = 1 /\ act[k].thr # None
    /\ Awaits(f) = 0
    /\ TellParent(k, act[k].thr, f.cap, f.parent)
    /\ act' = [act EXCEPT ![k] = Idle]
    /\ UNCHANGED <<live, parent, rev, cur>>

(***************************************************************************)
(* Answers: revokeFinish and Revocation::notifySubscribers.                *)
(***************************************************************************)
\* ThreadManager::notify for the event a root waits for.
Woken(v) == IF pc[v] = "wait" THEN "ready"
            ELSE IF pc[v] = "waitAll" THEN "readyAll" ELSE pc[v]

StartNotify(k, v, c) ==
    act' = [act EXCEPT ![k] = [Idle EXCEPT !.mode = "notify", !.thr = v,
                  !.fin = c, !.pend = {<<c, s>> : s \in rev[c].subs}]]

\* Mutant: the first answer wakes the root up, awaitedResp is not looked at.
Mut_HandleRevokeFinish(m) ==
    LET k == Home[m.parent]
        c == m.parent
        e == rev[c] IN
    /\ m \in msgs /\ m.op = "revokeFinish" /\ CanRun(k) /\ HasEntry(c)
    /\ msgs' = msgs \ {m}
    /\ rev' = [rev EXCEPT ![c].awaitedResp = @ - 1]
    /\ IF c = e.origin
         THEN pc' = [pc EXCEPT ![e.tid] = Woken(e.tid)] /\ UNCHANGED act
         ELSE StartNotify(k, None, c) /\ UNCHANGED pc
    /\ UNCHANGED <<live, parent, children, cur, done, halted>>

\* KernelcallHandler::revokeFinish.  The entry it looks up is not checked.
HandleRevokeFinish(m) ==
    LET k == Home[m.parent]
        c == m.parent
        e == rev[c]
        n == e.awaitedResp - 1 IN
    /\ m \in msgs /\ m.op = "revokeFinish" /\ CanRun(k)
    /\ msgs' = msgs \ {m}
    /\ rev' = IF HasEntry(c) THEN [rev EXCEPT ![c].awaitedResp = n] ELSE rev
    /\ CASE ~HasEntry(c) -> Halt(k, "null") /\ UNCHANGED <<pc, act>>
         [] HasEntry(c) /\ n # 0 -> UNCHANGED <<pc, act, halted>>
         [] HasEntry(c) /\ n = 0 /\ c = e.origin ->
              /\ pc' = [pc EXCEPT ![e.tid] = Woken(e.tid)]
              /\ UNCHANGED <<act, halted>>
         [] HasEntry(c) /\ n = 0 /\ c # e.origin ->
              /\ StartNotify(k, None, c)
              /\ UNCHANGED <<pc, halted>>
    /\ UNCHANGED <<live, parent, children, cur, done>>

\* One subscriber of an entry that is complete.  A subscriber that completes
\* too passes it on: to its own subscribers, to the waiting thread if it is
\* the root, and otherwise to its parent if that is on another kernel.
NotifySubscriber(k, x, s) ==
    LET e == rev[s]
        n == e.awaitedResp - 1
        completes == HasEntry(s) /\ n = 0
        rest == act[k].pend \ {<<x, s>>} IN
    /\ halted[k] = "no" /\ act[k].mode = "notify" /\ <<x, s>> \in act[k].pend
    /\ rev' = IF HasEntry(s)
                THEN [[rev EXCEPT ![s].awaitedResp = n]
                         EXCEPT ![x].subs = @ \ {s}]
                ELSE rev
    /\ act' = [act EXCEPT ![k].pend =
                 IF completes THEN rest \cup {<<s, t>> : t \in e.subs} ELSE rest]
    /\ pc' = IF completes /\ e.tid # None
               THEN [pc EXCEPT ![e.tid] = Woken(e.tid)] ELSE pc
    /\ msgs' = IF completes /\ e.tid = None /\ Home[e.parent] # k
                 THEN msgs \cup {RevokeFinish(s, e.parent)} ELSE msgs
    /\ UNCHANGED <<live, parent, children, cur, done, halted>>

Notified(k) ==
    halted[k] = "no" /\ act[k].mode = "notify" /\ act[k].pend = {}

\* Mutant: the remote parent is not informed.
Mut_FinishEntry(k) ==
    /\ Notified(k) /\ act[k].thr = None
    /\ rev' = [rev EXCEPT ![act[k].fin] = NoEntry]
    /\ act' = [act EXCEPT ![k] = Idle]
    /\ UNCHANGED <<live, parent, children, msgs, pc, cur, done, halted>>

\* Back in the revokeFinish handler: inform the remote parent, remove the
\* entry.
FinishEntry(k) ==
    LET c == act[k].fin
        e == rev[c] IN
    /\ Notified(k) /\ act[k].thr = None
    /\ msgs' = IF Home[e.parent] # k
                 THEN msgs \cup {RevokeFinish(c, e.parent)} ELSE msgs
    /\ rev' = [rev EXCEPT ![c] = NoEntry]
    /\ act' = [act EXCEPT ![k] = Idle]
    /\ UNCHANGED <<live, parent, children, pc, cur, done, halted>>

\* The thread of the root continues: it notifies the subscribers ...
ResumeRoot(v) ==
    LET k == VpeKernel[v] IN
    /\ CanRun(k) /\ pc[v] \in {"ready", "readyAll"}
    /\ StartNotify(k, v, cur[v])
    /\ UNCHANGED <<live, parent, children, rev, msgs, pc, cur, done, halted>>

\* ... removes the entry and tells the parent.
FinishRoot(k) ==
    LET c == act[k].fin
        v == act[k].thr IN
    /\ Notified(k) /\ v # None
    /\ rev' = [rev EXCEPT ![c] = NoEntry]
    /\ act' = [act EXCEPT ![k] = Idle]
    /\ TellParent(k, v, c, rev[c].parent)
    /\ UNCHANGED <<live, parent, cur>>

HandleRemoveChild(m) ==
    LET k == Home[m.parent] IN
    /\ m \in msgs /\ m.op = "removeChildCapPtr" /\ CanRun(k)
    /\ msgs' = msgs \ {m}
    /\ IF VpeGone(m.parent)
         THEN Halt(k, "null") /\ UNCHANGED children
         ELSE /\ children' = IF m.parent \in live
                   THEN [children EXCEPT ![m.parent] = @ \ {m.cap}]
                   ELSE children
              /\ UNCHANGED halted
    /\ UNCHANGED <<live, parent, rev, pc, cur, done, act>>

(***************************************************************************)
(* Obtaining capabilities: how the forest grows.                           *)
(***************************************************************************)
\* d is among those a running or waiting revocation still has to visit.
Pending(a, d) == \E i \in DOMAIN a.stack : d \in a.stack[i].kids

\* No trace of an earlier capability at this key: nobody lists it as a
\* child, no entry and no kernelcall is about it.
NoTrace(c) ==
    /\ \A p \in Cap : c \notin children[p]
    /\ \A k \in Kernel : ~Pending(act[k], c)
    /\ ~HasEntry(c)
    /\ \A m \in msgs : m.cap # c /\ m.parent # c

\* VPEs pick an empty selector.  Unless they take care, others may still list its
\* key or be about to visit it.  (A list of children is a set here: a key that
\* it has twice is in it once.)
MayObtain(v, c, p) ==
    /\ CanRun(VpeKernel[v]) /\ pc[v] = "idle" /\ Owner[c] = v
    /\ c \in Obtainable \ live /\ c # p
    /\ CleanReuse => NoTrace(c)

\* Mutant: the VPE of the parent is recorded instead of its key.
Mut_ObtainLocal(v, c, p) ==
    /\ MayObtain(v, c, p) /\ Home[p] = Home[c] /\ p \in live
    /\ live' = live \cup {c}
    /\ parent' = [parent EXCEPT ![c] = Owner[p]]
    /\ children' = [children EXCEPT ![p] = @ \cup {c}]
    /\ done' = [done EXCEPT ![v] = None]
    /\ UNCHANGED <<rev, msgs, pc, cur, halted, act>>

\* The parent is on the same kernel (do_exchange, CapTable::obtain).
ObtainLocal(v, c, p) ==
    /\ MayObtain(v, c, p) /\ Home[p] = Home[c] /\ p \in live
    /\ live' = live \cup {c}
    /\ parent' = [parent EXCEPT ![c] = p]
    /\ children' = [children EXCEPT ![p] = @ \cup {c}]
    /\ done' = [done EXCEPT ![v] = None]
    /\ UNCHANGED <<rev, msgs, pc, cur, halted, act>>

\* The service is on another kernel: ask it and wait (exchange_over_sess).
\* Which capability p the service will give is not known yet.
ObtainRemote(v, c, p) ==
    /\ MayObtain(v, c, p) /\ Home[p] # Home[c]
    /\ msgs' = msgs \cup {Exchange(c, p)}
    /\ pc' = [pc EXCEPT ![v] = "obtain"]
    /\ cur' = [cur EXCEPT ![v] = c]
    /\ done' = [done EXCEPT ![v] = None]
    /\ UNCHANGED <<live, parent, children, rev, halted, act>>

\* The kernelcalls of a kernel to another are handled in the order in which they
\* were sent: an obtain of c from p after the earlier removal of c from p.
RemovalSent(c, p) ==
    \E n \in msgs : n.op = "removeChildCapPtr" /\ n.cap = c /\ n.parent = p

\* Mutant: the answer is sent without adding the child pointer.
Mut_HandleExchange(m) ==
    /\ m \in msgs /\ m.op = "exchange" /\ CanRun(Home[m.parent])
    /\ ~RemovalSent(m.cap, m.parent)
    /\ ~VpeGone(m.parent)
    /\ msgs' = (msgs \ {m}) \cup {ExchangeReply(m.cap,
                  IF m.parent \in live THEN m.parent ELSE None)}
    /\ UNCHANGED <<live, parent, children, rev, pc, cur, done, halted, act>>

\* The callback in KernelcallHandler::exchangeOverSession: the child pointer
\* is added before the answer is sent.  A selector not in use is ignored.
HandleExchange(m) ==
    LET k == Home[m.parent]
        found == m.parent \in live IN
    /\ m \in msgs /\ m.op = "exchange" /\ CanRun(k)
    /\ ~RemovalSent(m.cap, m.parent)
    /\ ~VpeGone(m.parent)
    /\ children' = IF found
         THEN [children EXCEPT ![m.parent] = @ \cup {m.cap}] ELSE children
    /\ msgs' = (msgs \ {m}) \cup
         {ExchangeReply(m.cap, IF found THEN m.parent ELSE None)}
    /\ UNCHANGED <<live, parent, rev, pc, cur, done, halted, act>>

\* The service is not found.
HandleExchangeGone(m) ==
    /\ m \in msgs /\ m.op = "exchange" /\ CanRun(Home[m.parent])
    /\ VpeGone(m.parent)
    /\ msgs' = (msgs \ {m}) \cup {ExchangeReply(m.cap, None)}
    /\ UNCHANGED <<live, parent, children, rev, pc, cur, done, halted, act>>

\* exchangeOverSessionReply wakes the thread of the VPE up with the answer
\* (the parent of a selector not in use stands for it), to go on later ...
HandleExchangeReply(m) ==
    LET v == Owner[m.cap] IN
    /\ m \in msgs /\ m.op = "exchangeReply" /\ CanRun(Home[m.cap])
    /\ pc[v] = "obtain"
    /\ pc' = [pc EXCEPT ![v] = "answered"]
    /\ parent' = [parent EXCEPT ![m.cap] = m.parent]
    /\ msgs' = msgs \ {m}
    /\ UNCHANGED <<live, children, rev, cur, done, halted, act>>

\* ... and inserts the capability it got; if the selector was filled meanwhile,
\* it cancels instead.  (It never is here: a VPE has one system call at a time,
\* and others put nothing into its table.)
ObtainResume(v) ==
    LET c == cur[v]
        got == parent[c] # None IN
    /\ CanRun(VpeKernel[v]) /\ pc[v] = "answered"
    /\ live' = IF got THEN live \cup {c} ELSE live
    /\ msgs' = IF got /\ c \in live THEN msgs \cup {RemoveChild(c, parent[c])} ELSE msgs
    /\ pc' = [pc EXCEPT ![v] = "idle"]
    /\ UNCHANGED <<parent, children, rev, cur, done, halted, act>>

(***************************************************************************)
(* The specification.                                                      *)
(***************************************************************************)
Handle(m) ==
    \/ HandleRevoke(m)
    \/ HandleRevokeFinish(m)
    \/ HandleRemoveChild(m)
    \/ HandleExchange(m)
    \/ HandleExchangeGone(m)
    \/ HandleExchangeReply(m)

RunThread(k) ==
    \/ \E d \in Cap : RevokeRemoteChild(k, d)
    \/ \E d \in Cap : RevokeLocalChild(k, d)
    \/ ReturnToParent(k)
    \/ ReturnToHandler(k)
    \/ RootWait(k)
    \/ RootReturn(k)
    \/ \E x, s \in Cap : NotifySubscriber(k, x, s)
    \/ FinishEntry(k)
    \/ FinishRoot(k)

Resume(v) == ResumeRoot(v) \/ ObtainResume(v) \/ RevokeAll(v)

Syscall(v) ==
    \/ \E c \in Cap : RevokeSyscall(v, c)
    \/ \E c \in Cap : RevokeUnused(v, c)
    \/ Exit(v)
    \/ \E c, p \in Cap : ObtainLocal(v, c, p)
    \/ \E c, p \in Cap : ObtainRemote(v, c, p)

Next ==
    \/ \E m \in msgs : Handle(m)
    \/ \E k \in Kernel : RunThread(k)
    \/ \E v \in Vpe : Resume(v)
    \/ \E v \in Vpe : Syscall(v)

Spec == Init /\ [][Next]_vars

\* What the kernels do without a further system call.
Progress ==
    \/ \E m \in msgs : Handle(m)
    \/ \E k \in Kernel : RunThread(k)
    \/ \E v \in Vpe : Resume(v)

\* The work loop of a kernel fetches from every gate in turn and yields to
\* the ready threads, so a kernelcall is handled and a woken thread runs
\* eventually.  VPEs are free to issue no further system call.
Dest(m) == IF m.op \in {"revoke", "exchangeReply"} THEN Home[m.cap]
                                                 ELSE Home[m.parent]

Fairness ==
    /\ \A k \in Kernel : WF_vars(\E m \in msgs : Dest(m) = k /\ Handle(m))
    /\ \A k \in Kernel : WF_vars(RunThread(k))
    /\ \A v \in Vpe : WF_vars(Resume(v))

FairSpec == Spec /\ Fairness

(***************************************************************************)
(* Properties.                                                             *)
(***************************************************************************)
Status == {"idle", "revoke", "wait", "ready", "exit", "revokeAll", "waitAll",
           "readyAll", "gone", "obtain", "answered"}

TypeOK ==
    /\ live \subseteq Cap
    /\ parent \in [Cap -> Cap \cup {None}]
    /\ children \in [Cap -> SUBSET Cap]
    /\ rev \in [Cap -> Entry \cup {NoEntry}]
    /\ msgs \subseteq Message
    /\ pc \in [Vpe -> Status]
    /\ cur \in [Vpe -> Cap \cup {None}]
    /\ done \in [Vpe -> Cap \cup {None}]
    /\ halted \in [Kernel -> {"no", "null", "panic"}]
    /\ act \in [Kernel -> Activity]

\* The thread that started the revocation of o has not returned yet.
InProgress(o) ==
    /\ cur[Owner[o]] = o
    /\ pc[Owner[o]] \in {"revoke", "wait", "ready", "revokeAll", "waitAll",
                         "readyAll"}

\* "wait for the outstanding revokes to finish" in revoke_rec: as long as a
\* request or an incomplete entry of a revocation exists on any kernel, the
\* thread of its root waits.
RootWaits ==
    /\ \A m \in msgs : m.op = "revoke" => InProgress(m.origin)
    /\ \A c \in Cap : HasEntry(c) /\ rev[c].awaitedResp > 0
                        => InProgress(rev[c].origin)

ToBeRevoked(d) ==
    \/ \E m \in msgs : m.op = "revoke" /\ m.cap = d
    \/ \E k \in Kernel : Pending(act[k], d)

\* No derived capability escapes: it is listed by its parent, so that a
\* revocation of the parent finds it, or some revocation is about to visit it.
NoEscape ==
    \A d \in live : parent[d] # None =>
        \/ parent[d] \in live /\ d \in children[parent[d]]
        \/ ToBeRevoked(d)

\* The capabilities derived from c, directly or not.
Descendants(c) ==
    LET within[n \in 0..Cardinality(Cap)] ==
          IF n = 0 THEN {c}
          ELSE LET D == within[n - 1] IN D \cup {d \in Cap : parent[d] \in D}
    IN within[Cardinality(Cap)] \ {c}

\* A revoke system call returns when the capability and everything derived
\* from it, directly or not, is gone, and the list has no entry for it.
ReturnMeansGone ==
    \A v \in Vpe : done[v] # None =>
        /\ ~HasEntry(done[v])
        /\ live \cap Descendants(done[v]) = {}

\* A kernel that meets a capability which another revocation has already
\* removed ("it has been revoked already or it never existed", revoke handler)
\* goes on: it does not follow the null pointer.
NoNullPointer == \A k \in Kernel : halted[k] # "null"

\* "make sure there's only one entry per cap ID, otherwise the revoke
\* algorithm fails" (RevocationList::add): no second entry is inserted.
OneEntryPerKey == \A k \in Kernel : halted[k] # "panic"

\* A revoke system call, and the exit of a VPE, come to an end.
RevokeReturns ==
    \A v \in Vpe : pc[v] \in {"revoke", "revokeAll"} ~> pc[v] \in {"idle", "gone"}

(***************************************************************************)
(* The inductive invariants of the proofs: Structure, kept by every step   *)
(* (Revocation_types, _shape, _threads), and with it Escape                *)
(* (Revocation_escape).                                                    *)
(***************************************************************************)
Revoking == {"revoke", "wait", "ready", "revokeAll", "waitAll", "readyAll"}

\* The running thread of a kernel: the frames of revoke_rec are about the
\* capabilities of that kernel, and only the first one, in the thread of a
\* VPE, is about the root and may have no parent.
WellFormed(a, k) ==
    /\ a.mode = "rec" =>
         /\ a.stack # << >> /\ a.origin \in Cap
         /\ a.thr = None => a.req \in Cap
         /\ a.thr # None => a.stack[1].cap = a.origin
    /\ a.mode # "rec" => a.stack = << >>
    /\ a.mode = "notify" => a.fin \in Cap /\ Home[a.fin] = k
    /\ a.mode = "idle" => a.thr = None
    /\ \A i \in DOMAIN a.stack :
         /\ Home[a.stack[i].cap] = k
         /\ a.stack[i].parent = None => i = 1 /\ a.thr # None

ActOK == \A k \in Kernel : WellFormed(act[k], k)

\* While revoke_rec is about a capability the table has none at its key, and
\* the entry it added stays in the list.
FramesOK ==
    \A k \in Kernel : \A i \in DOMAIN act[k].stack :
        LET f == act[k].stack[i] IN
        f.cap \notin live /\ (f.ongoing => HasEntry(f.cap))

\* Only a root has no parent to report to.
EntryOK ==
    /\ \A c \in Cap : HasEntry(c) /\ rev[c].parent = None
                         => rev[c].origin = c /\ rev[c].tid # None
    /\ \A k \in Kernel : act[k].mode = "notify" /\ act[k].thr = None
                            => rev[act[k].fin].parent \in Cap

MsgOK ==
    \A m \in msgs :
        /\ m.op # "exchangeReply" => m.parent \in Cap
        /\ m.op = "revoke" => m.origin \in Cap

\* A VPE whose system call is under way works on a capability of its own
\* that is not in the table.
Work == Revoking \cup {"obtain", "answered"}

WorkOK ==
    \A v \in Vpe :
        /\ pc[v] \in Work =>
             /\ cur[v] \in Cap /\ Owner[cur[v]] = v
             /\ cur[v] \notin live
        /\ pc[v] = "gone" => \A c \in live : Owner[c] # v

\* The running thread of a kernel is that of such a VPE.
Runs(a, k) ==
    a.thr # None =>
        /\ VpeKernel[a.thr] = k
        /\ a.mode = "rec" => /\ pc[a.thr] \in {"revoke", "revokeAll"}
                             /\ cur[a.thr] = a.stack[1].cap
        /\ a.mode = "notify" => /\ pc[a.thr] \in {"ready", "readyAll"}
                                /\ cur[a.thr] = a.fin

RunOK == \A k \in Kernel : Runs(act[k], k)

\* A remote obtain is one request or one answer, and its VPE waits for it.
ExchangeOK ==
    /\ \A m \in msgs : m.op \in {"exchange", "exchangeReply"} =>
         pc[Owner[m.cap]] = "obtain" /\ cur[Owner[m.cap]] = m.cap
    /\ \A m, n \in msgs :
         m.cap = n.cap /\ {m.op, n.op} \subseteq {"exchange", "exchangeReply"}
           => m = n

\* Nobody lists a capability that has no parent, nor is about to visit it.
RootsUnlisted ==
    \A d \in live : parent[d] = None =>
        ~ToBeRevoked(d) /\ \A p \in Cap : d \notin children[p]

\* c is derived from p, or will be when the answer to an obtain is handled.
Answered(c) == pc[Owner[c]] = "answered" /\ cur[Owner[c]] = c

Derived(c, p) ==
    \/ parent[c] = p /\ (c \in live \/ Answered(c))
    \/ \E m \in msgs : m.op = "exchangeReply" /\ m.cap = c /\ m.parent = p

\* A child pointer is removed only when nothing is derived along it, by a kernel
\* other than that of the parent.
RemoveChildOK ==
    \A m \in msgs : m.op = "removeChildCapPtr" =>
        Home[m.parent] # Home[m.cap] /\ ~Derived(m.cap, m.parent)

\* The capability that p was asked for is found by a revocation of p.
Found(c, p) ==
    \/ p \in live /\ c \in children[p]
    \/ ToBeRevoked(c)
    \/ halted[Home[c]] # "no"

\* ... from the moment the answer is sent.
ObtainOK ==
    /\ \A m \in msgs : m.op = "exchangeReply" /\ m.parent # None =>
         Found(m.cap, m.parent)
    /\ \A v \in Vpe : pc[v] = "answered" /\ parent[cur[v]] # None =>
         Found(cur[v], parent[cur[v]])

Structure ==
    /\ ActOK /\ FramesOK /\ EntryOK /\ MsgOK /\ WorkOK /\ RunOK
    /\ ExchangeOK /\ RootsUnlisted

Escape == RemoveChildOK /\ ObtainOK /\ NoEscape

=============================================================================
