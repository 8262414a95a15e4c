-------------------------- MODULE Revocation_types --------------------------
(***************************************************************************)
(* Proofs about Revocation, for all kernels, VPEs and capability forests:  *)
(* a step leads from well-typed states that satisfy Structure to well-typed*)
(* ones.                                                                   *)
(***************************************************************************)
EXTENDS Revocation, TLAPS

(***************************************************************************)
(* The stack of activations of revoke_rec.                                 *)
(***************************************************************************)
\* Popping the top element of a non-empty stack.
LEMMA PopLemma ==
    ASSUME NEW S, NEW s \in Seq(S), s # << >>
    PROVE  /\ Len(s) \in Nat /\ Len(s) > 0
           /\ s[Len(s)] \in S
           /\ SubSeq(s, 1, Len(s) - 1) \in Seq(S)
           /\ Len(SubSeq(s, 1, Len(s) - 1)) = Len(s) - 1
           /\ \A i \in 1..(Len(s) - 1) : SubSeq(s, 1, Len(s) - 1)[i] = s[i]
  <1>1. Len(s) \in Nat /\ Len(s) > 0
    OBVIOUS
  <1> DEFINE n == Len(s) - 1
  <1>2. n \in Int /\ n >= 0 /\ n <= Len(s)
    BY <1>1
  <1>3. /\ s[Len(s)] \in S
        /\ SubSeq(s, 1, Len(s) - 1) \in Seq(S)
        /\ \A i \in 1..(Len(s) - 1) : SubSeq(s, 1, Len(s) - 1)[i] = s[i]
    BY <1>1
  <1> HIDE DEF n
  <1>4. Len(SubSeq(s, 1, n)) = n
    BY <1>2
  <1> QED
    BY <1>1, <1>3, <1>4, Zenon DEF n

\* Pushing an element.
LEMMA PushLemma ==
    ASSUME NEW S, NEW s \in Seq(S), NEW e \in S
    PROVE  /\ Append(s, e) \in Seq(S)
           /\ Append(s, e) # << >>
           /\ Len(Append(s, e)) = Len(s) + 1
           /\ Append(s, e)[Len(s) + 1] = e
           /\ \A i \in 1..Len(s) : Append(s, e)[i] = s[i]
  OBVIOUS

\* The stack of a running thread is a sequence of frames.
LEMMA ActStack ==
    ASSUME NEW k \in Kernel, NEW X \in Seq(Frame), act \in [Kernel -> Activity]
    PROVE  [act EXCEPT ![k].stack = X] \in [Kernel -> Activity]
  <1> DEFINE a == [act[k] EXCEPT !.stack = X]
  <1>1. act[k] \in Activity
    OBVIOUS
  <1>2. a \in Activity
    BY <1>1, Zenon DEF Activity
  <1> QED
    BY <1>2

\* The initial tables, lists and threads have their types.
LEMMA TypeInit == Init => TypeOK
  BY ConstantsAssumption DEF Init, TypeOK, NoEntry, Idle, Activity, Entry, Status

\* Home gives the kernel responsible for a key.
LEMMA HomeType == \A c \in Cap : Home[c] \in Kernel /\ Owner[c] \in Vpe
  BY ConstantsAssumption DEF Home

\* The frames that revoke_rec puts on its stack.
LEMMA FrameType ==
    ASSUME TypeOK, NEW c \in Cap
    PROVE  FrameOf(c) \in Frame
  BY DEF TypeOK, FrameOf, Frame

\* The start of revoke_rec leaves a well-typed activity.
LEMMA StartRecType ==
    ASSUME TypeOK, NEW k \in Kernel, NEW v \in Vpe \cup {None},
           NEW c \in Cap, NEW o \in Cap, NEW q \in Cap \cup {None},
           StartRec(k, v, c, o, q)
    PROVE  /\ act' \in [Kernel -> Activity]
           /\ live' \subseteq Cap
           /\ children' \in [Cap -> SUBSET Cap]
  <1>1. FrameOf(c) \in Frame
    BY FrameType
  <1>2. <<FrameOf(c)>> \in Seq(Frame)
    BY <1>1
  <1> DEFINE a == [Idle EXCEPT !.mode = "rec", !.thr = v, !.origin = o,
                    !.req = q, !.stack = <<FrameOf(c)>>]
  <1>3. a \in Activity
    BY <1>2, Zenon DEF Activity, Idle
  <1> QED
    BY <1>3 DEF StartRec, TypeOK, Unset

\* The thread that notifySubscribers runs in.
LEMMA StartNotifyType ==
    ASSUME TypeOK, NEW k \in Kernel, NEW v \in Vpe \cup {None}, NEW c \in Cap,
           StartNotify(k, v, c)
    PROVE  act' \in [Kernel -> Activity]
  <1> DEFINE a == [Idle EXCEPT !.mode = "notify", !.thr = v, !.fin = c,
                    !.pend = {<<c, s>> : s \in rev[c].subs}]
  <1>1. rev[c].subs \subseteq Cap
    BY DEF TypeOK, Entry, NoEntry
  <1>2. {<<c, s>> : s \in rev[c].subs} \subseteq Cap \X Cap
    BY <1>1
  <1>3. << >> \in Seq(Frame)
    OBVIOUS
  <1>4. a \in Activity
    BY <1>2, <1>3, Zenon DEF Activity, Idle
  <1> QED
    BY <1>4 DEF StartNotify, TypeOK

\* The kernel between two handlers.
LEMMA IdleType == Idle \in Activity
  BY DEF Idle, Activity

\* The status a waiting thread is woken to.
LEMMA WokenType ==
    ASSUME TypeOK, NEW v \in Vpe \cup {None}
    PROVE  [pc EXCEPT ![v] = Woken(v)] \in [Vpe -> Status]
  <1>1. CASE v \in Vpe
    <2>1. Woken(v) \in Status
      BY <1>1 DEF TypeOK, Woken, Status
    <2> QED BY <1>1, <2>1 DEF TypeOK
  <1>2. CASE v = None
    <2>1. v \notin Vpe
      BY <1>2, ConstantsAssumption
    <2> QED BY <2>1, Zenon DEF TypeOK
  <1> QED BY <1>1, <1>2

\* The handlers of kernelcalls.
LEMMA TypeHandle ==
    ASSUME TypeOK, Structure, NEW m \in msgs, Handle(m)
    PROVE  TypeOK'
  <1> USE HomeType, ConstantsAssumption
  <1>0. m \in Message /\ m.cap \in Cap
    BY DEF TypeOK, Message
  <1>1. CASE HandleRevoke(m)
    <2>1. m.origin \in Cap /\ m.parent \in Cap \cup {None}
      BY <1>0, <1>1 DEF HandleRevoke, Structure, MsgOK, Message
    <2>2. CASE NullData(m.cap)
      BY <1>0, <1>1, <2>2 DEF HandleRevoke, TypeOK, Halt
    <2>3. CASE ~NullData(m.cap)
      <3>1. StartRec(Home[m.cap], None, m.cap, m.origin, m.parent)
        BY <1>1, <2>3 DEF HandleRevoke
      <3> QED
        BY <1>0, <1>1, <2>1, <2>3, <3>1, StartRecType, Zenon DEF HandleRevoke, TypeOK
    <2> QED BY <2>2, <2>3
  <1>2. CASE HandleRevokeFinish(m)
    <2> DEFINE c == m.parent
               k == Home[c]
    <2>1. c \in Cap
      BY <1>0, <1>2, Zenon DEF HandleRevokeFinish, Structure, MsgOK
    <2>2. rev' \in [Cap -> Entry \cup {NoEntry}]
      BY <1>2, <2>1 DEF HandleRevokeFinish, TypeOK, HasEntry, Entry
    <2>3. act' \in [Kernel -> Activity] /\ halted' \in [Kernel -> {"no", "null", "panic"}]
      <3>1. CASE StartNotify(k, None, c) /\ UNCHANGED halted
        BY <2>1, <3>1, StartNotifyType DEF TypeOK
      <3>2. CASE UNCHANGED act
        BY <1>2, <3>2, Zenon DEF HandleRevokeFinish, TypeOK, Halt
      <3>3. CASE HasEntry(c) /\ rev[c].awaitedResp - 1 = 0 /\ c # rev[c].origin
        BY <1>2, <3>1, <3>3, Zenon DEF HandleRevokeFinish
      <3>4. CASE ~(HasEntry(c) /\ rev[c].awaitedResp - 1 = 0 /\ c # rev[c].origin)
        BY <1>2, <3>2, <3>4, Zenon DEF HandleRevokeFinish
      <3> QED
        BY <3>3, <3>4
    <2>4. pc' \in [Vpe -> Status]
      BY <1>2, <2>1, WokenType DEF HandleRevokeFinish, TypeOK
    <2> QED
      BY <1>2, <2>2, <2>3, <2>4, Zenon DEF HandleRevokeFinish, TypeOK
  <1>3. CASE HandleRemoveChild(m)
    BY <1>0, <1>3 DEF HandleRemoveChild, TypeOK, Halt
  <1>4. CASE HandleExchange(m)
    BY <1>0, <1>4 DEF HandleExchange, TypeOK, ExchangeReply, Message
  <1>5. CASE HandleExchangeGone(m)
    BY <1>0, <1>5 DEF HandleExchangeGone, TypeOK, ExchangeReply, Message
  <1>6. CASE HandleExchangeReply(m)
    BY <1>0, <1>6 DEF HandleExchangeReply, TypeOK, Message, Status
  <1> QED
    BY <1>1, <1>2, <1>3, <1>4, <1>5, <1>6 DEF Handle

\* The stack of a kernel in revoke_rec and its top frame.
LEMMA RecLemma ==
    ASSUME TypeOK, Structure, NEW k \in Kernel, InRec(k)
    PROVE  /\ act[k].stack \in Seq(Frame) /\ act[k].stack # << >>
           /\ Len(act[k].stack) \in Nat /\ Len(act[k].stack) > 0
           /\ Top(k) \in Frame /\ Top(k).cap \in Cap
           /\ Home[Top(k).cap] = k
           /\ Top(k).cap \notin live
           /\ Top(k).ongoing => rev[Top(k).cap] \in Entry
           /\ Below(k) \in Seq(Frame)
           /\ Len(Below(k)) = Len(act[k].stack) - 1
           /\ \A i \in 1..(Len(act[k].stack) - 1) : Below(k)[i] = act[k].stack[i]
           /\ act[k].origin \in Cap
           /\ act[k].thr \in Vpe \cup {None}
           /\ act[k].req \in Cap \cup {None}
  <1>1. act[k] \in Activity
    BY DEF TypeOK
  <1>2. act[k].stack \in Seq(Frame) /\ act[k].stack # << >>
    BY <1>1 DEF Activity, InRec, Structure, ActOK, WellFormed
  <1>3. /\ Len(act[k].stack) \in Nat /\ Len(act[k].stack) > 0
        /\ Top(k) \in Frame
        /\ Below(k) \in Seq(Frame)
        /\ Len(Below(k)) = Len(act[k].stack) - 1
        /\ \A i \in 1..(Len(act[k].stack) - 1) : Below(k)[i] = act[k].stack[i]
    BY <1>2, PopLemma DEF Top, Below
  <1>4. Len(act[k].stack) \in DOMAIN act[k].stack
    BY <1>2, <1>3
  <1>5. Top(k).cap \in Cap
    BY <1>3 DEF Frame
  <1>6. /\ Home[Top(k).cap] = k
        /\ Top(k).cap \notin live
        /\ Top(k).ongoing => HasEntry(Top(k).cap)
    BY <1>4, Zenon DEF Structure, ActOK, WellFormed, FramesOK, Top
  <1>7. Top(k).ongoing => rev[Top(k).cap] \in Entry
    BY <1>5, <1>6 DEF TypeOK, HasEntry
  <1> QED
    BY <1>1, <1>2, <1>3, <1>5, <1>6, <1>7, Zenon DEF InRec, Structure, ActOK, WellFormed, Activity

\* What RevocationList::add and "awaitedResp += n" leave in the list.
LEMMA AwaitType ==
    ASSUME TypeOK, Structure, NEW k \in Kernel, InRec(k),
           NEW f \in Frame, NEW n \in Int, f.ongoing => rev[f.cap] \in Entry
    PROVE  Await(k, f, n) \in Entry
  <1>1. act[k].origin \in Cap /\ act[k].thr \in Vpe \cup {None}
    BY RecLemma
  <1>2. CASE f.ongoing
    BY <1>2 DEF Await, Entry
  <1>3. CASE ~f.ongoing
    BY <1>1, <1>3 DEF Await, NewEntry, Entry, Frame
  <1> QED BY <1>2, <1>3

\* Updating the uppermost frame leaves a sequence of frames.
LEMMA WithTopType ==
    ASSUME TypeOK, Structure, NEW k \in Kernel, InRec(k), NEW f \in Frame
    PROVE  WithTop(k, f) \in Seq(Frame)
  BY RecLemma DEF WithTop

\* Types: revoke_rec meets a child on another kernel.
LEMMA TypeRevokeRemoteChild ==
    ASSUME TypeOK, Structure, NEW k \in Kernel, NEW d \in Cap,
           RevokeRemoteChild(k, d)
    PROVE  TypeOK'
  <1> DEFINE f == Top(k)
             g == [f EXCEPT !.kids = @ \ {d}, !.ongoing = TRUE]
  <1>0. InRec(k)
    BY DEF RevokeRemoteChild
  <1>1. f \in Frame /\ f.cap \in Cap /\ act[k].origin \in Cap
    BY <1>0, RecLemma
  <1>2. CASE CanAwait(f)
    <2>1. Await(k, f, 1) \in Entry
      BY <1>0, <1>1, RecLemma, AwaitType
    <2>2. g \in Frame
      BY <1>1, Zenon DEF Frame
    <2>3. WithTop(k, g) \in Seq(Frame)
      BY <1>0, <2>2, WithTopType
    <2>4. Revoke(d, f.cap, act[k].origin) \in Message
      BY <1>1 DEF Revoke, Message
    <2>5. act' = [act EXCEPT ![k].stack = WithTop(k, g)]
      BY <1>2 DEF RevokeRemoteChild
    <2>6. act' \in [Kernel -> Activity]
      BY <2>3, <2>5, ActStack, Zenon DEF TypeOK
    <2>7. rev' \in [Cap -> Entry \cup {NoEntry}]
      BY <1>1, <1>2, <2>1 DEF RevokeRemoteChild, TypeOK
    <2> QED
      BY <1>2, <2>4, <2>6, <2>7 DEF RevokeRemoteChild, TypeOK
  <1>3. CASE ~CanAwait(f)
    BY <1>3 DEF RevokeRemoteChild, TypeOK, Halt
  <1> QED BY <1>2, <1>3

\* Types: revoke_rec meets a child on its own kernel.
LEMMA TypeRevokeLocalChild ==
    ASSUME TypeOK, Structure, NEW k \in Kernel, NEW d \in Cap,
           RevokeLocalChild(k, d)
    PROVE  TypeOK'
  <1> DEFINE f == Top(k)
             g == [f EXCEPT !.kids = @ \ {d}]
  <1>0. InRec(k)
    BY DEF RevokeLocalChild
  <1>1. f \in Frame
    BY <1>0, RecLemma
  <1>2. CASE NullData(d)
    BY <1>2 DEF RevokeLocalChild, TypeOK, Halt
  <1>3. CASE ~NullData(d)
    <2>1. g \in Frame
      BY <1>1 DEF Frame
    <2>2. Append(WithTop(k, g), FrameOf(d)) \in Seq(Frame)
      BY <1>0, <2>1, WithTopType, FrameType, PushLemma
    <2>3. act' = [act EXCEPT ![k].stack = Append(WithTop(k, g), FrameOf(d))]
      BY <1>3, Zenon DEF RevokeLocalChild
    <2>4. act' \in [Kernel -> Activity]
      BY <2>2, <2>3, ActStack, Zenon DEF TypeOK
    <2> QED
      BY <1>3, <2>4 DEF RevokeLocalChild, TypeOK, Unset
  <1> QED BY <1>2, <1>3

\* Types: a recursive call of revoke_rec returns.
LEMMA TypeReturnToParent ==
    ASSUME TypeOK, Structure, NEW k \in Kernel, ReturnToParent(k)
    PROVE  TypeOK'
  <1> DEFINE st == act[k].stack
             f == Top(k)
             g == Below(k)[Len(Below(k))]
             rest == SubSeq(st, 1, Len(st) - 2)
             h == [g EXCEPT !.ongoing = TRUE]
  <1>0. InRec(k) /\ Len(st) > 1
    BY DEF ReturnToParent, Returned
  <1>1. f \in Frame /\ f.cap \in Cap /\ Below(k) \in Seq(Frame)
    BY <1>0, RecLemma
  <1>2. g \in Frame /\ g.cap \in Cap /\ (g.ongoing => rev[g.cap] \in Entry)
    <2>1. Len(Below(k)) = Len(st) - 1 /\ g = st[Len(st) - 1]
      BY <1>0, RecLemma
    <2>2. Len(st) - 1 \in DOMAIN st /\ st \in Seq(Frame)
      BY <1>0, RecLemma
    <2>3. g \in Frame
      BY <2>1, <2>2
    <2>4. g.ongoing => HasEntry(g.cap)
      BY <2>1, <2>2 DEF Structure, FramesOK
    <2> QED
      BY <2>3, <2>4 DEF TypeOK, HasEntry, Frame
  <1>3. rest \in Seq(Frame)
    BY <1>0, RecLemma
  <1>4. CASE Awaits(f) = 0
    <2>1. act' = [act EXCEPT ![k].stack = Below(k)]
      BY <1>4 DEF ReturnToParent
    <2>2. act' \in [Kernel -> Activity]
      BY <1>1, <2>1, ActStack DEF TypeOK
    <2> QED
      BY <1>4, <2>2 DEF ReturnToParent, TypeOK
  <1>5. CASE Awaits(f) # 0 /\ CanAwait(g)
    <2>1. f.ongoing /\ rev[f.cap] \in Entry /\ Awaits(f) \in Int
      BY <1>0, <1>5, RecLemma DEF Awaits, Entry
    <2>2. Await(k, g, Awaits(f)) \in Entry
      BY <1>0, <1>2, <2>1, AwaitType
    <2>3. h \in Frame
      BY <1>2, Zenon DEF Frame
    <2>4. Append(rest, h) \in Seq(Frame)
      BY <1>3, <2>3, PushLemma
    <2>5. /\ act' = [act EXCEPT ![k].stack = Append(rest, h)]
          /\ rev' = [[rev EXCEPT ![g.cap] = Await(k, g, Awaits(f))]
                        EXCEPT ![f.cap].subs = @ \cup {g.cap}]
      BY <1>5, Zenon DEF ReturnToParent
    <2>6. act' \in [Kernel -> Activity]
      BY <2>4, <2>5, ActStack, Zenon DEF TypeOK
    <2>7. rev' \in [Cap -> Entry \cup {NoEntry}]
      <3> DEFINE r1 == [rev EXCEPT ![g.cap] = Await(k, g, Awaits(f))]
                 e2 == [r1[f.cap] EXCEPT !.subs = @ \cup {g.cap}]
      <3>1. r1 \in [Cap -> Entry \cup {NoEntry}] /\ r1[f.cap] \in Entry
        BY <1>1, <1>2, <2>1, <2>2 DEF TypeOK
      <3>2. e2 \in Entry
        BY <1>2, <3>1, Zenon DEF Entry
      <3>3. rev' = [r1 EXCEPT ![f.cap] = e2]
        BY <2>5
      <3> HIDE DEF r1, e2
      <3> QED BY <3>1, <3>2, <3>3, Zenon
    <2> QED
      BY <1>5, <2>6, <2>7, Zenon DEF ReturnToParent, TypeOK
  <1>6. CASE Awaits(f) # 0 /\ ~CanAwait(g)
    BY <1>6 DEF ReturnToParent, TypeOK, Halt
  <1> QED BY <1>4, <1>5, <1>6

\* The root tells its parent and returns.
LEMMA TellParentType ==
    ASSUME TypeOK, NEW k \in Kernel, NEW v \in Vpe, NEW c \in Cap,
           NEW p \in Cap \cup {None}, TellParent(k, v, c, p)
    PROVE  /\ children' \in [Cap -> SUBSET Cap] /\ msgs' \subseteq Message
           /\ pc' \in [Vpe -> Status] /\ done' \in [Vpe -> Cap \cup {None}]
           /\ halted' \in [Kernel -> {"no", "null", "panic"}]
  <1>1. ReturnToVpe(v, c) => /\ pc' \in [Vpe -> Status]
                            /\ done' \in [Vpe -> Cap \cup {None}]
    BY DEF ReturnToVpe, TypeOK, Status
  <1>2. CASE p = None
    BY <1>1, <1>2 DEF TellParent, TypeOK
  <1>3. CASE p # None /\ Home[p] # k
    <2>1. RemoveChild(c, p) \in Message
      BY DEF RemoveChild, Message
    <2> QED BY <1>1, <1>3, <2>1 DEF TellParent, TypeOK
  <1>4. CASE p # None /\ Home[p] = k /\ ~NullData(p)
    BY <1>1, <1>4 DEF TellParent, TypeOK
  <1>5. CASE p # None /\ Home[p] = k /\ NullData(p)
    BY <1>5 DEF TellParent, TypeOK, Halt
  <1> QED BY <1>2, <1>3, <1>4, <1>5

\* Types: the outermost call of revoke_rec returns.
LEMMA TypeReturn ==
    ASSUME TypeOK, Structure, NEW k \in Kernel,
           ReturnToHandler(k) \/ RootWait(k) \/ RootReturn(k)
    PROVE  TypeOK'
  <1>0. InRec(k) /\ act' = [act EXCEPT ![k] = Idle]
    BY DEF ReturnToHandler, RootWait, RootReturn, Returned
  <1>1. act' \in [Kernel -> Activity]
    BY <1>0, IdleType DEF TypeOK
  <1>2. Top(k).cap \in Cap /\ act[k].req \in Cap \cup {None}
    BY <1>0, RecLemma
  <1>3. CASE ReturnToHandler(k)
    <2>1. RevokeFinish(Top(k).cap, act[k].req) \in Message
      BY <1>2 DEF RevokeFinish, Message
    <2> QED
      BY <1>1, <1>3, <2>1 DEF ReturnToHandler, TypeOK
  <1>4. CASE RootWait(k)
    <2>1. act[k].thr \in Vpe
      BY <1>0, <1>4, RecLemma DEF RootWait
    <2>2. pc' \in [Vpe -> Status]
      BY <1>4, <2>1 DEF RootWait, TypeOK, Status
    <2> QED
      BY <1>1, <1>4, <2>2 DEF RootWait, TypeOK
  <1>5. CASE RootReturn(k)
    <2>1. act[k].thr \in Vpe /\ Top(k).parent \in Cap \cup {None}
      BY <1>0, <1>5, RecLemma DEF RootReturn, Frame
    <2>2. TellParent(k, act[k].thr, Top(k).cap, Top(k).parent)
      BY <1>5 DEF RootReturn
    <2> QED
      BY <1>1, <1>2, <1>5, <2>1, <2>2, TellParentType DEF RootReturn, TypeOK
  <1> QED BY <1>3, <1>4, <1>5

\* Types: notifySubscribers and the removal of the finished entry.
LEMMA TypeNotify ==
    ASSUME TypeOK, Structure, NEW k \in Kernel,
           \/ \E x, s \in Cap : NotifySubscriber(k, x, s)
           \/ FinishEntry(k) \/ FinishRoot(k)
    PROVE  TypeOK'
  <1>0. act[k] \in Activity /\ act[k].mode = "notify" /\ act[k].fin \in Cap
    BY Zenon DEF NotifySubscriber, FinishEntry, FinishRoot, Notified, TypeOK,
           Structure, ActOK, WellFormed
  <1>1. ASSUME NEW x \in Cap, NEW s \in Cap, NotifySubscriber(k, x, s)
        PROVE  TypeOK'
    <2> DEFINE e == rev[s]
               n == e.awaitedResp - 1
               r1 == [rev EXCEPT ![s].awaitedResp = n]
    <2>1. rev' \in [Cap -> Entry \cup {NoEntry}]
      <3>1. CASE HasEntry(s)
        <4>1. rev[s] \in Entry
          BY <3>1 DEF HasEntry, TypeOK
        <4>2. r1 \in [Cap -> Entry \cup {NoEntry}]
          BY <4>1 DEF Entry, TypeOK
        <4>3. [r1[x] EXCEPT !.subs = @ \ {s}] \in Entry \cup {NoEntry}
          <5>1. CASE r1[x] \in Entry
            BY <5>1 DEF Entry
          <5>2. CASE r1[x] = NoEntry
            BY <5>2 DEF NoEntry
          <5> QED BY <4>2, <5>1, <5>2
        <4>4. rev' = [r1 EXCEPT ![x].subs = @ \ {s}]
          BY <1>1, <3>1, Zenon DEF NotifySubscriber
        <4> HIDE DEF r1
        <4> QED BY <4>2, <4>3, <4>4
      <3>2. CASE ~HasEntry(s)
        BY <1>1, <3>2, Zenon DEF NotifySubscriber, TypeOK
      <3> QED BY <3>1, <3>2
    <2>2. e.subs \subseteq Cap /\ e.parent \in Cap \cup {None} /\ e.tid \in Vpe \cup {None}
      BY DEF TypeOK, Entry, NoEntry
    <2>3. act' \in [Kernel -> Activity]
      <3> DEFINE P == IF HasEntry(s) /\ n = 0
                        THEN (act[k].pend \ {<<x, s>>}) \cup {<<s, t>> : t \in e.subs}
                        ELSE act[k].pend \ {<<x, s>>}
                 a == [act[k] EXCEPT !.pend = P]
      <3>1. P \subseteq Cap \X Cap
        BY <1>0, <2>2 DEF Activity
      <3>2. a \in Activity
        <4> HIDE DEF P
        <4> QED BY <1>0, <3>1 DEF Activity
      <3>3. act' = [act EXCEPT ![k].pend = P]
        BY <1>1, Zenon DEF NotifySubscriber
      <3> HIDE DEF P
      <3> QED
        BY <3>2, <3>3 DEF TypeOK
    <2>4. pc' \in [Vpe -> Status]
      BY <1>1, <2>2, WokenType, Zenon DEF NotifySubscriber, TypeOK
    <2>5. msgs' \subseteq Message
      <3>1. RevokeFinish(s, e.parent) \in Message
        BY <2>2 DEF RevokeFinish, Message
      <3>2. msgs' \subseteq msgs \cup {RevokeFinish(s, e.parent)}
        BY <1>1, Zenon DEF NotifySubscriber
      <3> QED BY <3>1, <3>2 DEF TypeOK
    <2> QED
      BY <1>1, <2>1, <2>3, <2>4, <2>5, Zenon DEF NotifySubscriber, TypeOK
  <1>2. CASE FinishEntry(k)
    <2>1. rev[act[k].fin].parent \in Cap \cup {None}
      BY <1>0 DEF TypeOK, Entry, NoEntry
    <2>2. msgs' \subseteq Message
      BY <1>0, <1>2, <2>1 DEF FinishEntry, TypeOK, RevokeFinish, Message
    <2> QED
      BY <1>0, <1>2, <2>2, IdleType, Zenon DEF FinishEntry, TypeOK
  <1>3. CASE FinishRoot(k)
    <2>1. rev[act[k].fin].parent \in Cap \cup {None} /\ act[k].thr \in Vpe
      BY <1>0, <1>3 DEF TypeOK, Entry, NoEntry, FinishRoot, Activity
    <2>2. TellParent(k, act[k].thr, act[k].fin, rev[act[k].fin].parent)
      BY <1>3 DEF FinishRoot
    <2> QED
      BY <1>0, <1>3, <2>1, <2>2, IdleType, TellParentType, Zenon DEF FinishRoot, TypeOK
  <1> QED BY <1>1, <1>2, <1>3

\* The selector that a thread reserved for what it obtains is free when the
\* answer is there, so the thread never cancels.
LEMMA ObtainGoesOn ==
    ASSUME Structure, NEW v \in Vpe, ObtainResume(v)
    PROVE  /\ cur[v] \in Cap /\ Owner[cur[v]] = v /\ cur[v] \notin live
           /\ live' = IF parent[cur[v]] = None THEN live ELSE live \cup {cur[v]}
           /\ msgs' = msgs
  <1>1. cur[v] \in Cap /\ Owner[cur[v]] = v /\ cur[v] \notin live
    BY DEF ObtainResume, Structure, WorkOK, Work
  <1> QED BY <1>1 DEF ObtainResume

\* Types: a thread continues after wait_for.
LEMMA TypeResume ==
    ASSUME TypeOK, Structure, NEW v \in Vpe, Resume(v)
    PROVE  TypeOK'
  <1>0. VpeKernel[v] \in Kernel
    BY ConstantsAssumption
  <1>1. CASE ResumeRoot(v)
    <2>1. cur[v] \in Cap
      BY <1>1 DEF ResumeRoot, Structure, WorkOK, Work, Revoking
    <2>2. StartNotify(VpeKernel[v], v, cur[v])
      BY <1>1 DEF ResumeRoot
    <2> QED
      BY <1>0, <1>1, <2>1, <2>2, StartNotifyType DEF ResumeRoot, TypeOK
  <1>2. CASE ObtainResume(v)
    <2>1. cur[v] \in Cap /\ live' \subseteq live \cup {cur[v]} /\ msgs' = msgs
      BY <1>2, ObtainGoesOn
    <2> QED
      BY <1>2, <2>1 DEF ObtainResume, TypeOK, Status
  <1>3. CASE RevokeAll(v)
    <2>1. CASE Caps(v) \cap live = {}
      BY <1>3, <2>1 DEF RevokeAll, TypeOK, Status
    <2>2. CASE Caps(v) \cap live # {}
      <3>1. PICK c \in Caps(v) \cap live :
              /\ StartRec(VpeKernel[v], v, c, c, None)
              /\ pc' = [pc EXCEPT ![v] = "revokeAll"]
              /\ cur' = [cur EXCEPT ![v] = c]
        BY <1>3, <2>2 DEF RevokeAll
      <3>2. c \in Cap
        BY DEF Caps
      <3> QED
        BY <1>0, <1>3, <3>1, <3>2, StartRecType DEF RevokeAll, TypeOK, Status
    <2> QED BY <2>1, <2>2
  <1> QED BY <1>1, <1>2, <1>3 DEF Resume

\* Types: a system call begins.
LEMMA TypeSyscall ==
    ASSUME TypeOK, Structure, NEW v \in Vpe, Syscall(v)
    PROVE  TypeOK'
  <1>0. VpeKernel[v] \in Kernel
    BY ConstantsAssumption
  <1>1. ASSUME NEW c \in Cap, RevokeSyscall(v, c)
        PROVE  TypeOK'
    <2>1. StartRec(VpeKernel[v], v, c, c, None)
      BY <1>1 DEF RevokeSyscall
    <2> QED
      BY <1>0, <1>1, <2>1, StartRecType DEF RevokeSyscall, TypeOK, Status
  <1>2. ASSUME NEW c \in Cap, RevokeUnused(v, c)
        PROVE  TypeOK'
    BY <1>2 DEF RevokeUnused, TypeOK
  <1>3. CASE Exit(v)
    BY <1>3 DEF Exit, TypeOK, Status
  <1>4. ASSUME NEW c \in Cap, NEW p \in Cap, ObtainLocal(v, c, p)
        PROVE  TypeOK'
    BY <1>4 DEF ObtainLocal, TypeOK
  <1>5. ASSUME NEW c \in Cap, NEW p \in Cap, ObtainRemote(v, c, p)
        PROVE  TypeOK'
    BY <1>5 DEF ObtainRemote, TypeOK, Status, Exchange, Message
  <1> QED BY <1>1, <1>2, <1>3, <1>4, <1>5 DEF Syscall

(***************************************************************************)
(* What the steps do, for the proofs in the other modules.                 *)
(***************************************************************************)
\* Updating the uppermost frame leaves the others alone.
LEMMA WithTopLemma ==
    ASSUME TypeOK, Structure, NEW k \in Kernel, InRec(k), NEW f \in Frame
    PROVE  /\ WithTop(k, f) \in Seq(Frame)
           /\ Len(WithTop(k, f)) = Len(act[k].stack)
           /\ WithTop(k, f)[Len(act[k].stack)] = f
           /\ \A i \in 1..(Len(act[k].stack) - 1) : WithTop(k, f)[i] = act[k].stack[i]
  <1> DEFINE n == Len(act[k].stack)
             b == Below(k)
  <1>1. n \in Nat /\ n > 0 /\ b \in Seq(Frame) /\ Len(b) = n - 1
        /\ \A i \in 1..(n - 1) : b[i] = act[k].stack[i]
    BY RecLemma
  <1>2. /\ Append(b, f) \in Seq(Frame)
        /\ Len(Append(b, f)) = Len(b) + 1
        /\ Append(b, f)[Len(b) + 1] = f
        /\ \A i \in 1..Len(b) : Append(b, f)[i] = b[i]
    BY <1>1, PushLemma
  <1>3. Len(b) + 1 = n
    BY <1>1
  <1> HIDE DEF n, b
  <1> QED
    BY <1>1, <1>2, <1>3, Zenon DEF WithTop, n, b

\* The old frames, while the kernel is in revoke_rec.
LEMMA OldFrames ==
    ASSUME TypeOK, Structure, NEW k \in Kernel, InRec(k),
           NEW i \in 1..Len(act[k].stack)
    PROVE  LET f == act[k].stack[i] IN
           /\ f \in Frame /\ f.cap \in Cap
           /\ Home[f.cap] = k
           /\ f.parent = None => i = 1 /\ act[k].thr # None
           /\ f.cap \notin live
           /\ f.ongoing => HasEntry(f.cap) /\ rev[f.cap] \in Entry
  <1>1. act[k].stack \in Seq(Frame)
    BY RecLemma
  <1>2. i \in DOMAIN act[k].stack /\ act[k].stack[i] \in Frame
    BY <1>1
  <1>3. act[k].stack[i].cap \in Cap
    BY <1>2 DEF Frame
  <1> QED
    BY <1>2, <1>3 DEF Structure, ActOK, WellFormed, FramesOK, TypeOK, HasEntry

\* notifySubscribers removes no entry.
LEMMA NotifyKeeps ==
    ASSUME TypeOK, NEW k \in Kernel, NEW x \in Cap, NEW s \in Cap,
           NotifySubscriber(k, x, s)
    PROVE  /\ \A c \in Cap : HasEntry(c) <=> rev'[c] # NoEntry
           /\ \A c \in Cap : /\ rev'[c].parent = rev[c].parent
                             /\ rev'[c].origin = rev[c].origin
                             /\ rev'[c].tid = rev[c].tid
  <1>1. CASE HasEntry(s)
    <2> DEFINE r1 == [rev EXCEPT ![s].awaitedResp = rev[s].awaitedResp - 1]
    <2>1. rev[s] \in Entry
      BY <1>1 DEF HasEntry, TypeOK
    <2>2. /\ r1 \in [Cap -> Entry \cup {NoEntry}]
          /\ \A c \in Cap : /\ rev[c] # NoEntry <=> r1[c] # NoEntry
                            /\ r1[c].parent = rev[c].parent
                            /\ r1[c].origin = rev[c].origin
                            /\ r1[c].tid = rev[c].tid
      <3>1. [rev[s] EXCEPT !.awaitedResp = rev[s].awaitedResp - 1] \in Entry
        BY <2>1 DEF Entry
      <3>2. \A e \in Entry : e # NoEntry
        BY DEF Entry, NoEntry
      <3> QED BY <2>1, <3>1, <3>2 DEF TypeOK, Entry
    <2>3. rev' = [r1 EXCEPT ![x].subs = @ \ {s}]
      BY <1>1 DEF NotifySubscriber
    <2> HIDE DEF r1
    <2> DEFINE e == [r1[x] EXCEPT !.subs = @ \ {s}]
    <2>4. /\ e.parent = r1[x].parent /\ e.origin = r1[x].origin
          /\ e.tid = r1[x].tid /\ (r1[x] # NoEntry <=> e # NoEntry)
      <3>1. CASE r1[x] \in Entry
        BY <3>1 DEF Entry, NoEntry
      <3>2. CASE r1[x] = NoEntry
        BY <3>2 DEF NoEntry
      <3> QED BY <2>2, <3>1, <3>2
    <2>5. rev' = [r1 EXCEPT ![x] = e]
      BY <2>3
    <2> HIDE DEF e
    <2> QED
      BY <2>2, <2>4, <2>5 DEF HasEntry
  <1>2. CASE ~HasEntry(s)
    BY <1>2 DEF NotifySubscriber, HasEntry
  <1> QED BY <1>1, <1>2

\* The effect of ThreadManager::notify.
LEMMA WokenEffect ==
    ASSUME TypeOK, NEW v \in Vpe \cup {None}, NEW w \in Vpe,
           pc' = [pc EXCEPT ![v] = Woken(v)]
    PROVE  /\ pc'[w] = pc[w] \/ pc[w] \in {"wait", "waitAll"}
           /\ pc'[w] \in Work => pc[w] \in Work
           /\ pc'[w] = "gone" => pc[w] = "gone"
           /\ pc'[w] = "obtain" <=> pc[w] = "obtain"
           /\ pc'[w] = "answered" <=> pc[w] = "answered"
  <1>1. CASE v = w
    BY <1>1 DEF TypeOK, Woken, Work, Revoking
  <1>2. CASE v # w
    BY <1>2 DEF TypeOK
  <1> QED BY <1>1, <1>2

\* The return to the VPE.
LEMMA ReturnEffect ==
    ASSUME TypeOK, NEW k, NEW v \in Vpe, NEW c, NEW p, TellParent(k, v, c, p),
           pc[v] \in {"revoke", "revokeAll", "ready", "readyAll"}
    PROVE  /\ pc' = pc \/ pc' \in {[pc EXCEPT ![v] = "idle"], [pc EXCEPT ![v] = "exit"]}
           /\ \A w \in Vpe : /\ w # v => pc'[w] = pc[w]
                             /\ pc'[w] \in Work => pc[w] \in Work
                             /\ pc'[w] = "gone" => pc[w] = "gone"
  <1>1. pc' = pc \/ pc' \in {[pc EXCEPT ![v] = "idle"], [pc EXCEPT ![v] = "exit"]}
    BY DEF TellParent, ReturnToVpe, TypeOK
  <1> QED
    BY <1>1 DEF TypeOK, Work, Revoking

\* The thread that returns to its VPE worked on a capability that is gone.
LEMMA ReturnedRoot ==
    ASSUME TypeOK, Structure, NEW k \in Kernel, RootReturn(k) \/ FinishRoot(k)
    PROVE  \E v \in Vpe, x \in Cap, q \in Cap \cup {None} :
             /\ TellParent(k, v, x, q)
             /\ cur[v] = x /\ Owner[x] = v /\ VpeKernel[v] = k /\ x \notin live
             /\ pc[v] \in {"revoke", "revokeAll", "ready", "readyAll"}
             /\ cur' = cur /\ live' = live /\ parent' = parent
  <1>1. CASE RootReturn(k)
    <2> DEFINE f == Top(k)
               v == act[k].thr
    <2>1. /\ InRec(k) /\ v # None /\ TellParent(k, v, f.cap, f.parent)
          /\ Len(act[k].stack) = 1 /\ cur' = cur /\ live' = live /\ parent' = parent
      BY <1>1 DEF RootReturn, Returned
    <2>2. f \in Frame /\ f.cap \in Cap /\ v \in Vpe /\ f = act[k].stack[1]
      BY <2>1, RecLemma, Zenon DEF Top
    <2>3. f.parent \in Cap \cup {None}
      BY <2>2 DEF Frame
    <2>4. pc[v] \in {"revoke", "revokeAll"} /\ cur[v] = f.cap /\ VpeKernel[v] = k
      BY <2>1, <2>2, Zenon DEF InRec, Structure, RunOK, Runs
    <2>5. Owner[f.cap] = v /\ f.cap \notin live
      BY <2>2, <2>4 DEF Structure, WorkOK, Work, Revoking
    <2> HIDE DEF f, v
    <2> QED BY <2>1, <2>2, <2>3, <2>4, <2>5, Zenon
  <1>2. CASE FinishRoot(k)
    <2> DEFINE c == act[k].fin
               v == act[k].thr
    <2>1. /\ Notified(k) /\ v # None /\ TellParent(k, v, c, rev[c].parent)
          /\ cur' = cur /\ live' = live /\ parent' = parent
      BY <1>2 DEF FinishRoot
    <2>2. v \in Vpe /\ c \in Cap
      BY <2>1 DEF Notified, Structure, ActOK, WellFormed, TypeOK, Activity
    <2>3. rev[c].parent \in Cap \cup {None}
      BY <2>2 DEF TypeOK, Entry, NoEntry
    <2>4. pc[v] \in {"ready", "readyAll"} /\ cur[v] = c /\ VpeKernel[v] = k
      BY <2>1, <2>2 DEF Notified, Structure, RunOK, Runs
    <2>5. Owner[c] = v /\ c \notin live
      BY <2>2, <2>4 DEF Structure, WorkOK, Work, Revoking
    <2> HIDE DEF c, v
    <2> QED BY <2>1, <2>2, <2>3, <2>4, <2>5
  <1> QED BY <1>1, <1>2

\* The VPE of c obtains c from another kernel.
Obtaining(c) == pc[Owner[c]] \in {"obtain", "answered"} /\ cur[Owner[c]] = c

\* A capability in the table is not being obtained.
LEMMA LiveNotObtaining ==
    ASSUME TypeOK, Structure, NEW c \in Cap, Obtaining(c)
    PROVE  c \notin live
  BY HomeType DEF Structure, WorkOK, Work, Obtaining

\* Every step preserves the types.
LEMMA TypeNext == TypeOK /\ Structure /\ [Next]_vars => TypeOK'
  <1> SUFFICES ASSUME TypeOK, Structure, [Next]_vars
               PROVE  TypeOK'
    OBVIOUS
  <1>1. ASSUME NEW m \in msgs, Handle(m) PROVE TypeOK'
    BY <1>1, TypeHandle
  <1>2. ASSUME NEW k \in Kernel, RunThread(k) PROVE TypeOK'
    BY <1>2, TypeRevokeRemoteChild, TypeRevokeLocalChild, TypeReturnToParent,
       TypeReturn, TypeNotify DEF RunThread
  <1>3. ASSUME NEW v \in Vpe, Resume(v) PROVE TypeOK'
    BY <1>3, TypeResume
  <1>4. ASSUME NEW v \in Vpe, Syscall(v) PROVE TypeOK'
    BY <1>4, TypeSyscall
  <1>5. CASE UNCHANGED vars
    BY <1>5 DEF vars, TypeOK
  <1> QED BY <1>1, <1>2, <1>3, <1>4, <1>5 DEF Next

=============================================================================
