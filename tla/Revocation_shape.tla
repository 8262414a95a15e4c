-------------------------- MODULE Revocation_shape --------------------------
(***************************************************************************)
(* The conjuncts of Structure about the frames of the running threads, the *)
(* entries of the revocation lists and the kernelcalls are preserved.      *)
(***************************************************************************)
EXTENDS Revocation_types

(***************************************************************************)
(* The shape of the running threads.                                       *)
(***************************************************************************)
\* Only act[k] changes, to a well-formed activity.
LEMMA ActStep ==
    ASSUME TypeOK, ActOK, NEW k \in Kernel, NEW a, WellFormed(a, k),
           act' = [act EXCEPT ![k] = a]
    PROVE  ActOK'
  BY DEF TypeOK, ActOK

\* A capability that somebody is about to visit has a parent.
LEMMA VisitedHasParent ==
    ASSUME TypeOK, Structure, NEW d \in live, ToBeRevoked(d)
    PROVE  parent[d] \in Cap
  BY DEF TypeOK, Structure, RootsUnlisted

\* A child on the list of the uppermost frame is still to be revoked.
LEMMA KidsVisited ==
    ASSUME TypeOK, Structure, NEW k \in Kernel, InRec(k), NEW d \in Top(k).kids
    PROVE  ToBeRevoked(d)
  <1>1. Len(act[k].stack) \in DOMAIN act[k].stack
    BY RecLemma
  <1> QED
    BY <1>1 DEF Top, ToBeRevoked, Pending

\* The thread that enters revoke_rec is well-formed.
LEMMA StartRecOK ==
    ASSUME TypeOK, Structure, NEW k \in Kernel, NEW v \in Vpe \cup {None},
           NEW c \in Cap, NEW o \in Cap, NEW q \in Cap \cup {None},
           StartRec(k, v, c, o, q), Home[c] = k,
           v # None => c = o, v = None => q \in Cap /\ parent[c] # None
    PROVE  ActOK'
  <1> DEFINE a == [Idle EXCEPT !.mode = "rec", !.thr = v, !.origin = o,
                    !.req = q, !.stack = <<FrameOf(c)>>]
  <1>1. WellFormed(a, k)
    BY DEF WellFormed, Idle, FrameOf
  <1> QED
    BY <1>1, ActStep, Zenon DEF StartRec, Structure

\* The thread that enters notifySubscribers is well-formed.
LEMMA StartNotifyOK ==
    ASSUME TypeOK, Structure, NEW k \in Kernel, NEW v, NEW c \in Cap,
           Home[c] = k, StartNotify(k, v, c)
    PROVE  ActOK'
  <1> DEFINE a == [Idle EXCEPT !.mode = "notify", !.thr = v, !.fin = c,
                    !.pend = {<<c, s>> : s \in rev[c].subs}]
  <1>1. WellFormed(a, k)
    BY DEF WellFormed, Idle
  <1> QED
    BY <1>1, ActStep, Zenon DEF StartNotify, Structure

\* A kernel between two handlers is well-formed.
LEMMA IdleOK ==
    ASSUME TypeOK, Structure, NEW k \in Kernel, act' = [act EXCEPT ![k] = Idle]
    PROVE  ActOK'
  <1>1. WellFormed(Idle, k)
    BY DEF WellFormed, Idle
  <1> QED
    BY <1>1, ActStep, Zenon DEF Structure

\* What the frames of a stack say about capabilities.
Frames(X, k) ==
    /\ X \in Seq(Frame) /\ X # << >>
    /\ X[1].cap = act[k].stack[1].cap
    /\ \A i \in 1..Len(X) :
         /\ Home[X[i].cap] = k
         /\ X[i].parent = None => i = 1 /\ act[k].thr # None
         /\ X[i].cap \notin live'
         /\ X[i].ongoing => rev'[X[i].cap] # NoEntry

\* ActOK: the running thread of kernel k changes its stack only.
LEMMA StackStep ==
    ASSUME TypeOK, Structure, NEW k \in Kernel, InRec(k), NEW X, Frames(X, k),
           act' = [act EXCEPT ![k].stack = X]
    PROVE  ActOK'
  <1> DEFINE a == [act[k] EXCEPT !.stack = X]
  <1>1. act[k] \in Activity /\ WellFormed(act[k], k)
    BY DEF TypeOK, Structure, ActOK
  <1>2. DOMAIN X = 1..Len(X)
    BY DEF Frames
  <1>3. WellFormed(a, k)
    BY <1>1, <1>2, Zenon DEF WellFormed, InRec, Activity, Frames
  <1> HIDE DEF a
  <1>4. act' = [act EXCEPT ![k] = a]
    BY DEF a
  <1> QED
    BY <1>3, <1>4, ActStep, Zenon DEF Structure

\* The frames after revoke_rec met a child on another kernel.
LEMMA RemoteChildFrames ==
    ASSUME TypeOK, Structure, NEW k \in Kernel, NEW d \in Cap,
           RevokeRemoteChild(k, d), CanAwait(Top(k))
    PROVE  Frames(WithTop(k, [Top(k) EXCEPT !.kids = @ \ {d}, !.ongoing = TRUE]), k)
  <1> DEFINE f == Top(k)
             g == [f EXCEPT !.kids = @ \ {d}, !.ongoing = TRUE]
             s == act[k].stack
             n == Len(s)
             X == WithTop(k, g)
  <1>0. InRec(k) /\ live' = live /\ rev' = [rev EXCEPT ![f.cap] = Await(k, f, 1)]
    BY DEF RevokeRemoteChild
  <1>1. /\ f \in Frame /\ f.cap \in Cap /\ n \in Nat /\ n > 0 /\ f = s[n]
        /\ f.ongoing => rev[f.cap] \in Entry
    BY <1>0, RecLemma, Zenon DEF Top
  <1>2. g \in Frame /\ g.cap = f.cap /\ g.parent = f.parent
    BY <1>1, Zenon DEF Frame
  <1>3. /\ X \in Seq(Frame) /\ Len(X) = n /\ X[n] = g
        /\ \A i \in 1..(n - 1) : X[i] = s[i]
    BY <1>0, <1>2, WithTopLemma, Zenon
  <1>4. Await(k, f, 1) \in Entry
    BY <1>0, <1>1, AwaitType
  <1>5. Await(k, f, 1) # NoEntry
    BY <1>4 DEF Entry, NoEntry
  <1>6. \A c \in Cap : HasEntry(c) \/ c = f.cap => rev'[c] # NoEntry
    BY <1>0, <1>1, <1>5, Zenon DEF HasEntry, TypeOK
  <1>7. \A i \in 1..n : /\ X[i].cap = s[i].cap /\ X[i].parent = s[i].parent
                        /\ X[i].ongoing => s[i].ongoing \/ s[i].cap = f.cap
    <2> HIDE DEF X, n, s, f, g
    <2>1. \A i \in 1..n : i = n \/ i \in 1..(n - 1)
      BY <1>1
    <2> QED BY <1>1, <1>2, <1>3, <2>1
  <1>8. X # << >> /\ 1 \in 1..n
    BY <1>1, <1>3
  <1> HIDE DEF X, n, s, f
  <1>9. \A i \in 1..n : LET e == s[i] IN
           /\ e.cap \in Cap
           /\ Home[e.cap] = k
           /\ e.parent = None => i = 1 /\ act[k].thr # None
           /\ e.cap \notin live
           /\ e.ongoing => HasEntry(e.cap)
    BY <1>0, OldFrames, Zenon DEF s, n
  <1>10. \A i \in 1..Len(X) :
           /\ Home[X[i].cap] = k
           /\ X[i].parent = None => i = 1 /\ act[k].thr # None
           /\ X[i].cap \notin live'
           /\ X[i].ongoing => rev'[X[i].cap] # NoEntry
    BY <1>0, <1>3, <1>6, <1>7, <1>9
  <1>11. X[1].cap = s[1].cap
    BY <1>7, <1>8
  <1>12. Frames(X, k)
    BY <1>3, <1>8, <1>10, <1>11 DEF Frames, s
  <1> QED
    BY <1>12 DEF X, f

\* The frames after the recursive call for a local child.
LEMMA LocalChildFrames ==
    ASSUME TypeOK, Structure, NEW k \in Kernel, NEW d \in Cap,
           RevokeLocalChild(k, d), ~NullData(d)
    PROVE  Frames(Append(WithTop(k, [Top(k) EXCEPT !.kids = @ \ {d}]), FrameOf(d)), k)
  <1> DEFINE f == Top(k)
             g == [f EXCEPT !.kids = @ \ {d}]
             s == act[k].stack
             n == Len(s)
             W == WithTop(k, g)
             h == FrameOf(d)
             X == Append(W, h)
  <1>0. InRec(k) /\ live' = live \ {d} /\ rev' = rev /\ Home[d] = k /\ d \in f.kids
    BY DEF RevokeLocalChild, Unset
  <1>1. f \in Frame /\ f.cap \in Cap /\ n \in Nat /\ n > 0 /\ f = s[n]
    BY <1>0, RecLemma, Zenon DEF Top
  <1>2. /\ g \in Frame /\ g.cap = f.cap /\ g.parent = f.parent
        /\ g.ongoing = f.ongoing
    BY <1>1, Zenon DEF Frame
  <1> HIDE DEF g, f
  <1>3. /\ W \in Seq(Frame) /\ Len(W) = n /\ W[n] = g
        /\ \A i \in 1..(n - 1) : W[i] = s[i]
    BY <1>0, <1>2, WithTopLemma, Zenon
  <1> USE DEF g, f
  <1>4. parent[d] \in Cap
    BY <1>0, VisitedHasParent, KidsVisited DEF NullData
  <1>5. /\ h \in Frame /\ h.cap = d /\ h.parent # None /\ ~h.ongoing
        /\ d \notin live'
    BY <1>0, <1>4, FrameType, ConstantsAssumption DEF FrameOf
  <1>6. \A i \in 1..n : i = n \/ i \in 1..(n - 1)
    BY <1>1
  <1>7. \A i \in 1..n : LET e == s[i] IN
           /\ e.cap \in Cap
           /\ Home[e.cap] = k
           /\ e.parent = None => i = 1 /\ act[k].thr # None
           /\ e.cap \notin live
           /\ e.ongoing => HasEntry(e.cap)
    BY <1>0, OldFrames
  <1> HIDE DEF f, g, s, n, W, h
  <1>8. /\ X \in Seq(Frame) /\ X # << >> /\ Len(X) = n + 1 /\ X[n + 1] = h
        /\ \A i \in 1..n : X[i] = W[i]
    BY <1>3, <1>5, PushLemma
  <1> HIDE DEF X
  <1>9. \A i \in 1..n : /\ X[i].cap = s[i].cap /\ X[i].parent = s[i].parent
                        /\ X[i].ongoing = s[i].ongoing
    BY <1>1, <1>2, <1>3, <1>6, <1>8
  <1>10. \A i \in 1..Len(X) : i = n + 1 \/ i \in 1..n
    BY <1>1, <1>8
  <1>11. \A i \in 1..Len(X) :
           /\ Home[X[i].cap] = k
           /\ X[i].parent = None => i = 1 /\ act[k].thr # None
           /\ X[i].cap \notin live'
           /\ X[i].ongoing => rev'[X[i].cap] # NoEntry
    BY <1>0, <1>5, <1>7, <1>8, <1>9, <1>10 DEF HasEntry
  <1>12. X[1].cap = s[1].cap
    BY <1>1, <1>9
  <1>13. Frames(X, k)
    BY <1>8, <1>11, <1>12 DEF Frames, s
  <1> QED
    BY <1>13 DEF X, f, g, W, h

\* The stack after the return to the activation of the local parent.
LEMMA ParentFrames ==
    ASSUME TypeOK, Structure, NEW k \in Kernel, ReturnToParent(k),
           halted'[k] = "no"
    PROVE  \E X : /\ Frames(X, k) /\ act' = [act EXCEPT ![k].stack = X]
                  /\ Len(X) = Len(act[k].stack) - 1
                  /\ \A i \in 1..Len(X) : X[i].kids = act[k].stack[i].kids
  <1> DEFINE s == act[k].stack
             n == Len(s)
             f == Top(k)
             b == Below(k)
             g == b[Len(b)]
             rest == SubSeq(s, 1, n - 2)
             h == [g EXCEPT !.ongoing = TRUE]
  <1>0. InRec(k) /\ n > 1 /\ live' = live
    BY DEF ReturnToParent, Returned
  <1>1. /\ s \in Seq(Frame) /\ n \in Nat /\ b \in Seq(Frame) /\ Len(b) = n - 1
        /\ \A i \in 1..(n - 1) : b[i] = s[i]
        /\ f \in Frame /\ f.cap \in Cap
        /\ f.ongoing => rev[f.cap] \in Entry
    BY <1>0, RecLemma
  <1>2. \A i \in 1..n : LET e == s[i] IN
           /\ e \in Frame /\ e.cap \in Cap
           /\ Home[e.cap] = k
           /\ e.parent = None => i = 1 /\ act[k].thr # None
           /\ e.cap \notin live
           /\ e.ongoing => HasEntry(e.cap) /\ rev[e.cap] \in Entry
    BY <1>0, OldFrames, Zenon
  <1>3. CASE Awaits(f) = 0
    <2>1. act' = [act EXCEPT ![k].stack = b] /\ rev' = rev
      BY <1>3 DEF ReturnToParent
    <2> HIDE DEF s, n, b
    <2>2. b # << >>
      BY <1>0, <1>1
    <2>3. \A i \in 1..Len(b) : b[i] = s[i] /\ i \in 1..n
      BY <1>1
    <2>4. b[1] = s[1]
      BY <1>0, <1>1
    <2>5. Frames(b, k)
      BY <1>0, <1>1, <1>2, <2>1, <2>2, <2>3, <2>4, SMTT(30) DEF Frames, HasEntry, s
    <2> QED
      BY <1>0, <1>1, <2>1, <2>5, Zenon DEF s, n
  <1>4. CASE Awaits(f) # 0 /\ CanAwait(g)
    <2>1. /\ act' = [act EXCEPT ![k].stack = Append(rest, h)]
          /\ rev' = [[rev EXCEPT ![g.cap] = Await(k, g, Awaits(f))]
                        EXCEPT ![f.cap].subs = @ \cup {g.cap}]
      BY <1>4, Zenon DEF ReturnToParent
    <2> DEFINE X == Append(rest, h)
    <2>2. g = s[n - 1] /\ n - 1 \in 1..n
      BY <1>0, <1>1
    <2>3. g \in Frame /\ g.cap \in Cap
      BY <1>2, <2>2, Zenon
    <2>4. h \in Frame /\ h.cap = g.cap /\ h.parent = g.parent /\ h.kids = g.kids
      BY <2>3, Zenon DEF Frame
    <2>5. /\ rest \in Seq(Frame) /\ Len(rest) = n - 2
          /\ \A i \in 1..(n - 2) : rest[i] = s[i]
      BY <1>0, <1>1, PopLemma
    <2>6. \A c \in Cap : HasEntry(c) \/ c = g.cap => rev'[c] # NoEntry
      <3> DEFINE A == Await(k, g, Awaits(f))
                 r1 == [rev EXCEPT ![g.cap] = A]
      <3>1. f.ongoing /\ rev[f.cap] \in Entry /\ Awaits(f) \in Int
        BY <1>1, <1>4 DEF Awaits, Entry
      <3>2. A \in Entry
        BY <1>0, <1>2, <2>2, <2>3, <3>1, AwaitType, Zenon
      <3> HIDE DEF A
      <3>3. /\ r1 \in [Cap -> Entry \cup {NoEntry}] /\ r1[f.cap] \in Entry
            /\ \A c \in Cap : HasEntry(c) \/ c = g.cap => r1[c] # NoEntry
        <4>1. A # NoEntry
          BY <3>2 DEF Entry, NoEntry
        <4> QED BY <1>1, <2>3, <3>1, <3>2, <4>1, Zenon DEF TypeOK, HasEntry
      <3> HIDE DEF r1
      <3>4. [r1[f.cap] EXCEPT !.subs = @ \cup {g.cap}] # NoEntry
        BY <3>3 DEF Entry, NoEntry
      <3>5. rev' = [r1 EXCEPT ![f.cap].subs = @ \cup {g.cap}]
        BY <2>1 DEF r1, A
      <3> QED
        BY <1>1, <3>3, <3>4, <3>5, Zenon
    <2> HIDE DEF s, n, f, b, g, rest, h
    <2>7. /\ X \in Seq(Frame) /\ X # << >> /\ Len(X) = n - 1
          /\ X[n - 1] = h
          /\ \A i \in 1..(n - 2) : X[i] = s[i]
      <3>1. Len(rest) + 1 = n - 1
        BY <1>1, <2>5
      <3>2. /\ X \in Seq(Frame) /\ X # << >> /\ Len(X) = Len(rest) + 1
            /\ X[Len(rest) + 1] = h /\ \A i \in 1..Len(rest) : X[i] = rest[i]
        BY <2>4, <2>5, PushLemma
      <3> QED BY <2>5, <3>1, <3>2, Zenon
    <2> HIDE DEF X
    <2>8. \A i \in 1..(n - 1) : i \in 1..n /\ (i = n - 1 \/ i \in 1..(n - 2))
      BY <1>1
    <2>9. \A i \in 1..(n - 1) :
            /\ X[i].cap = s[i].cap /\ X[i].parent = s[i].parent
            /\ X[i].kids = s[i].kids
            /\ X[i].ongoing => s[i].ongoing \/ s[i].cap = g.cap
      BY <2>2, <2>4, <2>7, <2>8
    <2>10. X[1].cap = s[1].cap
      BY <1>0, <1>1, <2>9
    <2>11. Frames(X, k)
      BY <1>0, <1>2, <2>6, <2>7, <2>8, <2>9, <2>10 DEF Frames, s
    <2>12. act' = [act EXCEPT ![k].stack = X]
      BY <2>1 DEF X
    <2>13. /\ Len(X) = Len(act[k].stack) - 1
           /\ \A i \in 1..Len(X) : X[i].kids = act[k].stack[i].kids
      BY <2>7, <2>9 DEF s, n
    <2> QED
      BY <2>11, <2>12, <2>13, Zenon
  <1>5. CASE Awaits(f) # 0 /\ ~CanAwait(g)
    BY <1>0, <1>5 DEF ReturnToParent, Halt, TypeOK
  <1> QED BY <1>3, <1>4, <1>5

\* A step of kernel k leaves the frames of the others alone.
LEMMA FramesStep ==
    ASSUME TypeOK, Structure, NEW k \in Kernel,
           \A j \in Kernel : j # k => act'[j] = act[j],
           \A c \in Cap : Home[c] # k =>
               (c \in live' => c \in live) /\ (HasEntry(c) => rev'[c] # NoEntry),
           \A i \in DOMAIN act'[k].stack : LET f == act'[k].stack[i] IN
               f.cap \notin live' /\ (f.ongoing => rev'[f.cap] # NoEntry)
    PROVE  FramesOK'
  <1> SUFFICES ASSUME NEW j \in Kernel, j # k, NEW i \in DOMAIN act[j].stack
               PROVE  LET f == act[j].stack[i] IN
                      f.cap \notin live' /\ (f.ongoing => rev'[f.cap] # NoEntry)
    BY DEF FramesOK, HasEntry
  <1> DEFINE f == act[j].stack[i]
  <1>1. act[j].stack \in Seq(Frame)
    BY DEF TypeOK, Activity
  <1>2. f.cap \in Cap
    <2>1. f \in Frame
      BY <1>1
    <2> QED BY <2>1 DEF Frame
  <1>3. Home[f.cap] = j /\ f.cap \notin live /\ (f.ongoing => HasEntry(f.cap))
    BY Zenon DEF Structure, ActOK, WellFormed, FramesOK
  <1> QED BY <1>2, <1>3, Zenon

\* ... in particular when it is not in revoke_rec afterwards,
LEMMA FramesEmpty ==
    ASSUME TypeOK, Structure, NEW k \in Kernel, NEW a, act' = [act EXCEPT ![k] = a],
           a.stack = << >>,
           \A c \in Cap : Home[c] # k =>
               (c \in live' => c \in live) /\ (HasEntry(c) => rev'[c] # NoEntry)
    PROVE  FramesOK'
  <1>1. act'[k] = a /\ \A j \in Kernel : j # k => act'[j] = act[j]
    BY DEF TypeOK
  <1>2. DOMAIN act'[k].stack = {}
    BY <1>1
  <1> QED BY <1>1, <1>2, FramesStep

\* ... when it starts,
LEMMA FramesStart ==
    ASSUME TypeOK, Structure, NEW k \in Kernel, NEW v, NEW c \in Cap, NEW o, NEW q,
           StartRec(k, v, c, o, q), UNCHANGED rev
    PROVE  FramesOK'
  <1>1. /\ act'[k].stack = <<FrameOf(c)>>
        /\ \A j \in Kernel : j # k => act'[j] = act[j]
        /\ live' = live \ {c}
    BY DEF TypeOK, StartRec, Idle, Unset
  <1>2. FrameOf(c).cap = c /\ ~FrameOf(c).ongoing
    BY DEF FrameOf
  <1>3. \A i \in DOMAIN act'[k].stack : act'[k].stack[i] = FrameOf(c)
    BY <1>1
  <1>4. \A d \in Cap : HasEntry(d) => rev'[d] # NoEntry
    BY DEF HasEntry
  <1> QED BY <1>1, <1>2, <1>3, <1>4, FramesStep

\* ... and while it is in revoke_rec.
LEMMA FramesRec ==
    ASSUME TypeOK, Structure, NEW k \in Kernel, NEW X, Frames(X, k),
           act' = [act EXCEPT ![k].stack = X],
           \A c \in Cap : Home[c] # k =>
               (c \in live' => c \in live) /\ (HasEntry(c) => rev'[c] # NoEntry)
    PROVE  FramesOK'
  <1>1. act'[k].stack = X /\ \A j \in Kernel : j # k => act'[j] = act[j]
    BY DEF TypeOK, Activity
  <1>2. \A i \in DOMAIN X : X[i].cap \notin live' /\ (X[i].ongoing => rev'[X[i].cap] # NoEntry)
    <2>1. DOMAIN X = 1..Len(X)
      BY DEF Frames
    <2> QED BY <2>1 DEF Frames
  <1> QED BY <1>1, <1>2, FramesStep

\* ActOK and FramesOK: a kernelcall is handled.
LEMMA ShapeHandle ==
    ASSUME TypeOK, Structure, NEW m \in msgs, Handle(m)
    PROVE  ActOK' /\ FramesOK'
  <1> USE HomeType, ConstantsAssumption
  <1>0. m \in Message /\ m.cap \in Cap /\ m.parent \in Cap \cup {None}
    BY DEF TypeOK, Message
  <1>1. CASE HandleRevoke(m) /\ NullData(m.cap)
    BY <1>1 DEF HandleRevoke, Structure, ActOK, FramesOK, HasEntry
  <1>2. CASE HandleRevoke(m) /\ ~NullData(m.cap)
    <2>1. StartRec(Home[m.cap], None, m.cap, m.origin, m.parent) /\ UNCHANGED rev
      BY <1>2 DEF HandleRevoke
    <2>2. m.origin \in Cap /\ m.parent \in Cap
      BY <1>2 DEF HandleRevoke, Structure, MsgOK
    <2>3. parent[m.cap] \in Cap
      BY <1>2, VisitedHasParent DEF NullData, ToBeRevoked, HandleRevoke
    <2>4. ActOK'
      BY <1>0, <2>1, <2>2, <2>3, StartRecOK
    <2> QED
      BY <1>0, <2>1, <2>4, FramesStart
  <1>3. CASE HandleRevokeFinish(m)
    <2> DEFINE c == m.parent
               k == Home[c]
    <2>1. c \in Cap
      BY <1>3, Zenon DEF HandleRevokeFinish, Structure, MsgOK
    <2>2. \A d \in Cap : HasEntry(d) => rev'[d] # NoEntry
      <3>1. CASE HasEntry(c)
        <4>1. rev' = [rev EXCEPT ![c].awaitedResp = rev[c].awaitedResp - 1] /\ rev[c] \in Entry
          BY <1>3, <2>1, <3>1, Zenon DEF HandleRevokeFinish, TypeOK, HasEntry
        <4>2. rev'[c].kind = "entry"
          BY <2>1, <4>1 DEF Entry, TypeOK
        <4> QED BY <2>1, <4>1, <4>2 DEF NoEntry, HasEntry, TypeOK
      <3>2. CASE ~HasEntry(c)
        BY <1>3, <3>2 DEF HandleRevokeFinish, HasEntry
      <3> QED BY <3>1, <3>2
    <2>3. CASE UNCHANGED act
      <3>1. FramesOK'
        <4> SUFFICES ASSUME NEW j \in Kernel, NEW i \in DOMAIN act[j].stack
                     PROVE  LET f == act[j].stack[i] IN
                            f.cap \notin live' /\ (f.ongoing => rev'[f.cap] # NoEntry)
          BY <2>3 DEF FramesOK, HasEntry
        <4>1. act[j].stack \in Seq(Frame)
          BY DEF TypeOK, Activity
        <4>2. act[j].stack[i] \in Frame
          BY <4>1
        <4>3. act[j].stack[i].cap \in Cap
          BY <4>2 DEF Frame
        <4> QED BY <1>3, <2>2, <4>3, Zenon DEF Structure, FramesOK, HandleRevokeFinish
      <3> QED BY <2>3, <3>1 DEF Structure, ActOK
    <2>4. CASE StartNotify(k, None, c)
      <3>1. ActOK'
        BY <2>1, <2>4, StartNotifyOK
      <3>2. live' = live
        BY <1>3, Zenon DEF HandleRevokeFinish
      <3> DEFINE a == [Idle EXCEPT !.mode = "notify", !.thr = None, !.fin = c,
                        !.pend = {<<c, s>> : s \in rev[c].subs}]
      <3>3. act' = [act EXCEPT ![k] = a] /\ a.stack = << >>
        BY <2>4 DEF StartNotify, Idle
      <3> HIDE DEF a
      <3>4. FramesOK'
        BY <2>1, <2>2, <3>2, <3>3, FramesEmpty, Zenon
      <3> QED BY <3>1, <3>4
    <2> QED
      BY <1>3, <2>3, <2>4, Zenon DEF HandleRevokeFinish
  <1>4. CASE HandleRemoveChild(m) \/ HandleExchange(m) \/ HandleExchangeGone(m)
             \/ HandleExchangeReply(m)
    BY <1>4 DEF HandleRemoveChild, HandleExchange, HandleExchangeGone,
                HandleExchangeReply, Structure, ActOK, FramesOK, HasEntry
  <1> QED
    BY <1>1, <1>2, <1>3, <1>4 DEF Handle

\* ActOK and FramesOK: the tables, lists and threads do not change.
LEMMA ShapeUnchanged ==
    ASSUME Structure, UNCHANGED act, UNCHANGED live, UNCHANGED rev
    PROVE  ActOK' /\ FramesOK'
  BY DEF Structure, ActOK, FramesOK, HasEntry

\* ActOK and FramesOK: the steps of revoke_rec.
LEMMA ShapeRec ==
    ASSUME TypeOK, Structure, NEW k \in Kernel,
           \/ \E d \in Cap : RevokeRemoteChild(k, d) \/ RevokeLocalChild(k, d)
           \/ ReturnToParent(k)
    PROVE  ActOK' /\ FramesOK'
  <1>0. InRec(k)
    BY Zenon DEF RevokeRemoteChild, RevokeLocalChild, ReturnToParent, Returned
  <1>1. ASSUME NEW d \in Cap, RevokeRemoteChild(k, d)
        PROVE  ActOK' /\ FramesOK'
    <2> DEFINE X == WithTop(k, [Top(k) EXCEPT !.kids = @ \ {d}, !.ongoing = TRUE])
    <2>1. CASE CanAwait(Top(k))
      <3>1. Frames(X, k) /\ act' = [act EXCEPT ![k].stack = X]
        BY <1>1, <2>1, RemoteChildFrames, Zenon DEF RevokeRemoteChild
      <3>2. \A c \in Cap : Home[c] # k =>
               (c \in live' => c \in live) /\ (HasEntry(c) => rev'[c] # NoEntry)
        <4>1. Home[Top(k).cap] = k /\ Top(k).cap \in Cap
          BY <1>0, RecLemma
        <4>2. live' = live /\ rev' = [rev EXCEPT ![Top(k).cap] = Await(k, Top(k), 1)]
          BY <1>1, <2>1, Zenon DEF RevokeRemoteChild
        <4> QED BY <4>1, <4>2 DEF TypeOK, HasEntry
      <3> HIDE DEF X
      <3> QED BY <1>0, <3>1, <3>2, StackStep, FramesRec, Zenon
    <2>2. CASE ~CanAwait(Top(k))
      BY <1>1, <2>2, ShapeUnchanged DEF RevokeRemoteChild
    <2> QED BY <2>1, <2>2
  <1>2. ASSUME NEW d \in Cap, RevokeLocalChild(k, d)
        PROVE  ActOK' /\ FramesOK'
    <2> DEFINE X == Append(WithTop(k, [Top(k) EXCEPT !.kids = @ \ {d}]), FrameOf(d))
    <2>1. CASE ~NullData(d)
      <3>1. Frames(X, k) /\ act' = [act EXCEPT ![k].stack = X]
        BY <1>2, <2>1, LocalChildFrames, Zenon DEF RevokeLocalChild
      <3>2. \A c \in Cap : (c \in live' => c \in live) /\ (HasEntry(c) => rev'[c] # NoEntry)
        BY <1>2, <2>1 DEF RevokeLocalChild, Unset, HasEntry
      <3> HIDE DEF X
      <3> QED BY <1>0, <3>1, <3>2, StackStep, FramesRec, Zenon
    <2>2. CASE NullData(d)
      BY <1>2, <2>2, ShapeUnchanged DEF RevokeLocalChild
    <2> QED BY <2>1, <2>2
  <1>3. CASE ReturnToParent(k)
    <2>1. CASE halted'[k] = "no"
      <3>1. PICK X : Frames(X, k) /\ act' = [act EXCEPT ![k].stack = X]
        BY <1>3, <2>1, ParentFrames
      <3>2. \A c \in Cap : Home[c] # k =>
               (c \in live' => c \in live) /\ (HasEntry(c) => rev'[c] # NoEntry)
        <4> DEFINE f == Top(k)
                   g == Below(k)[Len(Below(k))]
        <4>1. Home[f.cap] = k /\ f.cap \in Cap
          BY <1>0, RecLemma
        <4>2. Home[g.cap] = k /\ g.cap \in Cap
          <5>1. /\ Len(act[k].stack) > 1 /\ Len(act[k].stack) \in Nat
                /\ g = act[k].stack[Len(act[k].stack) - 1]
            BY <1>0, <1>3, RecLemma DEF ReturnToParent
          <5> QED BY <1>0, <5>1, OldFrames
        <4> HIDE DEF f, g
        <4>3. live' = live
          BY <1>3, Zenon DEF ReturnToParent
        <4>4. \A c \in Cap : c # f.cap /\ c # g.cap => rev'[c] = rev[c]
          BY <1>3, <4>1, <4>2, Zenon DEF ReturnToParent, TypeOK, f, g
        <4> QED BY <4>1, <4>2, <4>3, <4>4 DEF HasEntry
      <3> QED BY <1>0, <3>1, <3>2, StackStep, FramesRec, Zenon
    <2>2. CASE halted'[k] # "no"
      <3>1. UNCHANGED act /\ UNCHANGED live /\ UNCHANGED rev
        BY <1>0, <1>3, <2>2, Zenon DEF ReturnToParent, InRec
      <3> QED BY <3>1, ShapeUnchanged
    <2> QED BY <2>1, <2>2
  <1> QED BY <1>1, <1>2, <1>3

\* ActOK and FramesOK: revoke_rec and notifySubscribers end.
LEMMA ShapeReturn ==
    ASSUME TypeOK, Structure, NEW k \in Kernel,
           \/ ReturnToHandler(k) \/ RootWait(k) \/ RootReturn(k)
           \/ \E x, s \in Cap : NotifySubscriber(k, x, s)
           \/ FinishEntry(k) \/ FinishRoot(k)
    PROVE  ActOK' /\ FramesOK'
  <1>1. CASE ReturnToHandler(k) \/ RootWait(k) \/ RootReturn(k)
    <2>1. act' = [act EXCEPT ![k] = Idle] /\ live' = live /\ rev' = rev
      BY <1>1 DEF ReturnToHandler, RootWait, RootReturn
    <2>2. Idle.stack = << >>
      BY DEF Idle
    <2> QED
      BY <2>1, <2>2, IdleOK, FramesEmpty, Zenon DEF HasEntry
  <1>2. ASSUME NEW x \in Cap, NEW s \in Cap, NotifySubscriber(k, x, s)
        PROVE  ActOK' /\ FramesOK'
    <2>1. /\ act[k].mode = "notify" /\ act[k] \in Activity
          /\ WellFormed(act[k], k) /\ live' = live
      BY <1>2, Zenon DEF NotifySubscriber, TypeOK, Structure, ActOK
    <2>2. PICK P : act' = [act EXCEPT ![k].pend = P]
      BY <1>2, Zenon DEF NotifySubscriber
    <2> DEFINE a == [act[k] EXCEPT !.pend = P]
    <2>3. act' = [act EXCEPT ![k] = a]
      BY <2>2
    <2>4. WellFormed(a, k) /\ a.stack = << >>
      BY <2>1 DEF WellFormed, Activity
    <2> HIDE DEF a
    <2> QED
      BY <1>2, <2>1, <2>3, <2>4, ActStep, FramesEmpty, NotifyKeeps, Zenon DEF Structure
  <1>3. CASE FinishEntry(k) \/ FinishRoot(k)
    <2>1. act' = [act EXCEPT ![k] = Idle] /\ live' = live
      BY <1>3, Zenon DEF FinishEntry, FinishRoot
    <2>2. Home[act[k].fin] = k
      BY <1>3, Zenon DEF FinishEntry, FinishRoot, Notified, Structure, ActOK, WellFormed
    <2>3. rev' = [rev EXCEPT ![act[k].fin] = NoEntry]
      BY <1>3, Zenon DEF FinishEntry, FinishRoot
    <2>4. \A c \in Cap : Home[c] # k => (HasEntry(c) => rev'[c] # NoEntry)
      BY <2>2, <2>3 DEF HasEntry, TypeOK
    <2>5. Idle.stack = << >>
      BY DEF Idle
    <2> QED
      BY <2>1, <2>4, <2>5, IdleOK, FramesEmpty, Zenon
  <1> QED BY <1>1, <1>2, <1>3

\* ActOK and FramesOK: a thread continues after wait_for.
LEMMA ShapeResume ==
    ASSUME TypeOK, Structure, NEW v \in Vpe, Resume(v)
    PROVE  ActOK' /\ FramesOK'
  <1> DEFINE k == VpeKernel[v]
  <1>0. k \in Kernel /\ CanRun(k) /\ act[k].stack = << >>
    BY ConstantsAssumption, Zenon DEF Resume, ResumeRoot, ObtainResume, RevokeAll,
       CanRun, Structure, ActOK, WellFormed
  <1>1. CASE ResumeRoot(v)
    <2>1. cur[v] \in Cap /\ Owner[cur[v]] = v
      BY <1>1 DEF ResumeRoot, Structure, WorkOK, Work, Revoking
    <2>2. StartNotify(k, v, cur[v]) /\ live' = live /\ rev' = rev /\ Home[cur[v]] = k
      BY <1>1, <2>1 DEF ResumeRoot, Home
    <2> DEFINE a == [Idle EXCEPT !.mode = "notify", !.thr = v, !.fin = cur[v],
                      !.pend = {<<cur[v], s>> : s \in rev[cur[v]].subs}]
    <2>3. act' = [act EXCEPT ![k] = a] /\ a.stack = << >>
      BY <2>2 DEF StartNotify, Idle
    <2> HIDE DEF a
    <2> QED
      BY <1>0, <2>1, <2>2, <2>3, StartNotifyOK, FramesEmpty, Zenon DEF HasEntry
  <1>2. CASE ObtainResume(v)
    <2>1. cur[v] \in Cap /\ Owner[cur[v]] = v
      BY <1>2, ObtainGoesOn
    <2>2. live' \subseteq live \cup {cur[v]} /\ UNCHANGED act /\ UNCHANGED rev
      BY <1>2, ObtainGoesOn DEF ObtainResume
    <2>3. \A c \in Cap : Home[c] # k => (c \in live' => c \in live)
      BY <2>1, <2>2 DEF Home
    <2>4. FramesOK'
      BY <1>0, <2>2, <2>3, FramesStep DEF HasEntry
    <2> QED
      BY <2>2, <2>4 DEF Structure, ActOK
  <1>3. CASE RevokeAll(v) /\ Caps(v) \cap live = {}
    BY <1>3, ShapeUnchanged DEF RevokeAll
  <1>4. CASE RevokeAll(v) /\ Caps(v) \cap live # {}
    <2>1. PICK c \in Caps(v) \cap live : StartRec(k, v, c, c, None)
      BY <1>4 DEF RevokeAll
    <2>2. c \in Cap /\ Home[c] = k /\ UNCHANGED rev
      BY <1>4 DEF Caps, Home, RevokeAll
    <2> QED
      BY <1>0, <2>1, <2>2, StartRecOK, FramesStart, ConstantsAssumption
  <1> QED BY <1>1, <1>2, <1>3, <1>4 DEF Resume

\* ActOK and FramesOK: a system call begins.
LEMMA ShapeSyscall ==
    ASSUME TypeOK, Structure, NEW v \in Vpe, Syscall(v)
    PROVE  ActOK' /\ FramesOK'
  <1> DEFINE k == VpeKernel[v]
  <1>0. k \in Kernel
    BY ConstantsAssumption
  <1>1. ASSUME NEW c \in Cap, RevokeSyscall(v, c)
        PROVE  ActOK' /\ FramesOK'
    <2>1. StartRec(k, v, c, c, None) /\ Home[c] = k /\ UNCHANGED rev
      BY <1>1 DEF RevokeSyscall, Home
    <2> QED
      BY <1>0, <2>1, StartRecOK, FramesStart, ConstantsAssumption
  <1>2. ASSUME NEW c \in Cap, RevokeUnused(v, c)
        PROVE  ActOK' /\ FramesOK'
    BY <1>2, ShapeUnchanged DEF RevokeUnused
  <1>3. CASE Exit(v)
    BY <1>3, ShapeUnchanged DEF Exit
  <1>4. ASSUME NEW c \in Cap, NEW p \in Cap, ObtainLocal(v, c, p)
        PROVE  ActOK' /\ FramesOK'
    <2>1. /\ live' = live \cup {c} /\ Home[c] = k /\ UNCHANGED act /\ UNCHANGED rev
          /\ act[k].stack = << >>
      BY <1>0, <1>4, Zenon DEF ObtainLocal, MayObtain, CanRun, Home, Structure, ActOK, WellFormed
    <2>2. FramesOK'
      BY <1>0, <2>1, FramesStep DEF HasEntry
    <2> QED
      BY <2>1, <2>2 DEF Structure, ActOK
  <1>5. ASSUME NEW c \in Cap, NEW p \in Cap, ObtainRemote(v, c, p)
        PROVE  ActOK' /\ FramesOK'
    BY <1>5, ShapeUnchanged DEF ObtainRemote
  <1> QED BY <1>1, <1>2, <1>3, <1>4, <1>5 DEF Syscall

(***************************************************************************)
(* The entries of the revocation lists.                                    *)
(***************************************************************************)
\* A step of kernel k changes entries of its own capabilities only.
LEMMA EntryStep ==
    ASSUME TypeOK, Structure, NEW k \in Kernel,
           \A j \in Kernel : j # k => act'[j] = act[j],
           \A c \in Cap : Home[c] # k => rev'[c].parent = rev[c].parent,
           \A c \in Cap : rev'[c] # NoEntry /\ rev'[c].parent = None
                            => rev'[c].origin = c /\ rev'[c].tid # None,
           act'[k].mode = "notify" /\ act'[k].thr = None
                            => rev'[act'[k].fin].parent \in Cap
    PROVE  EntryOK'
  <1> SUFFICES ASSUME NEW j \in Kernel, j # k, act[j].mode = "notify", act[j].thr = None
               PROVE  rev'[act[j].fin].parent \in Cap
    BY DEF EntryOK, HasEntry
  <1>1. act[j].fin \in Cap /\ Home[act[j].fin] = j
    BY DEF Structure, ActOK, WellFormed
  <1> QED
    BY <1>1 DEF Structure, EntryOK

\* The entry that revoke_rec adds for a frame of its stack.
LEMMA AwaitOK ==
    ASSUME TypeOK, Structure, NEW k \in Kernel, InRec(k),
           NEW i \in 1..Len(act[k].stack), NEW f, f = act[k].stack[i],
           NEW n \in Int
    PROVE  Await(k, f, n).parent = None
              => Await(k, f, n).origin = f.cap /\ Await(k, f, n).tid # None
  <1>1. /\ f \in Frame /\ f.cap \in Cap
        /\ f.parent = None => i = 1 /\ act[k].thr # None
        /\ f.ongoing => HasEntry(f.cap) /\ rev[f.cap] \in Entry
    BY OldFrames, Zenon
  <1>2. act[k].thr # None => act[k].stack[1].cap = act[k].origin
    BY DEF InRec, Structure, ActOK, WellFormed
  <1>3. CASE f.ongoing
    <2>1. /\ Await(k, f, n).parent = rev[f.cap].parent
          /\ Await(k, f, n).origin = rev[f.cap].origin
          /\ Await(k, f, n).tid = rev[f.cap].tid
      BY <1>1, <1>3, Zenon DEF Await, Entry
    <2> QED
      BY <1>1, <1>3, <2>1, Zenon DEF Structure, EntryOK
  <1>4. CASE ~f.ongoing
    <2>1. /\ Await(k, f, n).parent = f.parent
          /\ Await(k, f, n).origin = act[k].origin
          /\ Await(k, f, n).tid = IF act[k].origin = f.cap THEN act[k].thr ELSE None
      BY <1>4 DEF Await, NewEntry
    <2> QED
      BY <1>1, <1>2, <2>1, Zenon
  <1> QED BY <1>3, <1>4, Zenon

\* EntryOK: revoke_rec adds entries for its frames.
LEMMA EntryRec ==
    ASSUME TypeOK, Structure, NEW k \in Kernel,
           (\E d \in Cap : RevokeRemoteChild(k, d)) \/ ReturnToParent(k)
    PROVE  EntryOK'
  <1> DEFINE s == act[k].stack
             n == Len(s)
             f == Top(k)
  <1>0. InRec(k)
    BY Zenon DEF RevokeRemoteChild, ReturnToParent, Returned
  <1>1. /\ n \in Nat /\ n > 0 /\ n \in 1..n /\ f = s[n] /\ f \in Frame
        /\ f.cap \in Cap /\ Home[f.cap] = k
        /\ f.ongoing => rev[f.cap] \in Entry
    BY <1>0, RecLemma DEF Top
  <1>2. act[k].mode = "rec"
    BY <1>0 DEF InRec
  <1>3. ASSUME NEW d \in Cap, RevokeRemoteChild(k, d)
        PROVE  EntryOK'
    <2>1. CASE CanAwait(f)
      <3>1. /\ rev' = [rev EXCEPT ![f.cap] = Await(k, f, 1)]
            /\ \A j \in Kernel : j # k => act'[j] = act[j]
            /\ act'[k].mode = "rec"
        <4>1. /\ rev' = [rev EXCEPT ![f.cap] = Await(k, f, 1)]
              /\ act' = [act EXCEPT ![k].stack = WithTop(k,
                           [f EXCEPT !.kids = @ \ {d}, !.ongoing = TRUE])]
          BY <1>3, <2>1, Zenon DEF RevokeRemoteChild
        <4>2. act \in [Kernel -> Activity]
          BY DEF TypeOK
        <4> HIDE DEF f
        <4> QED BY <1>2, <4>1, <4>2 DEF Activity
      <3>2. Await(k, f, 1).parent = None
              => Await(k, f, 1).origin = f.cap /\ Await(k, f, 1).tid # None
        <4>1. n \in 1..Len(act[k].stack) /\ f = act[k].stack[n] /\ 1 \in Int
          BY <1>1
        <4> HIDE DEF f, n, s
        <4> QED BY <1>0, <4>1, AwaitOK, Zenon
      <3>3. \A c \in Cap : c # f.cap => rev'[c] = rev[c]
        BY <3>1 DEF TypeOK
      <3>4. rev'[f.cap] = Await(k, f, 1)
        BY <1>1, <3>1, Zenon DEF TypeOK
      <3> HIDE DEF f
      <3>5. \A c \in Cap : rev'[c] # NoEntry /\ rev'[c].parent = None
                            => rev'[c].origin = c /\ rev'[c].tid # None
        BY <3>2, <3>3, <3>4 DEF Structure, EntryOK, HasEntry
      <3>6. \A c \in Cap : Home[c] # k => rev'[c].parent = rev[c].parent
        BY <1>1, <3>3, Zenon
      <3> QED
        BY <3>1, <3>5, <3>6, EntryStep
    <2>2. CASE ~CanAwait(f)
      BY <1>3, <2>2 DEF RevokeRemoteChild, Structure, EntryOK, HasEntry
    <2> QED BY <2>1, <2>2
  <1>4. CASE ReturnToParent(k)
    <2> DEFINE g == Below(k)[Len(Below(k))]
               A == Await(k, g, Awaits(f))
               r1 == [rev EXCEPT ![g.cap] = A]
    <2>1. n > 1 /\ g = s[n - 1] /\ n - 1 \in 1..n
      <3>1. n > 1
        BY <1>4, Zenon DEF ReturnToParent
      <3>2. Len(Below(k)) = n - 1 /\ \A i \in 1..(n - 1) : Below(k)[i] = s[i]
        BY <1>0, RecLemma
      <3> HIDE DEF n, s
      <3> QED BY <1>1, <3>1, <3>2
    <2>2. g \in Frame /\ g.cap \in Cap /\ Home[g.cap] = k
          /\ (g.ongoing => rev[g.cap] \in Entry)
      BY <1>0, <2>1, OldFrames
    <2>3. CASE Awaits(f) = 0
      <3>1. /\ rev' = rev /\ act'[k].mode = "rec"
            /\ \A j \in Kernel : j # k => act'[j] = act[j]
        BY <1>2, <1>4, <2>3 DEF ReturnToParent, TypeOK, Activity
      <3> QED
        BY <3>1, EntryStep, Zenon DEF Structure, EntryOK, HasEntry
    <2>4. CASE Awaits(f) # 0 /\ CanAwait(g)
      <3>1. f.ongoing /\ rev[f.cap] \in Entry /\ Awaits(f) \in Int
        BY <1>1, <2>4, Zenon DEF Awaits, Entry
      <3>2. A \in Entry
        BY <1>0, <2>2, <3>1, AwaitType
      <3>3. A.parent = None => A.origin = g.cap /\ A.tid # None
        BY <1>0, <2>1, <3>1, AwaitOK, Zenon
      <3>4. /\ rev' = [r1 EXCEPT ![f.cap].subs = @ \cup {g.cap}]
            /\ \A j \in Kernel : j # k => act'[j] = act[j]
            /\ act'[k].mode = "rec"
        BY <1>2, <1>4, <2>4 DEF ReturnToParent, TypeOK, Activity
      <3> HIDE DEF A, f, g
      <3>5. /\ r1 \in [Cap -> Entry \cup {NoEntry}] /\ r1[f.cap] \in Entry
            /\ r1[g.cap] = A /\ \A c \in Cap : c # g.cap => r1[c] = rev[c]
        BY <1>1, <2>2, <3>1, <3>2, Zenon DEF TypeOK
      <3> HIDE DEF r1
      <3>6. \A c \in Cap : /\ rev'[c].parent = r1[c].parent /\ rev'[c].tid = r1[c].tid
                           /\ rev'[c].origin = r1[c].origin
                           /\ c # f.cap => rev'[c] = r1[c]
        BY <1>1, <3>4, <3>5, Zenon DEF Entry
      <3>7. \A c \in Cap : rev'[c] # NoEntry /\ rev'[c].parent = None
                            => rev'[c].origin = c /\ rev'[c].tid # None
        <4>1. \A c \in Cap : rev'[c] # NoEntry /\ c # g.cap => rev[c] # NoEntry
          <5>1. \A e \in Entry : e # NoEntry
            BY DEF Entry, NoEntry
          <5> QED BY <3>1, <3>5, <3>6, <5>1
        <4> QED BY <3>3, <3>5, <3>6, <4>1 DEF Structure, EntryOK, HasEntry
      <3>8. \A c \in Cap : Home[c] # k => rev'[c].parent = rev[c].parent
        BY <2>2, <3>5, <3>6
      <3> QED
        BY <3>4, <3>7, <3>8, EntryStep, Zenon
    <2>5. CASE Awaits(f) # 0 /\ ~CanAwait(g)
      BY <1>4, <2>5, Zenon DEF ReturnToParent, Structure, EntryOK, HasEntry
    <2> QED BY <2>3, <2>4, <2>5
  <1> QED BY <1>3, <1>4

\* Kernel k ends up in a thread that does not await the answer of a remote
\* parent, and no entry changes.
LEMMA EntryKept ==
    ASSUME TypeOK, Structure, NEW k \in Kernel,
           \A j \in Kernel : j # k => act'[j] = act[j],
           rev' = rev, ~(act'[k].mode = "notify" /\ act'[k].thr = None)
    PROVE  EntryOK'
  BY EntryStep DEF Structure, EntryOK, HasEntry

\* EntryOK: the lists and threads do not change.
LEMMA EntryUnchanged ==
    ASSUME Structure, UNCHANGED act, UNCHANGED rev
    PROVE  EntryOK'
  BY DEF Structure, EntryOK, HasEntry

\* EntryOK: a kernelcall is handled.
LEMMA EntryHandle ==
    ASSUME TypeOK, Structure, NEW m \in msgs, Handle(m)
    PROVE  EntryOK'
  <1>0. m \in Message /\ m.cap \in Cap
    BY DEF TypeOK, Message
  <1>1. CASE HandleRevoke(m) /\ ~NullData(m.cap)
    <2>1. StartRec(Home[m.cap], None, m.cap, m.origin, m.parent) /\ rev' = rev
      BY <1>1 DEF HandleRevoke
    <2>2. Home[m.cap] \in Kernel
      BY <1>0, HomeType
    <2> QED
      BY <2>1, <2>2, EntryKept DEF StartRec, Idle, TypeOK
  <1>2. CASE HandleRevokeFinish(m)
    <2> DEFINE c == m.parent
               k == Home[c]
    <2>1. c \in Cap /\ k \in Kernel
      BY <1>2, HomeType, Zenon DEF HandleRevokeFinish, Structure, MsgOK
    <2>2. CASE ~HasEntry(c)
      BY <1>2, <2>2, EntryUnchanged, Zenon DEF HandleRevokeFinish
    <2>3. CASE HasEntry(c)
      <3>1. rev[c] \in Entry
        BY <2>1, <2>3 DEF TypeOK, HasEntry
      <3>2. rev' = [rev EXCEPT ![c].awaitedResp = rev[c].awaitedResp - 1]
        BY <1>2, <2>3 DEF HandleRevokeFinish
      <3>3. \A d \in Cap : /\ rev'[d].parent = rev[d].parent
                           /\ rev'[d].origin = rev[d].origin /\ rev'[d].tid = rev[d].tid
                           /\ d # c => rev'[d] = rev[d]
        BY <2>1, <3>1, <3>2 DEF TypeOK, Entry
      <3>4. \A d \in Cap : rev'[d] # NoEntry /\ rev'[d].parent = None
                            => rev'[d].origin = d /\ rev'[d].tid # None
        BY <2>3, <3>3 DEF Structure, EntryOK, HasEntry
      <3>5. CASE UNCHANGED act
        <4>1. act'[k].mode = "notify" /\ act'[k].thr = None
                            => rev'[act'[k].fin].parent \in Cap
          BY <2>1, <3>3, <3>5 DEF Structure, EntryOK, ActOK, WellFormed
        <4> QED BY <2>1, <3>3, <3>4, <3>5, <4>1, EntryStep, Zenon
      <3>6. CASE StartNotify(k, None, c) /\ c # rev[c].origin
        <4>1. rev[c].parent \in Cap
          BY <2>1, <2>3, <3>1, <3>6 DEF Structure, EntryOK, Entry
        <4>2. act'[k].fin = c /\ \A j \in Kernel : j # k => act'[j] = act[j]
          BY <2>1, <3>6 DEF StartNotify, TypeOK, Idle
        <4> QED
          BY <2>1, <3>3, <3>4, <4>1, <4>2, EntryStep
      <3> QED
        BY <1>2, <2>3, <3>5, <3>6, Zenon DEF HandleRevokeFinish
    <2> QED BY <2>2, <2>3
  <1>3. CASE ~(HandleRevoke(m) /\ ~NullData(m.cap)) /\ ~HandleRevokeFinish(m)
    <2>1. UNCHANGED act /\ UNCHANGED rev
      BY <1>3, Zenon DEF Handle, HandleRevoke, HandleRemoveChild, HandleExchange,
                  HandleExchangeGone, HandleExchangeReply
    <2> QED BY <2>1, EntryUnchanged
  <1> QED BY <1>1, <1>2, <1>3

\* EntryOK: a step of the running thread.
LEMMA EntryRunThread ==
    ASSUME TypeOK, Structure, NEW k \in Kernel, RunThread(k)
    PROVE  EntryOK'
  <1>1. CASE (\E d \in Cap : RevokeRemoteChild(k, d)) \/ ReturnToParent(k)
    BY <1>1, EntryRec
  <1>2. ASSUME NEW d \in Cap, RevokeLocalChild(k, d) PROVE EntryOK'
    <2>1. /\ rev' = rev /\ act'[k].mode = "rec"
          /\ \A j \in Kernel : j # k => act'[j] = act[j]
      BY <1>2 DEF RevokeLocalChild, InRec, TypeOK, Activity
    <2> QED BY <2>1, EntryKept
  <1>3. CASE ReturnToHandler(k) \/ RootWait(k) \/ RootReturn(k)
    <2>1. act' = [act EXCEPT ![k] = Idle] /\ rev' = rev
      BY <1>3 DEF ReturnToHandler, RootWait, RootReturn
    <2> QED BY <2>1, EntryKept DEF Idle, TypeOK
  <1>4. ASSUME NEW x \in Cap, NEW s \in Cap, NotifySubscriber(k, x, s)
        PROVE  EntryOK'
    <2>1. /\ \A j \in Kernel : j # k => act'[j] = act[j]
          /\ act'[k].fin = act[k].fin /\ act'[k].mode = act[k].mode
          /\ act'[k].thr = act[k].thr
      BY <1>4 DEF NotifySubscriber, TypeOK, Activity
    <2>2. act[k].fin \in Cap
      BY <1>4, Zenon DEF NotifySubscriber, Structure, ActOK, WellFormed
    <2> QED
      BY <1>4, <2>1, <2>2, NotifyKeeps, EntryStep DEF Structure, EntryOK
  <1>5. CASE FinishEntry(k) \/ FinishRoot(k)
    <2>1. /\ act' = [act EXCEPT ![k] = Idle]
          /\ rev' = [rev EXCEPT ![act[k].fin] = NoEntry]
          /\ act[k].mode = "notify"
      BY <1>5, Zenon DEF FinishEntry, FinishRoot, Notified
    <2>2. act[k].fin \in Cap /\ Home[act[k].fin] = k
      BY <2>1 DEF Structure, ActOK, WellFormed
    <2>3. \A c \in Cap : c # act[k].fin => rev'[c] = rev[c]
      BY <2>1 DEF TypeOK
    <2>4. rev'[act[k].fin] = NoEntry
      BY <2>1, <2>2 DEF TypeOK
    <2>5. /\ act'[k].mode = "idle"
          /\ \A j \in Kernel : j # k => act'[j] = act[j]
      BY <2>1 DEF TypeOK, Idle
    <2>6. \A c \in Cap : rev'[c] # NoEntry /\ rev'[c].parent = None
                            => rev'[c].origin = c /\ rev'[c].tid # None
      BY <2>3, <2>4 DEF Structure, EntryOK, HasEntry
    <2> QED
      BY <2>2, <2>3, <2>5, <2>6, EntryStep
  <1> QED BY <1>1, <1>2, <1>3, <1>4, <1>5 DEF RunThread

\* EntryOK: a thread continues or a system call begins.
LEMMA EntryVpe ==
    ASSUME TypeOK, Structure, NEW v \in Vpe, Resume(v) \/ Syscall(v)
    PROVE  EntryOK'
  <1>0. VpeKernel[v] \in Kernel /\ v # None
    BY ConstantsAssumption
  <1>1. CASE ResumeRoot(v)
    BY <1>0, <1>1, EntryKept, Zenon DEF ResumeRoot, StartNotify, Idle, TypeOK
  <1>2. ASSUME NEW c \in Cap, StartRec(VpeKernel[v], v, c, c, None), rev' = rev
        PROVE  EntryOK'
    BY <1>0, <1>2, EntryKept DEF StartRec, Idle, TypeOK
  <1>3. ASSUME NEW c \in Cap, RevokeSyscall(v, c) PROVE EntryOK'
    BY <1>2, <1>3 DEF RevokeSyscall
  <1>4. CASE RevokeAll(v)
    BY <1>2, <1>4, EntryUnchanged DEF RevokeAll, Caps
  <1>5. CASE UNCHANGED act /\ UNCHANGED rev
    BY <1>5, EntryUnchanged
  <1> QED
    BY <1>1, <1>3, <1>4, <1>5 DEF Resume, Syscall, ObtainResume, RevokeUnused,
       Exit, ObtainLocal, ObtainRemote

(***************************************************************************)
(* The kernelcalls in flight.                                              *)
(***************************************************************************)
\* A step that sends at most the message n.
LEMMA MsgStep ==
    ASSUME Structure, NEW n, msgs' \subseteq msgs \cup {n},
           n.op # "exchangeReply" => n.parent \in Cap,
           n.op = "revoke" => n.origin \in Cap
    PROVE  MsgOK'
  BY DEF Structure, MsgOK

\* MsgOK: no kernelcall is sent.
LEMMA MsgKept ==
    ASSUME Structure, msgs' \subseteq msgs
    PROVE  MsgOK'
  BY DEF Structure, MsgOK

\* MsgOK: the answers of the kernelcall handlers.
LEMMA MsgHandle ==
    ASSUME TypeOK, Structure, NEW m \in msgs, Handle(m)
    PROVE  MsgOK'
  <1>1. CASE HandleExchange(m) \/ HandleExchangeGone(m)
    <2>1. \A c, p : ExchangeReply(c, p).op = "exchangeReply"
      BY DEF ExchangeReply
    <2>2. \E c, p : msgs' \subseteq msgs \cup {ExchangeReply(c, p)}
      BY <1>1 DEF HandleExchange, HandleExchangeGone
    <2> QED BY <2>1, <2>2, MsgStep
  <1>2. CASE ~(HandleExchange(m) \/ HandleExchangeGone(m))
    <2>1. msgs' \subseteq msgs
      BY <1>2, Zenon DEF Handle, HandleRevoke, HandleRevokeFinish, HandleRemoveChild,
                  HandleExchangeReply
    <2> QED BY <2>1, MsgKept
  <1> QED BY <1>1, <1>2

\* The only message that the root sends is to a parent.
LEMMA MsgTellParent ==
    ASSUME Structure, NEW k, NEW v, NEW c, NEW p \in Cap \cup {None},
           TellParent(k, v, c, p)
    PROVE  MsgOK'
  <1>1. CASE p # None /\ Home[p] # k
    <2>1. msgs' = msgs \cup {RemoveChild(c, p)}
      BY <1>1 DEF TellParent
    <2>2. /\ RemoveChild(c, p).parent = p /\ p \in Cap
          /\ RemoveChild(c, p).op = "removeChildCapPtr"
      BY <1>1 DEF RemoveChild
    <2> QED BY <2>1, <2>2, MsgStep
  <1>2. CASE ~(p # None /\ Home[p] # k)
    BY <1>2, MsgKept DEF TellParent
  <1> QED BY <1>1, <1>2

\* MsgOK: the kernelcalls that revoke_rec and notifySubscribers send.
LEMMA MsgRunThread ==
    ASSUME TypeOK, Structure, NEW k \in Kernel, RunThread(k)
    PROVE  MsgOK'
  <1>0. \A c, p : /\ RevokeFinish(c, p).op = "revokeFinish"
                  /\ RevokeFinish(c, p).parent = p
    BY DEF RevokeFinish
  <1>1. ASSUME NEW d \in Cap, RevokeRemoteChild(k, d) PROVE MsgOK'
    <2> DEFINE n == Revoke(d, Top(k).cap, act[k].origin)
    <2>1. Top(k).cap \in Cap /\ act[k].origin \in Cap
      BY <1>1, RecLemma DEF RevokeRemoteChild
    <2>2. n.parent \in Cap /\ n.origin \in Cap
      BY <2>1 DEF Revoke
    <2>3. msgs' \subseteq msgs \cup {n}
      BY <1>1 DEF RevokeRemoteChild
    <2> HIDE DEF n
    <2> QED BY <2>2, <2>3, MsgStep
  <1>2. CASE ReturnToHandler(k)
    <2>1. act[k].req \in Cap
      BY <1>2, Zenon DEF ReturnToHandler, Returned, InRec, Structure, ActOK, WellFormed
    <2>2. msgs' \subseteq msgs \cup {RevokeFinish(Top(k).cap, act[k].req)}
      BY <1>2 DEF ReturnToHandler
    <2> QED BY <1>0, <2>1, <2>2, MsgStep
  <1>3. CASE RootReturn(k)
    <2>1. Top(k).parent \in Cap \cup {None}
      BY <1>3, RecLemma DEF RootReturn, Returned, Frame
    <2> QED BY <1>3, <2>1, MsgTellParent DEF RootReturn
  <1>4. ASSUME NEW x \in Cap, NEW s \in Cap, NotifySubscriber(k, x, s)
        PROVE  MsgOK'
    <2>1. CASE HasEntry(s) /\ rev[s].tid = None
      <3>1. rev[s].parent \in Cap
        BY <2>1 DEF TypeOK, Structure, EntryOK, HasEntry, Entry
      <3>2. msgs' \subseteq msgs \cup {RevokeFinish(s, rev[s].parent)}
        BY <1>4 DEF NotifySubscriber
      <3> QED BY <1>0, <3>1, <3>2, MsgStep
    <2>2. CASE ~(HasEntry(s) /\ rev[s].tid = None)
      <3>1. msgs' = msgs
        BY <1>4, <2>2 DEF NotifySubscriber
      <3> QED BY <3>1, MsgKept
    <2> QED BY <2>1, <2>2
  <1>5. CASE FinishEntry(k)
    <2>1. rev[act[k].fin].parent \in Cap
      BY <1>5 DEF FinishEntry, Notified, Structure, EntryOK
    <2>2. msgs' \subseteq msgs \cup {RevokeFinish(act[k].fin, rev[act[k].fin].parent)}
      BY <1>5 DEF FinishEntry
    <2> QED BY <1>0, <2>1, <2>2, MsgStep
  <1>6. CASE FinishRoot(k)
    <2>1. act[k].fin \in Cap
      BY <1>6, Zenon DEF FinishRoot, Notified, Structure, ActOK, WellFormed
    <2>2. rev[act[k].fin] \in Entry \cup {NoEntry}
      BY <2>1 DEF TypeOK
    <2>3. (\A e \in Entry : e.parent \in Cap \cup {None}) /\ NoEntry.parent = None
      BY DEF Entry, NoEntry
    <2>4. rev[act[k].fin].parent \in Cap \cup {None}
      BY <2>2, <2>3, Zenon
    <2> QED BY <1>6, <2>4, MsgTellParent DEF FinishRoot
  <1>7. CASE UNCHANGED msgs
    BY <1>7, MsgKept
  <1> QED
    BY <1>1, <1>2, <1>3, <1>4, <1>5, <1>6, <1>7, Zenon DEF RunThread, RevokeLocalChild,
       ReturnToParent, RootWait

\* MsgOK: the kernelcall of an obtain from another kernel.
LEMMA MsgVpe ==
    ASSUME TypeOK, Structure, NEW v \in Vpe, Resume(v) \/ Syscall(v)
    PROVE  MsgOK'
  <1>1. ASSUME NEW c \in Cap, NEW p \in Cap, ObtainRemote(v, c, p) PROVE MsgOK'
    <2>1. Exchange(c, p).parent = p /\ Exchange(c, p).op = "exchange"
      BY DEF Exchange
    <2>2. msgs' = msgs \cup {Exchange(c, p)}
      BY <1>1 DEF ObtainRemote
    <2> QED BY <2>1, <2>2, MsgStep
  <1>2. CASE UNCHANGED msgs
    BY <1>2, MsgKept
  <1> QED
    BY <1>1, <1>2, ObtainGoesOn, Zenon DEF Resume, ResumeRoot, RevokeAll, Syscall,
       RevokeSyscall, RevokeUnused, Exit, ObtainLocal

=============================================================================
