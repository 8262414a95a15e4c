------------------------- MODULE Revocation_threads -------------------------
(***************************************************************************)
(* The conjuncts of Structure about the threads of the VPEs, their obtains *)
(* and the capabilities without a parent are preserved; with the earlier   *)
(* modules: the types and Structure are invariants.                        *)
(***************************************************************************)
EXTENDS Revocation_shape

(***************************************************************************)
(* The threads of the VPEs.                                                *)
(***************************************************************************)
\* WorkOK: a step that adds no capability and starts no system call.
LEMMA WorkStep ==
    ASSUME TypeOK, Structure, live' \subseteq live,
           \A w \in Vpe : /\ pc'[w] \in Work => pc[w] \in Work /\ cur'[w] = cur[w]
                          /\ pc'[w] = "gone" => pc[w] = "gone"
    PROVE  WorkOK'
  BY DEF Structure, WorkOK

\* What the running thread of kernel j relies on is not changed by a step of
\* another kernel.
LEMMA RunStep ==
    ASSUME TypeOK, Structure, NEW k \in Kernel,
           \A j \in Kernel : j # k => act'[j] = act[j],
           \A w \in Vpe : VpeKernel[w] # k =>
               /\ cur'[w] = cur[w]
               /\ pc'[w] = pc[w] \/ pc[w] \in {"wait", "waitAll"},
           Runs(act[k], k)'
    PROVE  RunOK'
  <1> SUFFICES ASSUME NEW j \in Kernel, j # k, act[j].thr # None
               PROVE  Runs(act[j], j)'
    BY DEF RunOK, Runs
  <1>1. Runs(act[j], j) /\ act[j].thr \in Vpe
    BY DEF Structure, RunOK, TypeOK, Activity
  <1>2. VpeKernel[act[j].thr] = j
    BY <1>1 DEF Runs
  <1> QED
    BY <1>1, <1>2 DEF Runs

\* WorkOK and RunOK: tables and threads do not change.
LEMMA ThreadUnchanged ==
    ASSUME TypeOK, Structure, live' \subseteq live, UNCHANGED act,
           UNCHANGED pc, UNCHANGED cur
    PROVE  WorkOK' /\ RunOK'
  BY WorkStep DEF Structure, RunOK, Runs

\* WorkOK and RunOK: a kernelcall is handled.
LEMMA ThreadHandle ==
    ASSUME TypeOK, Structure, NEW m \in msgs, Handle(m)
    PROVE  WorkOK' /\ RunOK'
  <1>0. m \in Message /\ m.cap \in Cap
    BY DEF TypeOK, Message
  <1>1. CASE HandleRevoke(m) /\ ~NullData(m.cap)
    <2>1. Home[m.cap] \in Kernel
      BY <1>0, HomeType
    <2>2. /\ act'[Home[m.cap]].thr = None
          /\ \A j \in Kernel : j # Home[m.cap] => act'[j] = act[j]
          /\ UNCHANGED pc /\ UNCHANGED cur /\ live' \subseteq live
      <3>1. StartRec(Home[m.cap], None, m.cap, m.origin, m.parent)
        BY <1>1 DEF HandleRevoke
      <3>2. /\ act'[Home[m.cap]].thr = None /\ live' \subseteq live
            /\ \A j \in Kernel : j # Home[m.cap] => act'[j] = act[j]
        BY <2>1, <3>1 DEF StartRec, Unset, Idle, TypeOK
      <3> QED BY <1>1, <3>2 DEF HandleRevoke
    <2> QED
      BY <2>1, <2>2, WorkStep, RunStep DEF Runs
  <1>2. CASE HandleRevokeFinish(m)
    <2> DEFINE c == m.parent
               k == Home[c]
    <2>1. c \in Cap /\ k \in Kernel
      BY <1>2, HomeType DEF HandleRevokeFinish, Structure, MsgOK
    <2>2. cur' = cur /\ live' = live
      BY <1>2 DEF HandleRevokeFinish
    <2>3. rev[c].tid \in Vpe \cup {None}
      BY <2>1 DEF TypeOK, Entry, NoEntry
    <2>4. pc' = pc \/ pc' = [pc EXCEPT ![rev[c].tid] = Woken(rev[c].tid)]
      BY <1>2, Zenon DEF HandleRevokeFinish
    <2>5. \A w \in Vpe : /\ pc'[w] = pc[w] \/ pc[w] \in {"wait", "waitAll"}
                         /\ pc'[w] \in Work => pc[w] \in Work
                         /\ pc'[w] = "gone" => pc[w] = "gone"
      BY <2>3, <2>4, WokenEffect
    <2>6. WorkOK'
      BY <2>2, <2>5, WorkStep
    <2>7. CASE UNCHANGED act
      <3>1. CanRun(k) /\ act[k].thr = None
        BY <1>2, <2>1, Zenon DEF HandleRevokeFinish, CanRun, Structure, ActOK, WellFormed
      <3>2. Runs(act[k], k)'
        BY <2>7, <3>1 DEF Runs
      <3> QED BY <2>1, <2>2, <2>5, <2>6, <2>7, <3>2, RunStep
    <2>8. CASE StartNotify(k, None, c)
      <3>1. act'[k].thr = None /\ \A j \in Kernel : j # k => act'[j] = act[j]
        BY <2>1, <2>8 DEF StartNotify, Idle, TypeOK
      <3>2. Runs(act[k], k)'
        BY <3>1 DEF Runs
      <3> QED BY <2>1, <2>2, <2>5, <2>6, <3>1, <3>2, RunStep
    <2> QED
      BY <1>2, <2>7, <2>8, Zenon DEF HandleRevokeFinish
  <1>3. CASE HandleExchangeReply(m)
    <2> DEFINE v == Owner[m.cap]
               k == Home[m.cap]
    <2>1. v \in Vpe /\ k \in Kernel /\ VpeKernel[v] = k
      BY <1>0, HomeType DEF Home
    <2>2. /\ pc[v] = "obtain" /\ pc' = [pc EXCEPT ![v] = "answered"]
          /\ cur' = cur /\ live' = live /\ act' = act /\ act[k].thr = None
      BY <1>3, <2>1, Zenon DEF HandleExchangeReply, CanRun, Structure, ActOK, WellFormed
    <2>3. \A w \in Vpe : pc'[w] = IF w = v THEN "answered" ELSE pc[w]
      BY <2>2 DEF TypeOK
    <2>4. WorkOK'
      BY <2>2, <2>3, WorkStep DEF Work
    <2>5. Runs(act[k], k)'
      BY <2>2 DEF Runs
    <2> QED
      BY <2>1, <2>2, <2>3, <2>4, <2>5, RunStep
  <1>4. CASE UNCHANGED act /\ UNCHANGED pc /\ UNCHANGED cur /\ UNCHANGED live
    BY <1>4, ThreadUnchanged
  <1> QED
    BY <1>1, <1>2, <1>3, <1>4, Zenon DEF Handle, HandleRevoke, HandleRemoveChild,
       HandleExchange, HandleExchangeGone

\* The frame at the bottom of the stack stays in revoke_rec.
LEMMA ThreadRec ==
    ASSUME TypeOK, Structure, NEW k \in Kernel, InRec(k), NEW X, Frames(X, k),
           act' = [act EXCEPT ![k].stack = X],
           live' \subseteq live, UNCHANGED pc, UNCHANGED cur
    PROVE  WorkOK' /\ RunOK'
  <1>1. /\ act'[k].stack = X /\ act'[k].thr = act[k].thr /\ act'[k].mode = "rec"
        /\ \A j \in Kernel : j # k => act'[j] = act[j]
    BY DEF TypeOK, Activity, InRec
  <1>2. Runs(act[k], k)'
    BY <1>1 DEF Structure, RunOK, Runs, Frames, InRec
  <1> QED BY <1>1, <1>2, WorkStep, RunStep

\* WorkOK and RunOK: the root's revoke_rec returns or waits.
LEMMA ThreadReturn ==
    ASSUME TypeOK, Structure, NEW k \in Kernel,
           \/ ReturnToHandler(k) \/ RootWait(k) \/ RootReturn(k)
           \/ FinishEntry(k) \/ FinishRoot(k)
    PROVE  WorkOK' /\ RunOK'
  <1>0. /\ act' = [act EXCEPT ![k] = Idle] /\ live' = live /\ cur' = cur
        /\ act[k].thr \in Vpe \cup {None}
    BY Zenon DEF ReturnToHandler, RootWait, RootReturn, FinishEntry, FinishRoot, TypeOK, Activity
  <1>1. \A j \in Kernel : j # k => act'[j] = act[j]
    BY <1>0 DEF TypeOK
  <1>2. Runs(act[k], k)'
    BY <1>0 DEF TypeOK, Idle, Runs
  <1>3. act[k].thr # None => VpeKernel[act[k].thr] = k
    BY DEF Structure, RunOK, Runs
  <1>4. CASE UNCHANGED pc
    BY <1>0, <1>1, <1>2, <1>4, WorkStep, RunStep
  <1>5. CASE RootWait(k)
    <2>1. act[k].thr \in Vpe /\ pc[act[k].thr] \in {"revoke", "revokeAll"}
      BY <1>0, <1>5, Zenon DEF RootWait, Returned, InRec, Structure, RunOK, Runs
    <2>2. \A w \in Vpe : w # act[k].thr => pc'[w] = pc[w]
      BY <1>5 DEF RootWait, TypeOK
    <2>3. pc'[act[k].thr] \in {"wait", "waitAll"}
      BY <1>5, <2>1 DEF RootWait, TypeOK
    <2>4. WorkOK'
      BY <1>0, <2>1, <2>2, <2>3, WorkStep DEF Work, Revoking
    <2>5. \A w \in Vpe : VpeKernel[w] # k => pc'[w] = pc[w]
      BY <1>3, <1>5, <2>2 DEF RootWait
    <2> QED
      BY <1>0, <1>1, <1>2, <2>4, <2>5, RunStep
  <1>6. CASE RootReturn(k) \/ FinishRoot(k)
    <2>1. act[k].thr \in Vpe
      BY <1>0, <1>6 DEF RootReturn, FinishRoot
    <2>2. pc[act[k].thr] \in {"revoke", "revokeAll", "ready", "readyAll"}
      BY <1>6, Zenon DEF RootReturn, FinishRoot, Returned, InRec, Notified, Structure, RunOK, Runs
    <2>3. \E c, p : TellParent(k, act[k].thr, c, p)
      BY <1>6 DEF RootReturn, FinishRoot
    <2>4. \A w \in Vpe : /\ w # act[k].thr => pc'[w] = pc[w]
                         /\ pc'[w] \in Work => pc[w] \in Work
                         /\ pc'[w] = "gone" => pc[w] = "gone"
      BY <2>1, <2>2, <2>3, ReturnEffect
    <2>5. \A w \in Vpe : VpeKernel[w] # k => pc'[w] = pc[w]
      BY <1>3, <1>6, <2>4, Zenon DEF RootReturn, FinishRoot
    <2> QED
      BY <1>0, <1>1, <1>2, <2>4, <2>5, WorkStep, RunStep
  <1> QED
    BY <1>4, <1>5, <1>6 DEF ReturnToHandler, FinishEntry

\* WorkOK and RunOK: a step of the running thread.
LEMMA ThreadRunThread ==
    ASSUME TypeOK, Structure, NEW k \in Kernel, RunThread(k)
    PROVE  WorkOK' /\ RunOK'
  <1>1. ASSUME NEW d \in Cap, RevokeRemoteChild(k, d) PROVE WorkOK' /\ RunOK'
    <2> DEFINE X == WithTop(k, [Top(k) EXCEPT !.kids = @ \ {d}, !.ongoing = TRUE])
    <2>1. CASE CanAwait(Top(k))
      <3>1. /\ Frames(X, k) /\ act' = [act EXCEPT ![k].stack = X] /\ InRec(k)
            /\ live' = live /\ pc' = pc /\ cur' = cur
        BY <1>1, <2>1, RemoteChildFrames, Zenon DEF RevokeRemoteChild
      <3> HIDE DEF X
      <3> QED BY <3>1, ThreadRec, Zenon
    <2>2. CASE ~CanAwait(Top(k))
      BY <1>1, <2>2, ThreadUnchanged DEF RevokeRemoteChild
    <2> QED BY <2>1, <2>2
  <1>2. ASSUME NEW d \in Cap, RevokeLocalChild(k, d) PROVE WorkOK' /\ RunOK'
    <2> DEFINE X == Append(WithTop(k, [Top(k) EXCEPT !.kids = @ \ {d}]), FrameOf(d))
    <2>1. CASE ~NullData(d)
      <3>1. /\ Frames(X, k) /\ act' = [act EXCEPT ![k].stack = X] /\ InRec(k)
            /\ live' \subseteq live /\ pc' = pc /\ cur' = cur
        BY <1>2, <2>1, LocalChildFrames, Zenon DEF RevokeLocalChild, Unset
      <3> HIDE DEF X
      <3> QED BY <3>1, ThreadRec, Zenon
    <2>2. CASE NullData(d)
      BY <1>2, <2>2, ThreadUnchanged DEF RevokeLocalChild
    <2> QED BY <2>1, <2>2
  <1>3. CASE ReturnToParent(k)
    <2>1. CASE halted'[k] = "no"
      <3>1. PICK X : Frames(X, k) /\ act' = [act EXCEPT ![k].stack = X]
        BY <1>3, <2>1, ParentFrames
      <3>2. InRec(k) /\ live' = live /\ pc' = pc /\ cur' = cur
        BY <1>3 DEF ReturnToParent, Returned
      <3> QED BY <3>1, <3>2, ThreadRec, Zenon
    <2>2. CASE halted'[k] # "no"
      <3>1. act' = act /\ live' = live /\ pc' = pc /\ cur' = cur
        BY <1>3, <2>2 DEF ReturnToParent, Returned, InRec
      <3> QED BY <3>1, ThreadUnchanged
    <2> QED BY <2>1, <2>2
  <1>4. CASE ReturnToHandler(k) \/ RootWait(k) \/ RootReturn(k) \/ FinishEntry(k)
             \/ FinishRoot(k)
    BY <1>4, ThreadReturn
  <1>5. ASSUME NEW x \in Cap, NEW s \in Cap, NotifySubscriber(k, x, s)
        PROVE  WorkOK' /\ RunOK'
    <2>1. rev[s].tid \in Vpe \cup {None}
      BY DEF TypeOK, Entry, NoEntry
    <2>2. pc' = pc \/ pc' = [pc EXCEPT ![rev[s].tid] = Woken(rev[s].tid)]
      BY <1>5 DEF NotifySubscriber
    <2>3. \A w \in Vpe : /\ pc'[w] = pc[w] \/ pc[w] \in {"wait", "waitAll"}
                         /\ pc'[w] \in Work => pc[w] \in Work
                         /\ pc'[w] = "gone" => pc[w] = "gone"
      BY <2>1, <2>2, WokenEffect
    <2>4. /\ \A j \in Kernel : j # k => act'[j] = act[j]
          /\ act'[k].fin = act[k].fin /\ act'[k].mode = act[k].mode
          /\ act'[k].thr = act[k].thr /\ act[k].mode = "notify"
          /\ cur' = cur /\ live' = live
      BY <1>5 DEF NotifySubscriber, TypeOK, Activity
    <2>5. Runs(act[k], k)'
      <3>1. Runs(act[k], k) /\ act[k].thr \in Vpe \cup {None}
        BY DEF Structure, RunOK, TypeOK, Activity
      <3> QED BY <2>3, <2>4, <3>1 DEF Runs
    <2> QED
      BY <2>3, <2>4, <2>5, WorkStep, RunStep
  <1> QED BY <1>1, <1>2, <1>3, <1>4, <1>5 DEF RunThread

\* WorkOK and RunOK: a thread continues or a system call begins.
LEMMA ThreadVpe ==
    ASSUME TypeOK, Structure, NEW v \in Vpe, Resume(v) \/ Syscall(v)
    PROVE  WorkOK' /\ RunOK'
  <1> DEFINE k == VpeKernel[v]
  <1>0. k \in Kernel /\ act[k].thr = None /\ \A c \in Cap : Owner[c] \in Vpe
    BY ConstantsAssumption DEF Resume, ResumeRoot, ObtainResume, RevokeAll, Syscall,
       RevokeSyscall, RevokeUnused, Exit, ObtainLocal, ObtainRemote, MayObtain,
       CanRun, Structure, ActOK, WellFormed
  <1>1. \A w \in Vpe : VpeKernel[w] # k => pc'[w] = pc[w] /\ cur'[w] = cur[w]
    BY Zenon DEF Resume, ResumeRoot, ObtainResume, RevokeAll, Syscall,
       RevokeSyscall, RevokeUnused, Exit, ObtainLocal, ObtainRemote, TypeOK
  <1>2. ASSUME act' = act,
               \/ \E c, p \in Cap : ObtainLocal(v, c, p) \/ ObtainRemote(v, c, p)
               \/ ObtainResume(v) \/ Exit(v) \/ \E c \in Cap : RevokeUnused(v, c)
               \/ RevokeAll(v) /\ Caps(v) \cap live = {}
        PROVE  WorkOK' /\ RunOK'
    <2>1. RunOK'
      <3>1. Runs(act[k], k)'
        BY <1>0, <1>2 DEF Runs
      <3> QED BY <1>0, <1>1, <1>2, <3>1, RunStep
    <2>2. CASE \E c, p \in Cap : ObtainLocal(v, c, p)
      <3>1. PICK c \in Cap : /\ live' = live \cup {c} /\ Owner[c] = v /\ pc[v] = "idle"
                             /\ pc' = pc /\ cur' = cur
        BY <2>2 DEF ObtainLocal, MayObtain
      <3>2. WorkOK'
        BY <3>1 DEF Structure, WorkOK, Work, Revoking
      <3> QED BY <2>1, <3>2
    <2>3. CASE ObtainResume(v)
      <3>1. cur[v] \in Cap /\ Owner[cur[v]] = v
        BY <2>3, ObtainGoesOn
      <3>2. /\ live' \subseteq live \cup {cur[v]} /\ cur' = cur /\ pc'[v] = "idle"
            /\ \A w \in Vpe : w # v => pc'[w] = pc[w]
        BY <2>3, ObtainGoesOn DEF ObtainResume, TypeOK
      <3>3. WorkOK'
        BY <3>1, <3>2 DEF Structure, WorkOK, Work, Revoking
      <3> QED BY <2>1, <3>3
    <2>4. CASE \E c, p \in Cap : ObtainRemote(v, c, p)
      <3>1. PICK c \in Cap : /\ live' = live /\ Owner[c] = v /\ c \notin live
                             /\ cur' = [cur EXCEPT ![v] = c]
                             /\ pc' = [pc EXCEPT ![v] = "obtain"]
        BY <2>4, Zenon DEF ObtainRemote, MayObtain
      <3>2. /\ cur'[v] = c /\ pc'[v] = "obtain"
            /\ \A w \in Vpe : w # v => pc'[w] = pc[w] /\ cur'[w] = cur[w]
        BY <3>1 DEF TypeOK
      <3>3. WorkOK'
        BY <3>1, <3>2 DEF Structure, WorkOK
      <3> QED BY <2>1, <3>3
    <2>5. CASE RevokeAll(v) /\ Caps(v) \cap live = {}
      <3>1. live' = live /\ cur' = cur /\ pc' = [pc EXCEPT ![v] = "gone"]
        BY <2>5 DEF RevokeAll
      <3>2. /\ pc'[v] = "gone" /\ \A c \in live : Owner[c] # v
            /\ \A w \in Vpe : w # v => pc'[w] = pc[w]
        BY <2>5, <3>1 DEF TypeOK, Caps
      <3>3. WorkOK'
        BY <3>1, <3>2 DEF Structure, WorkOK, Work, Revoking
      <3> QED BY <2>1, <3>3
    <2>6. CASE Exit(v) \/ \E c \in Cap : RevokeUnused(v, c)
      <3>1. /\ live' = live /\ cur' = cur
            /\ pc' = pc \/ pc' = [pc EXCEPT ![v] = "exit"]
        BY <2>6 DEF Exit, RevokeUnused
      <3>2. WorkOK'
        BY <3>1, WorkStep DEF TypeOK, Work, Revoking
      <3> QED BY <2>1, <3>2
    <2> QED
      BY <1>2, <2>2, <2>3, <2>4, <2>5, <2>6
  <1>3. ASSUME NEW c \in Cap, Owner[c] = v, StartRec(k, v, c, c, None),
               cur' = [cur EXCEPT ![v] = c],
               pc' = [pc EXCEPT ![v] = "revoke"] \/ pc' = [pc EXCEPT ![v] = "revokeAll"]
        PROVE  WorkOK' /\ RunOK'
    <2>1. /\ cur'[v] = c /\ pc'[v] \in {"revoke", "revokeAll"}
          /\ \A w \in Vpe : w # v => pc'[w] = pc[w] /\ cur'[w] = cur[w]
          /\ live' = live \ {c}
      BY <1>3 DEF TypeOK, StartRec, Unset
    <2>2. WorkOK'
      BY <1>3, <2>1 DEF Structure, WorkOK
    <2>3. /\ act'[k].thr = v /\ act'[k].mode = "rec" /\ act'[k].stack = <<FrameOf(c)>>
          /\ \A j \in Kernel : j # k => act'[j] = act[j]
      BY <1>0, <1>3 DEF StartRec, Idle, TypeOK
    <2>4. act'[k].stack[1].cap = c
      BY <2>3 DEF FrameOf
    <2>5. Runs(act[k], k)'
      BY <2>1, <2>3, <2>4 DEF Runs
    <2> QED BY <1>0, <1>1, <2>2, <2>3, <2>5, RunStep
  <1>4. CASE ResumeRoot(v)
    <2>1. /\ act'[k].thr = v /\ act'[k].mode = "notify" /\ act'[k].fin = cur[v]
          /\ \A j \in Kernel : j # k => act'[j] = act[j]
      BY <1>0, <1>4 DEF ResumeRoot, StartNotify, Idle, TypeOK
    <2>2. pc' = pc /\ cur' = cur /\ live' = live /\ pc[v] \in {"ready", "readyAll"}
      BY <1>4 DEF ResumeRoot
    <2>3. Runs(act[k], k)'
      BY <2>1, <2>2 DEF Runs
    <2> QED BY <1>0, <2>1, <2>2, <2>3, WorkStep, RunStep
  <1>5. ASSUME NEW c \in Cap, RevokeSyscall(v, c) PROVE WorkOK' /\ RunOK'
    BY <1>3, <1>5, Zenon DEF RevokeSyscall
  <1>6. CASE RevokeAll(v)
    BY <1>2, <1>3, <1>6 DEF RevokeAll, Caps
  <1> QED
    BY <1>2, <1>4, <1>5, <1>6, Zenon DEF Resume, Syscall, ObtainResume, RevokeUnused, Exit,
       ObtainLocal, ObtainRemote

(***************************************************************************)
(* Requests of remote obtains.                                             *)
(***************************************************************************)
XOps == {"exchange", "exchangeReply"}

\* ExchangeOK: no exchange is sent and no obtain ends.
LEMMA ExchangeKept ==
    ASSUME TypeOK, Structure,
           \A m \in msgs' : m.op \in XOps => m \in msgs,
           \A w \in Vpe : pc[w] = "obtain" => pc'[w] = "obtain" /\ cur'[w] = cur[w]
    PROVE  ExchangeOK'
  <1>1. \A m \in msgs : Owner[m.cap] \in Vpe
    BY HomeType DEF TypeOK, Message
  <1> QED
    BY <1>1 DEF Structure, ExchangeOK, XOps

\* ExchangeOK: a kernelcall is handled.
LEMMA ExchangeHandle ==
    ASSUME TypeOK, Structure, NEW m \in msgs, Handle(m)
    PROVE  ExchangeOK'
  <1>0. /\ m \in Message /\ m.cap \in Cap /\ Owner[m.cap] \in Vpe
        /\ \A n \in msgs : n.cap \in Cap /\ Owner[n.cap] \in Vpe
    BY HomeType DEF TypeOK, Message
  <1>1. CASE HandleExchange(m) \/ HandleExchangeGone(m)
    <2>1. PICK n : /\ n \in {ExchangeReply(m.cap, p) : p \in Cap \cup {None}}
                   /\ msgs' = (msgs \ {m}) \cup {n}
      BY <1>0, <1>1 DEF HandleExchange, HandleExchangeGone, Message
    <2>2. n.cap = m.cap /\ n.op = "exchangeReply"
      BY <2>1 DEF ExchangeReply
    <2>3. pc' = pc /\ cur' = cur /\ m.op = "exchange"
      BY <1>1 DEF HandleExchange, HandleExchangeGone
    <2> QED
      BY <1>0, <2>1, <2>2, <2>3 DEF Structure, ExchangeOK
  <1>2. CASE HandleExchangeReply(m)
    <2> DEFINE v == Owner[m.cap]
    <2>1. /\ pc' = [pc EXCEPT ![v] = "answered"] /\ cur' = cur
          /\ msgs' = msgs \ {m} /\ m.op = "exchangeReply"
      BY <1>2 DEF HandleExchangeReply
    <2>2. \A n \in msgs' : n.op \in XOps => Owner[n.cap] # v
      BY <2>1 DEF Structure, ExchangeOK, XOps
    <2> QED
      BY <1>0, <2>1, <2>2 DEF Structure, ExchangeOK, XOps, TypeOK
  <1>3. CASE HandleRevokeFinish(m)
    <2>1. m.parent \in Cap
      BY <1>3 DEF HandleRevokeFinish, Structure, MsgOK
    <2>2. rev[m.parent].tid \in Vpe \cup {None}
      BY <2>1 DEF TypeOK, Entry, NoEntry
    <2>3. /\ pc' = pc \/ pc' = [pc EXCEPT ![rev[m.parent].tid] = Woken(rev[m.parent].tid)]
          /\ cur' = cur /\ msgs' \subseteq msgs
      BY <1>3, Zenon DEF HandleRevokeFinish
    <2> QED
      BY <2>2, <2>3, WokenEffect, ExchangeKept
  <1>4. CASE HandleRevoke(m) \/ HandleRemoveChild(m)
    <2>1. msgs' \subseteq msgs /\ pc' = pc /\ cur' = cur
      BY <1>4 DEF HandleRevoke, HandleRemoveChild
    <2> QED BY <2>1, ExchangeKept
  <1> QED BY <1>1, <1>2, <1>3, <1>4 DEF Handle

\* ExchangeOK: a step of the running thread.
LEMMA ExchangeRunThread ==
    ASSUME TypeOK, Structure, NEW k \in Kernel, RunThread(k)
    PROVE  ExchangeOK'
  <1>1. cur' = cur
    BY Zenon DEF RunThread, RevokeRemoteChild, RevokeLocalChild, ReturnToParent,
       ReturnToHandler, RootWait, RootReturn, NotifySubscriber, FinishEntry, FinishRoot
  <1>2. \A m \in msgs' : m.op \in XOps => m \in msgs
    <2>1. \A c, p, o : /\ Revoke(c, p, o).op \notin XOps
                       /\ RevokeFinish(c, p).op \notin XOps
                       /\ RemoveChild(c, p).op \notin XOps
      BY DEF Revoke, RevokeFinish, RemoveChild, XOps
    <2>2. \A v, c, p : TellParent(k, v, c, p) => msgs' \subseteq msgs \cup {RemoveChild(c, p)}
      BY DEF TellParent
    <2>3. \/ \E c, p, o : msgs' \subseteq msgs \cup {Revoke(c, p, o)}
          \/ \E c, p : msgs' \subseteq msgs \cup {RevokeFinish(c, p)}
          \/ \E c, p : msgs' \subseteq msgs \cup {RemoveChild(c, p)}
      BY <2>2, Zenon DEF RunThread, RevokeRemoteChild, RevokeLocalChild, ReturnToParent,
         ReturnToHandler, RootWait, RootReturn, NotifySubscriber, FinishEntry, FinishRoot
    <2> QED BY <2>1, <2>3
  <1>3. \A w \in Vpe : pc[w] = "obtain" => pc'[w] = "obtain"
    <2>1. CASE pc' = pc
      BY <2>1
    <2>2. CASE RootWait(k) \/ RootReturn(k) \/ FinishRoot(k)
      <3>1. /\ act[k].thr \in Vpe
            /\ pc[act[k].thr] \in {"revoke", "revokeAll", "ready", "readyAll"}
        BY <2>2 DEF RootWait, RootReturn, FinishRoot, Returned, InRec, Notified,
           Structure, RunOK, Runs, TypeOK, Activity
      <3>2. \A w \in Vpe : w # act[k].thr => pc'[w] = pc[w]
        BY <2>2, Zenon DEF RootWait, RootReturn, FinishRoot, TellParent, ReturnToVpe, TypeOK
      <3> QED BY <3>1, <3>2
    <2>3. ASSUME NEW x \in Cap, NEW s \in Cap, NotifySubscriber(k, x, s)
          PROVE  \A w \in Vpe : pc[w] = "obtain" => pc'[w] = "obtain"
      <3>1. rev[s].tid \in Vpe \cup {None}
        BY DEF TypeOK, Entry, NoEntry
      <3>2. pc' = pc \/ pc' = [pc EXCEPT ![rev[s].tid] = Woken(rev[s].tid)]
        BY <2>3 DEF NotifySubscriber
      <3> QED BY <3>1, <3>2, WokenEffect
    <2> QED
      BY <2>1, <2>2, <2>3, Zenon DEF RunThread, RevokeRemoteChild, RevokeLocalChild,
         ReturnToParent, ReturnToHandler, FinishEntry
  <1> QED BY <1>1, <1>2, <1>3, ExchangeKept

\* ExchangeOK: a thread continues or a system call begins.
LEMMA ExchangeVpe ==
    ASSUME TypeOK, Structure, NEW v \in Vpe, Resume(v) \/ Syscall(v)
    PROVE  ExchangeOK'
  <1>1. ASSUME NEW c \in Cap, NEW p \in Cap, ObtainRemote(v, c, p) PROVE ExchangeOK'
    <2> DEFINE n == Exchange(c, p)
    <2>1. n.cap = c /\ n.op = "exchange"
      BY DEF Exchange
    <2>2. /\ msgs' = msgs \cup {n} /\ pc[v] = "idle" /\ Owner[c] = v
          /\ pc' = [pc EXCEPT ![v] = "obtain"] /\ cur' = [cur EXCEPT ![v] = c]
      BY <1>1 DEF ObtainRemote, MayObtain
    <2>3. \A m \in msgs : Owner[m.cap] \in Vpe
      BY HomeType DEF TypeOK, Message
    <2>4. /\ pc'[v] = "obtain" /\ cur'[v] = c
          /\ \A w \in Vpe : w # v => pc'[w] = pc[w] /\ cur'[w] = cur[w]
      BY <2>2 DEF TypeOK
    <2>5. \A m \in msgs : m.op \in XOps => Owner[m.cap] # v /\ m.cap # c
      BY <2>2 DEF Structure, ExchangeOK, XOps
    <2> HIDE DEF n
    <2> QED
      BY <2>1, <2>2, <2>3, <2>4, <2>5 DEF Structure, ExchangeOK, XOps
  <1>2. CASE ~\E c, p \in Cap : ObtainRemote(v, c, p)
    <2>1. /\ msgs' = msgs /\ pc[v] # "obtain"
          /\ \A w \in Vpe : w # v => pc'[w] = pc[w] /\ cur'[w] = cur[w]
      BY <1>2, ObtainGoesOn, Zenon DEF Resume, ResumeRoot, ObtainResume, RevokeAll, Syscall,
         RevokeSyscall, RevokeUnused, Exit, ObtainLocal, MayObtain, TypeOK
    <2> QED BY <2>1, ExchangeKept
  <1> QED BY <1>1, <1>2

(***************************************************************************)
(* The capabilities that the running activations of revoke_rec have left   *)
(* to visit.                                                               *)
(***************************************************************************)
InKids(d) == \E k \in Kernel : Pending(act[k], d)

\* What the frames still have to visit, after a step of kernel k.
LEMMA KidsStep ==
    ASSUME TypeOK, NEW k \in Kernel, NEW a, act' = [act EXCEPT ![k] = a], NEW d
    PROVE  /\ InKids(d)' <=> Pending(a, d) \/ \E j \in Kernel : j # k /\ Pending(act[j], d)
           /\ InKids(d) <=> Pending(act[k], d) \/ \E j \in Kernel : j # k /\ Pending(act[j], d)
  <1>1. act'[k] = a /\ \A j \in Kernel : j # k => act'[j] = act[j]
    BY DEF TypeOK
  <1> QED
    BY <1>1 DEF InKids, Pending

\* The frame of the first activation takes over the children.
LEMMA KidsStart ==
    ASSUME TypeOK, Structure, NEW k \in Kernel, NEW v, NEW c \in Cap, NEW o, NEW q,
           CanRun(k), StartRec(k, v, c, o, q), NEW d
    PROVE  InKids(d)' <=> InKids(d) \/ d \in children[c]
  <1> DEFINE a == [Idle EXCEPT !.mode = "rec", !.thr = v,
                     !.origin = o, !.req = q, !.stack = <<FrameOf(c)>>]
  <1>1. act' = [act EXCEPT ![k] = a]
    BY DEF StartRec
  <1>2. a.stack = <<FrameOf(c)>>
    BY DEF Idle
  <1>3. Pending(a, d) <=> d \in children[c]
    BY <1>2 DEF Pending, FrameOf
  <1>4. ~Pending(act[k], d)
    BY DEF CanRun, Structure, ActOK, WellFormed, Pending
  <1> HIDE DEF a
  <1> QED BY <1>1, <1>3, <1>4, KidsStep, Zenon

\* A remote child is no longer to be visited, but requested.
LEMMA KidsRemote ==
    ASSUME TypeOK, Structure, NEW k \in Kernel, NEW d \in Cap,
           RevokeRemoteChild(k, d), NEW e
    PROVE  /\ InKids(d)
           /\ InKids(e)' => InKids(e)
           /\ InKids(e) => InKids(e)' \/ (e = d /\ \E m \in msgs' : m.op = "revoke" /\ m.cap = d)
  <1> DEFINE f == Top(k)
             g == [f EXCEPT !.kids = @ \ {d}, !.ongoing = TRUE]
             n == Len(act[k].stack)
             X == WithTop(k, g)
             a == [act[k] EXCEPT !.stack = X]
  <1>0. InRec(k) /\ d \in f.kids
    BY DEF RevokeRemoteChild
  <1>1. f \in Frame /\ n \in Nat /\ n > 0 /\ f = act[k].stack[n] /\ act[k].stack \in Seq(Frame)
    BY <1>0, RecLemma, Zenon DEF Top
  <1>2. Pending(act[k], d)
    BY <1>0, <1>1 DEF Pending
  <1>3. CASE CanAwait(f)
    <2>1. g \in Frame /\ g.kids = f.kids \ {d}
      BY <1>1, Zenon DEF Frame
    <2>2. X \in Seq(Frame) /\ Len(X) = n /\ X[n] = g /\ \A i \in 1..(n - 1) : X[i] = act[k].stack[i]
      BY <1>0, <2>1, WithTopLemma, Zenon
    <2>3. a.stack = X
      BY DEF TypeOK, Activity
    <2>4. act' = [act EXCEPT ![k] = a] /\ Revoke(d, f.cap, act[k].origin) \in msgs'
      BY <1>3 DEF RevokeRemoteChild
    <2>5. \E m \in msgs' : m.op = "revoke" /\ m.cap = d
      BY <2>4 DEF Revoke
    <2> HIDE DEF X, g, f, n, a
    <2>6. /\ Pending(a, e) => Pending(act[k], e)
          /\ Pending(act[k], e) => Pending(a, e) \/ e = d
      <3>1. DOMAIN act[k].stack = 1..n /\ DOMAIN X = 1..n
        BY <1>1, <2>2 DEF n
      <3> QED BY <1>1, <2>1, <2>2, <2>3, <3>1 DEF Pending
    <2> QED BY <1>2, <2>4, <2>5, <2>6, KidsStep, Zenon
  <1>4. CASE ~CanAwait(f)
    <2>1. act' = act
      BY <1>4 DEF RevokeRemoteChild
    <2> QED BY <1>2, <2>1 DEF InKids, Pending
  <1> QED BY <1>3, <1>4

\* The children of a local child replace it.
LEMMA KidsLocal ==
    ASSUME TypeOK, Structure, NEW k \in Kernel, NEW d \in Cap,
           RevokeLocalChild(k, d), ~NullData(d), NEW e
    PROVE  /\ InKids(d)
           /\ InKids(e)' => InKids(e) \/ e \in children[d]
           /\ InKids(e) => InKids(e)' \/ e = d
           /\ e \in children[d] => InKids(e)'
  <1> DEFINE f == Top(k)
             g == [f EXCEPT !.kids = @ \ {d}]
             n == Len(act[k].stack)
             W == WithTop(k, g)
             h == FrameOf(d)
             X == Append(W, h)
             a == [act[k] EXCEPT !.stack = X]
  <1>0. InRec(k) /\ d \in f.kids
    BY DEF RevokeLocalChild
  <1>1. f \in Frame /\ n \in Nat /\ n > 0 /\ f = act[k].stack[n] /\ act[k].stack \in Seq(Frame)
    BY <1>0, RecLemma, Zenon DEF Top
  <1>2. Pending(act[k], d)
    BY <1>0, <1>1 DEF Pending
  <1>3. g \in Frame /\ g.kids = f.kids \ {d}
    BY <1>1, Zenon DEF Frame
  <1>4. W \in Seq(Frame) /\ Len(W) = n /\ W[n] = g /\ \A i \in 1..(n - 1) : W[i] = act[k].stack[i]
    BY <1>0, <1>3, WithTopLemma, Zenon
  <1>5. h.kids = children[d] /\ h \in Frame
    BY FrameType DEF FrameOf
  <1>6. a.stack = X /\ act' = [act EXCEPT ![k] = a]
    <2>1. act' = [act EXCEPT ![k].stack = X]
      BY Zenon DEF RevokeLocalChild
    <2> HIDE DEF X
    <2> QED BY <2>1 DEF TypeOK, Activity
  <1> HIDE DEF W, g, f, n, h
  <1>7. Len(X) = n + 1 /\ X[n + 1] = h /\ (\A i \in 1..n : X[i] = W[i]) /\ DOMAIN X = 1..(n + 1)
    BY <1>1, <1>4, <1>5
  <1> HIDE DEF X, a
  <1>8. /\ Pending(a, e) => Pending(act[k], e) \/ e \in children[d]
        /\ Pending(act[k], e) => Pending(a, e) \/ e = d
        /\ e \in children[d] => Pending(a, e)
    <2>1. DOMAIN act[k].stack = 1..n
      BY <1>1 DEF n
    <2>2. \A i \in 1..(n - 1) : X[i] = act[k].stack[i]
      BY <1>1, <1>4, <1>7
    <2>3. X[n] = g
      BY <1>1, <1>4, <1>7
    <2> QED BY <1>1, <1>3, <1>5, <1>6, <1>7, <2>1, <2>2, <2>3 DEF Pending
  <1> QED BY <1>2, <1>6, <1>8, KidsStep, Zenon

\* No other step of a kernel changes them.
LEMMA KidsNotify ==
    ASSUME TypeOK, Structure, NEW k \in Kernel, NEW v, NEW c,
           CanRun(k), StartNotify(k, v, c), NEW e
    PROVE  InKids(e)' <=> InKids(e)
  <1> DEFINE a == [Idle EXCEPT !.mode = "notify", !.thr = v, !.fin = c,
                     !.pend = {<<c, s>> : s \in rev[c].subs}]
  <1>1. act' = [act EXCEPT ![k] = a]
    BY DEF StartNotify
  <1>2. a.stack = << >> /\ act[k].stack = << >>
    BY DEF Idle, CanRun, Structure, ActOK, WellFormed
  <1> HIDE DEF a
  <1>3. ~Pending(a, e) /\ ~Pending(act[k], e)
    BY <1>2 DEF Pending
  <1> QED BY <1>1, <1>3, KidsStep, Zenon

\* No other step of a running thread forgets a child.
LEMMA KidsKept ==
    ASSUME TypeOK, Structure, NEW k \in Kernel, NEW e,
           \/ ReturnToParent(k) \/ ReturnToHandler(k) \/ RootWait(k) \/ RootReturn(k)
           \/ FinishEntry(k) \/ FinishRoot(k)
           \/ \E x, s \in Cap : NotifySubscriber(k, x, s)
    PROVE  InKids(e)' <=> InKids(e)
  <1> DEFINE n == Len(act[k].stack)
  <1>1. CASE ReturnToParent(k) /\ halted'[k] # "no"
    <2>1. halted' # halted
      BY <1>1, Zenon DEF ReturnToParent, Returned, InRec
    <2>2. act' = act
      BY <1>1, <2>1, Zenon DEF ReturnToParent
    <2> QED BY <2>2 DEF InKids, Pending
  <1>2. CASE ReturnToParent(k) /\ halted'[k] = "no"
    <2>1. PICK X : /\ Frames(X, k) /\ act' = [act EXCEPT ![k].stack = X]
                   /\ Len(X) = n - 1
                   /\ \A i \in 1..Len(X) : X[i].kids = act[k].stack[i].kids
      BY <1>2, ParentFrames
    <2> DEFINE a == [act[k] EXCEPT !.stack = X]
    <2>2. InRec(k) /\ Top(k).kids = {}
      BY <1>2, Zenon DEF ReturnToParent, Returned
    <2>3. n \in Nat /\ n > 0 /\ act[k].stack[n].kids = {} /\ act[k].stack \in Seq(Frame)
      BY <2>2, RecLemma, Zenon DEF Top
    <2>4. X \in Seq(Frame)
      BY <2>1 DEF Frames
    <2>5. a.stack = X
      BY DEF TypeOK, Activity
    <2>6. act' = [act EXCEPT ![k] = a]
      BY <2>1
    <2>7. DOMAIN act[k].stack = 1..n /\ DOMAIN X = 1..(n - 1)
      BY <2>1, <2>3, <2>4
    <2> HIDE DEF a, n
    <2>8. Pending(a, e) <=> Pending(act[k], e)
      BY <2>1, <2>3, <2>5, <2>7 DEF Pending
    <2> QED BY <2>6, <2>8, KidsStep, Zenon
  <1>3. CASE act' = [act EXCEPT ![k] = Idle] /\ Returned(k) /\ n = 1
    <2>1. act[k].stack \in Seq(Frame) /\ act[k].stack[1].kids = {}
      BY <1>3, RecLemma, Zenon DEF Returned, Top
    <2>2. ~Pending(act[k], e) /\ ~Pending(Idle, e)
      BY <1>3, <2>1 DEF Pending, Idle
    <2> QED BY <1>3, <2>2, KidsStep, Zenon
  <1>4. CASE act' = [act EXCEPT ![k] = Idle] /\ Notified(k)
    <2>1. act[k].stack = << >>
      BY <1>4, Zenon DEF Notified, Structure, ActOK, WellFormed
    <2>2. ~Pending(act[k], e) /\ ~Pending(Idle, e)
      BY <2>1 DEF Pending, Idle
    <2> QED BY <1>4, <2>2, KidsStep, Zenon
  <1>5. ASSUME NEW x \in Cap, NEW s \in Cap, NotifySubscriber(k, x, s)
        PROVE  InKids(e)' <=> InKids(e)
    <2>1. PICK q : act' = [act EXCEPT ![k].pend = q]
      BY <1>5, Zenon DEF NotifySubscriber
    <2> DEFINE a == [act[k] EXCEPT !.pend = q]
    <2>2. act' = [act EXCEPT ![k] = a] /\ a.stack = act[k].stack
      BY <2>1 DEF TypeOK, Activity
    <2> HIDE DEF a
    <2>3. Pending(a, e) <=> Pending(act[k], e)
      BY <2>2 DEF Pending
    <2> QED BY <2>2, <2>3, KidsStep, Zenon
  <1> QED
    BY <1>1, <1>2, <1>3, <1>4, <1>5, Zenon
       DEF ReturnToHandler, RootWait, RootReturn, FinishEntry, FinishRoot

(***************************************************************************)
(* Capabilities without a parent.                                          *)
(***************************************************************************)
InMsgs(d) == \E m \in msgs : m.op = "revoke" /\ m.cap = d

Listed(d) == InMsgs(d) \/ InKids(d) \/ \E p \in Cap : d \in children[p]

\* RootsUnlisted: a step that lists nothing new.
LEMMA RootsStep ==
    ASSUME Structure,
           \A d \in live' : parent'[d] = None =>
               d \in live /\ parent[d] = None /\ (Listed(d)' => Listed(d))
    PROVE  RootsUnlisted'
  BY DEF Structure, RootsUnlisted, Listed, InMsgs, InKids, ToBeRevoked

\* revoke_rec takes the children over and lists nobody new.
LEMMA ListedStart ==
    ASSUME TypeOK, Structure, NEW k \in Kernel, NEW v, NEW c \in Cap, NEW o, NEW q,
           CanRun(k), StartRec(k, v, c, o, q), msgs' \subseteq msgs,
           NEW d, Listed(d)'
    PROVE  Listed(d)
  <1>1. InKids(d)' <=> InKids(d) \/ d \in children[c]
    BY KidsStart
  <1>2. \A p \in Cap : children'[p] \subseteq children[p]
    BY DEF StartRec, Unset, TypeOK
  <1>3. InMsgs(d)' => InMsgs(d)
    BY DEF InMsgs
  <1> QED BY <1>1, <1>2, <1>3 DEF Listed

\* RootsUnlisted: a kernelcall is handled.
LEMMA RootsHandle ==
    ASSUME TypeOK, Structure, NEW m \in msgs, Handle(m)
    PROVE  RootsUnlisted'
  <1>0. m \in Message /\ m.cap \in Cap /\ Owner[m.cap] \in Vpe
    BY HomeType DEF TypeOK, Message
  <1>1. SUFFICES ASSUME NEW d \in live', parent'[d] = None
        PROVE  d \in live /\ parent[d] = None /\ (Listed(d)' => Listed(d))
    BY RootsStep
  <1>2. CASE HandleRevoke(m)
    <2>1. d \in live /\ parent[d] = None /\ msgs' \subseteq msgs /\ Home[m.cap] \in Kernel
      BY <1>0, <1>1, <1>2, HomeType DEF HandleRevoke, StartRec, Unset
    <2>2. CASE NullData(m.cap)
      <3>1. act' = act /\ children' = children
        BY <1>2, <2>2 DEF HandleRevoke
      <3> QED BY <2>1, <3>1 DEF Listed, InMsgs, InKids, Pending
    <2>3. CASE ~NullData(m.cap)
      <3>1. CanRun(Home[m.cap]) /\ StartRec(Home[m.cap], None, m.cap, m.origin, m.parent)
        BY <1>2, <2>3 DEF HandleRevoke
      <3> QED BY <1>0, <2>1, <3>1, ListedStart
    <2> QED BY <2>2, <2>3
  <1>3. CASE HandleRevokeFinish(m)
    <2>1. /\ d \in live /\ parent[d] = None /\ children' = children /\ msgs' \subseteq msgs
          /\ m.parent \in Cap /\ Home[m.parent] \in Kernel
      BY <1>1, <1>3, HomeType, Zenon DEF HandleRevokeFinish, Structure, MsgOK
    <2>2. \/ act' = act
          \/ CanRun(Home[m.parent]) /\ StartNotify(Home[m.parent], None, m.parent)
      BY <1>3, Zenon DEF HandleRevokeFinish
    <2>3. InKids(d)' <=> InKids(d)
      <3>1. CASE act' = act
        BY <3>1 DEF InKids, Pending
      <3> QED BY <2>1, <2>2, <3>1, KidsNotify
    <2> QED BY <2>1, <2>3 DEF Listed, InMsgs
  <1>4. CASE HandleRemoveChild(m)
    <2>1. /\ d \in live /\ parent[d] = None /\ msgs' \subseteq msgs /\ act' = act
          /\ \A p \in Cap : children'[p] \subseteq children[p]
      BY <1>1, <1>4 DEF HandleRemoveChild, TypeOK
    <2> QED BY <2>1 DEF Listed, InMsgs, InKids, Pending
  <1>5. CASE HandleExchange(m) \/ HandleExchangeGone(m)
    <2>1. /\ d \in live /\ parent[d] = None /\ act' = act /\ live' = live
          /\ m.op = "exchange"
      BY <1>1, <1>5 DEF HandleExchange, HandleExchangeGone
    <2>2. m.cap \notin live
      BY <1>0, <2>1 DEF Structure, ExchangeOK, WorkOK, Work
    <2>3. \A p \in Cap : children'[p] \subseteq children[p] \cup {m.cap}
      BY <1>5 DEF HandleExchange, HandleExchangeGone, TypeOK
    <2>4. InMsgs(d)' => InMsgs(d)
      BY <1>5 DEF HandleExchange, HandleExchangeGone, InMsgs, ExchangeReply
    <2> QED BY <2>1, <2>2, <2>3, <2>4 DEF Listed, InKids, Pending
  <1>6. CASE HandleExchangeReply(m)
    <2>1. /\ live' = live /\ act' = act /\ children' = children /\ msgs' \subseteq msgs
          /\ parent' = [parent EXCEPT ![m.cap] = m.parent] /\ m.op = "exchangeReply"
      BY <1>6 DEF HandleExchangeReply
    <2>2. m.cap \notin live
      BY <1>0, <2>1 DEF Structure, ExchangeOK, WorkOK, Work
    <2>3. d # m.cap
      BY <1>1, <2>1, <2>2
    <2>4. d \in live /\ parent[d] = None
      BY <1>1, <2>1, <2>3 DEF TypeOK
    <2> QED BY <2>1, <2>4 DEF Listed, InMsgs, InKids, Pending
  <1> QED BY <1>2, <1>3, <1>4, <1>5, <1>6 DEF Handle

\* RootsUnlisted: a step of the running thread.
LEMMA RootsRunThread ==
    ASSUME TypeOK, Structure, NEW k \in Kernel, RunThread(k)
    PROVE  RootsUnlisted'
  <1>1. SUFFICES ASSUME NEW d \in live', parent'[d] = None
        PROVE  d \in live /\ parent[d] = None /\ (Listed(d)' => Listed(d))
    BY RootsStep
  <1>2. ASSUME NEW e \in Cap, RevokeRemoteChild(k, e)
        PROVE  d \in live /\ parent[d] = None /\ (Listed(d)' => Listed(d))
    <2>1. d \in live /\ parent[d] = None /\ children' = children
      BY <1>1, <1>2 DEF RevokeRemoteChild
    <2>2. InKids(e) /\ (InKids(d)' => InKids(d))
      BY <1>2, KidsRemote
    <2>3. InMsgs(d)' => InMsgs(d) \/ d = e
      BY <1>2 DEF RevokeRemoteChild, InMsgs, Revoke
    <2> QED BY <2>1, <2>2, <2>3 DEF Listed
  <1>3. ASSUME NEW e \in Cap, RevokeLocalChild(k, e)
        PROVE  d \in live /\ parent[d] = None /\ (Listed(d)' => Listed(d))
    <2>1. d \in live /\ parent[d] = None /\ msgs' = msgs
      BY <1>1, <1>3 DEF RevokeLocalChild, Unset
    <2>2. CASE NullData(e)
      <3>1. act' = act /\ children' = children
        BY <1>3, <2>2 DEF RevokeLocalChild
      <3> QED BY <2>1, <3>1 DEF Listed, InMsgs, InKids, Pending
    <2>3. CASE ~NullData(e)
      <3>1. InKids(d)' => InKids(d) \/ d \in children[e]
        BY <1>3, <2>3, KidsLocal
      <3>2. \A p \in Cap : children'[p] \subseteq children[p]
        BY <1>3, <2>3 DEF RevokeLocalChild, Unset, TypeOK
      <3> QED BY <2>1, <3>1, <3>2 DEF Listed, InMsgs
    <2> QED BY <2>2, <2>3
  <1>4. CASE \/ ReturnToParent(k) \/ ReturnToHandler(k) \/ RootWait(k) \/ RootReturn(k)
             \/ FinishEntry(k) \/ FinishRoot(k)
             \/ \E x, s \in Cap : NotifySubscriber(k, x, s)
    <2>1. InKids(d)' <=> InKids(d)
      BY <1>4, KidsKept
    <2>2. d \in live /\ parent[d] = None
      BY <1>1, <1>4, Zenon DEF ReturnToParent, ReturnToHandler, RootWait, RootReturn,
         FinishEntry, FinishRoot, NotifySubscriber
    <2>3. \A c, p : RevokeFinish(c, p).op # "revoke" /\ RemoveChild(c, p).op # "revoke"
      BY DEF RevokeFinish, RemoveChild
    <2>4. \A v, c, p : TellParent(k, v, c, p) =>
             msgs' \subseteq msgs \cup {RemoveChild(c, p)}
      BY DEF TellParent
    <2>5. \/ \E c, p : msgs' \subseteq msgs \cup {RevokeFinish(c, p)}
          \/ \E c, p : msgs' \subseteq msgs \cup {RemoveChild(c, p)}
      BY <1>4, <2>4, Zenon DEF ReturnToParent, ReturnToHandler, RootWait, RootReturn,
         FinishEntry, FinishRoot, NotifySubscriber
    <2>6. InMsgs(d)' => InMsgs(d)
      BY <2>3, <2>5 DEF InMsgs
    <2>7. \A v, c, p : TellParent(k, v, c, p) =>
             \A q \in Cap : children'[q] \subseteq children[q]
      BY DEF TellParent, TypeOK
    <2>8. \A q \in Cap : children'[q] \subseteq children[q]
      BY <1>4, <2>7, Zenon DEF ReturnToParent, ReturnToHandler, RootWait, RootReturn,
         FinishEntry, FinishRoot, NotifySubscriber
    <2> QED BY <2>1, <2>2, <2>6, <2>8 DEF Listed
  <1> QED BY <1>2, <1>3, <1>4 DEF RunThread

\* RootsUnlisted: a thread continues or a system call begins.
LEMMA RootsVpe ==
    ASSUME TypeOK, Structure, NEW v \in Vpe, Resume(v) \/ Syscall(v)
    PROVE  RootsUnlisted'
  <1>0. VpeKernel[v] \in Kernel
    BY ConstantsAssumption
  <1>1. SUFFICES ASSUME NEW d \in live', parent'[d] = None
        PROVE  d \in live /\ parent[d] = None /\ (Listed(d)' => Listed(d))
    BY RootsStep
  <1>2. CASE ResumeRoot(v)
    <2>1. /\ d \in live /\ parent[d] = None /\ msgs' = msgs /\ children' = children
          /\ CanRun(VpeKernel[v]) /\ StartNotify(VpeKernel[v], v, cur[v])
      BY <1>1, <1>2 DEF ResumeRoot
    <2>2. InKids(d)' <=> InKids(d)
      BY <1>0, <2>1, KidsNotify
    <2> QED BY <2>1, <2>2 DEF Listed, InMsgs
  <1>3. ASSUME NEW c \in Cap, CanRun(VpeKernel[v]), StartRec(VpeKernel[v], v, c, c, None),
               parent' = parent, msgs' = msgs
        PROVE  d \in live /\ parent[d] = None /\ (Listed(d)' => Listed(d))
    <2>1. d \in live /\ parent[d] = None
      BY <1>1, <1>3 DEF StartRec, Unset
    <2> QED BY <1>0, <1>3, <2>1, ListedStart
  <1>4. CASE UNCHANGED <<msgs, children, act>> /\ parent' = parent /\ live' = live
    BY <1>1, <1>4 DEF Listed, InMsgs, InKids, Pending
  <1>5. CASE ObtainResume(v)
    <2>1. /\ live' = IF parent[cur[v]] = None THEN live ELSE live \cup {cur[v]}
          /\ parent' = parent /\ msgs' = msgs /\ children' = children /\ act' = act
      BY <1>5, ObtainGoesOn, Zenon DEF ObtainResume
    <2> QED BY <1>1, <2>1 DEF Listed, InMsgs, InKids, Pending
  <1>6. ASSUME NEW c \in Cap, NEW p \in Cap, ObtainLocal(v, c, p)
        PROVE  d \in live /\ parent[d] = None /\ (Listed(d)' => Listed(d))
    <2>1. /\ live' = live \cup {c} /\ parent' = [parent EXCEPT ![c] = p]
          /\ children' = [children EXCEPT ![p] = @ \cup {c}]
          /\ msgs' = msgs /\ act' = act
      BY <1>6 DEF ObtainLocal
    <2>2. d # c
      BY <1>1, <2>1, ConstantsAssumption DEF TypeOK
    <2>3. d \in live /\ parent[d] = None
      BY <1>1, <2>1, <2>2 DEF TypeOK
    <2>4. \A q \in Cap : children'[q] \subseteq children[q] \cup {c}
      BY <2>1 DEF TypeOK
    <2> QED BY <2>1, <2>2, <2>3, <2>4 DEF Listed, InMsgs, InKids, Pending
  <1>7. ASSUME NEW c \in Cap, NEW p \in Cap, ObtainRemote(v, c, p)
        PROVE  d \in live /\ parent[d] = None /\ (Listed(d)' => Listed(d))
    <2>1. /\ d \in live /\ parent[d] = None /\ children' = children /\ act' = act
          /\ msgs' = msgs \cup {Exchange(c, p)}
      BY <1>1, <1>7 DEF ObtainRemote
    <2>2. InMsgs(d)' => InMsgs(d)
      BY <2>1 DEF InMsgs, Exchange
    <2> QED BY <2>1, <2>2 DEF Listed, InKids, Pending
  <1>8. CASE RevokeAll(v)
    <2>1. parent' = parent /\ msgs' = msgs /\ CanRun(VpeKernel[v])
      BY <1>8 DEF RevokeAll
    <2>2. \/ live' = live /\ children' = children /\ act' = act
          \/ \E c \in Cap : StartRec(VpeKernel[v], v, c, c, None)
      BY <1>8 DEF RevokeAll, Caps
    <2> QED BY <1>3, <1>4, <2>1, <2>2
  <1>9. ASSUME NEW c \in Cap, RevokeSyscall(v, c)
        PROVE  d \in live /\ parent[d] = None /\ (Listed(d)' => Listed(d))
    <2>1. /\ parent' = parent /\ msgs' = msgs /\ CanRun(VpeKernel[v])
          /\ StartRec(VpeKernel[v], v, c, c, None)
      BY <1>9 DEF RevokeSyscall
    <2> QED BY <1>3, <2>1
  <1>10. CASE (\E c \in Cap : RevokeUnused(v, c)) \/ Exit(v)
    <2>1. UNCHANGED <<msgs, children, act>> /\ parent' = parent /\ live' = live
      BY <1>10 DEF RevokeUnused, Exit
    <2> QED BY <1>4, <2>1
  <1> QED
    BY <1>2, <1>5, <1>6, <1>7, <1>8, <1>9, <1>10 DEF Resume, Syscall

(***************************************************************************)
(* Type correctness.                                                       *)
(***************************************************************************)
\* The initial trees have the structure.
LEMMA StructureInit == Init => Structure
  <1> SUFFICES ASSUME Init PROVE Structure
    OBVIOUS
  <1>0. \A k \in Kernel : /\ act[k].mode = "idle" /\ act[k].thr = None
                          /\ act[k].stack = << >> /\ DOMAIN act[k].stack = {}
    BY DEF Init, Idle
  <1>1. ActOK /\ FramesOK /\ RunOK
    BY <1>0, Zenon DEF ActOK, WellFormed, FramesOK, RunOK, Runs
  <1>2. EntryOK /\ MsgOK /\ ExchangeOK
    BY <1>0 DEF Init, EntryOK, MsgOK, ExchangeOK, HasEntry
  <1>3. WorkOK
    BY DEF Init, WorkOK, Work, Revoking
  <1>4. RootsUnlisted
    BY <1>0, ConstantsAssumption DEF Init, RootsUnlisted, ToBeRevoked, Pending
  <1> QED BY <1>1, <1>2, <1>3, <1>4 DEF Structure

\* Every step preserves the structure.
LEMMA StructureNext == TypeOK /\ Structure /\ [Next]_vars => Structure'
  <1> SUFFICES ASSUME TypeOK, Structure, [Next]_vars PROVE Structure'
    OBVIOUS
  <1>1. ASSUME NEW m \in msgs, Handle(m) PROVE Structure'
    BY <1>1, ShapeHandle, EntryHandle, MsgHandle, ThreadHandle, ExchangeHandle,
       RootsHandle DEF Structure
  <1>2. ASSUME NEW k \in Kernel, RunThread(k) PROVE Structure'
    <2>1. ActOK' /\ FramesOK'
      BY <1>2, ShapeRec, ShapeReturn DEF RunThread
    <2> QED
      BY <1>2, <2>1, EntryRunThread, MsgRunThread, ThreadRunThread,
         ExchangeRunThread, RootsRunThread DEF Structure
  <1>3. ASSUME NEW v \in Vpe, Resume(v) \/ Syscall(v) PROVE Structure'
    BY <1>3, ShapeResume, ShapeSyscall, EntryVpe, MsgVpe, ThreadVpe, ExchangeVpe,
       RootsVpe DEF Structure
  <1>4. CASE UNCHANGED vars
    <2>1. ActOK' /\ FramesOK' /\ EntryOK' /\ MsgOK' /\ WorkOK' /\ RunOK'
      BY <1>4, ShapeUnchanged, EntryUnchanged, MsgKept, ThreadUnchanged DEF vars
    <2>2. ExchangeOK'
      BY <1>4, ExchangeKept DEF vars
    <2>3. RootsUnlisted'
      BY <1>4 DEF vars, Structure, RootsUnlisted, ToBeRevoked, Pending
    <2> QED BY <2>1, <2>2, <2>3 DEF Structure
  <1> QED
    BY <1>1, <1>2, <1>3, <1>4 DEF Next

\* The data of revocations keeps its form, for any kernels, VPEs,
\* capability forest and interleaving: every key that CapTable::revoke_rec,
\* the revoke and revokeFinish handlers and Revocation::notifySubscribers read
\* from a frame, an entry or a message is that of a capability, and a thread
\* runs revoke_rec only for a capability that is no longer in its table
\* (Structure, without which typing is not inductive: a frame without a
\* parent would be reported to nobody).
THEOREM TypeCorrect == Spec => [](TypeOK /\ Structure)
  <1>1. Init => TypeOK /\ Structure
    BY TypeInit, StructureInit
  <1>2. TypeOK /\ Structure /\ [Next]_vars => (TypeOK /\ Structure)'
    BY TypeNext, StructureNext
  <1> QED BY <1>1, <1>2, PTL DEF Spec

\* The type invariant of the runs.
THEOREM Typing == Spec => []TypeOK
  BY TypeCorrect, PTL

=============================================================================
