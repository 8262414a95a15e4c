------------------------- MODULE Revocation_escape --------------------------
(***************************************************************************)
(* No derived capability escapes.                                          *)
(***************************************************************************)
EXTENDS Revocation_threads

\* c is found by a revocation of p.
Held(c, p) == (p \in live /\ c \in children[p]) \/ InMsgs(c) \/ InKids(c)

\* After a step that stops c from being found, c is not derived from p.
Kept(c, p) ==
    \/ Held(c, p)'
    \/ ~Derived(c, p)'
    \/ c \notin live' /\ halted'[Home[c]] # "no"

\* What is in no table and is not obtained is derived from nothing.
LEMMA NotDerived ==
    ASSUME Structure', NEW c \in Cap, NEW p, c \notin live', ~Obtaining(c)'
    PROVE  ~Derived(c, p)'
  BY DEF Derived, Answered, Obtaining, Structure, ExchangeOK

\* revoke_rec takes over the children of a capability it unsets.
LEMMA HeldStart ==
    ASSUME TypeOK, Structure, NEW k \in Kernel, NEW v, NEW x \in Cap, NEW o, NEW q,
           CanRun(k), StartRec(k, v, x, o, q), NEW c \in Cap, NEW p \in Cap,
           Held(c, p), InMsgs(c) => InMsgs(c)'
    PROVE  Held(c, p)'
  <1>1. InKids(c)' <=> InKids(c) \/ c \in children[x]
    BY KidsStart
  <1>2. live' = live \ {x} /\ (p # x => children'[p] = children[p])
    BY DEF StartRec, Unset, TypeOK
  <1> QED BY <1>1, <1>2 DEF Held

\* A handled kernelcall loses a listed child only by revoking it.
LEMMA HeldHandle ==
    ASSUME TypeOK, Structure, Structure', RemoveChildOK, NEW m \in msgs, Handle(m),
           NEW c \in Cap, NEW p \in Cap, Held(c, p)
    PROVE  Kept(c, p)
  <1>0. m \in Message /\ m.cap \in Cap /\ Owner[m.cap] \in Vpe /\ Home[m.cap] \in Kernel
    BY HomeType DEF TypeOK, Message
  <1>1. CASE HandleRevoke(m)
    <2>0. /\ msgs' = msgs \ {m} /\ CanRun(Home[m.cap]) /\ pc' = pc /\ cur' = cur
      BY <1>1 DEF HandleRevoke
    <2>1. CASE NullData(m.cap)
      <3>1. /\ live' = live /\ children' = children /\ act' = act
            /\ halted' = [halted EXCEPT ![Home[m.cap]] = "null"]
        BY <1>1, <2>1 DEF HandleRevoke, Halt
      <3>2. m.cap \notin live /\ halted'[Home[m.cap]] = "null"
        BY <1>0, <2>1, <3>1 DEF NullData, VpeGone, Structure, WorkOK, TypeOK
      <3>3. CASE c = m.cap
        BY <3>1, <3>2, <3>3 DEF Kept
      <3>4. CASE c # m.cap
        <4>1. InMsgs(c) => InMsgs(c)'
          BY <2>0, <3>4 DEF InMsgs
        <4>2. InKids(c)' <=> InKids(c)
          BY <3>1 DEF InKids, Pending
        <4> QED BY <3>1, <4>1, <4>2 DEF Kept, Held
      <3> QED BY <3>3, <3>4
    <2>2. CASE ~NullData(m.cap)
      <3>1. StartRec(Home[m.cap], None, m.cap, m.origin, m.parent)
        BY <1>1, <2>2 DEF HandleRevoke
      <3>2. live' = live \ {m.cap} /\ m.cap \in live
        BY <2>2, <3>1 DEF StartRec, Unset, NullData
      <3>3. CASE c = m.cap
        <4>1. ~Obtaining(c)'
          BY <2>0, <3>2, <3>3, LiveNotObtaining DEF Obtaining
        <4> QED BY <3>2, <3>3, <4>1, NotDerived DEF Kept
      <3>4. CASE c # m.cap
        <4>1. InMsgs(c) => InMsgs(c)'
          BY <2>0, <3>4 DEF InMsgs
        <4> QED BY <1>0, <2>0, <3>1, <4>1, HeldStart DEF Kept
      <3> QED BY <3>3, <3>4
    <2> QED BY <2>1, <2>2
  <1>2. CASE HandleRevokeFinish(m)
    <2>1. /\ live' = live /\ children' = children /\ msgs' = msgs \ {m}
          /\ m.op = "revokeFinish" /\ m.parent \in Cap /\ Home[m.parent] \in Kernel
      BY <1>2, HomeType, Zenon DEF HandleRevokeFinish, Structure, MsgOK
    <2>2. \/ act' = act
          \/ CanRun(Home[m.parent]) /\ StartNotify(Home[m.parent], None, m.parent)
      BY <1>2, Zenon DEF HandleRevokeFinish
    <2>3. InKids(c)' <=> InKids(c)
      <3>1. CASE act' = act
        BY <3>1 DEF InKids, Pending
      <3> QED BY <2>1, <2>2, <3>1, KidsNotify
    <2>4. InMsgs(c) => InMsgs(c)'
      BY <2>1 DEF InMsgs
    <2> QED BY <2>1, <2>3, <2>4 DEF Kept, Held
  <1>3. CASE HandleRemoveChild(m)
    <2>1. /\ live' = live /\ act' = act /\ msgs' = msgs \ {m} /\ pc' = pc /\ cur' = cur
          /\ parent' = parent /\ m.op = "removeChildCapPtr"
      BY <1>3 DEF HandleRemoveChild
    <2>2. CASE c = m.cap /\ p = m.parent
      <3>1. ~Derived(c, p)
        BY <2>1, <2>2 DEF RemoveChildOK
      <3> QED BY <2>1, <3>1 DEF Kept, Derived, Answered
    <2>3. CASE ~(c = m.cap /\ p = m.parent)
      <3>1. c \in children[p] => c \in children'[p]
        BY <1>3, <2>3 DEF HandleRemoveChild, TypeOK
      <3>2. (InMsgs(c) => InMsgs(c)') /\ (InKids(c)' <=> InKids(c))
        BY <2>1 DEF InMsgs, InKids, Pending
      <3> QED BY <2>1, <3>1, <3>2 DEF Kept, Held
    <2> QED BY <2>2, <2>3
  <1>4. CASE HandleExchange(m) \/ HandleExchangeGone(m) \/ HandleExchangeReply(m)
    <2>1. /\ live' = live /\ act' = act /\ msgs \ {m} \subseteq msgs' /\ m.op # "revoke"
      BY <1>4 DEF HandleExchange, HandleExchangeGone, HandleExchangeReply
    <2>2. children[p] \subseteq children'[p]
      BY <1>4 DEF HandleExchange, HandleExchangeGone, HandleExchangeReply, TypeOK
    <2>3. (InMsgs(c) => InMsgs(c)') /\ (InKids(c)' <=> InKids(c))
      BY <2>1 DEF InMsgs, InKids, Pending
    <2> QED BY <2>1, <2>2, <2>3 DEF Kept, Held
  <1> QED BY <1>1, <1>2, <1>3, <1>4 DEF Handle

\* A step of the running thread loses a listed child only by revoking it.
LEMMA HeldRunThread ==
    ASSUME TypeOK, Structure, Structure', NEW k \in Kernel, RunThread(k),
           NEW c \in Cap, NEW p \in Cap, Held(c, p)
    PROVE  Kept(c, p)
  <1>1. ASSUME NEW d \in Cap, RevokeRemoteChild(k, d) PROVE Kept(c, p)
    <2>1. live' = live /\ children' = children /\ msgs \subseteq msgs'
      BY <1>1 DEF RevokeRemoteChild
    <2>2. InKids(c) => InKids(c)' \/ InMsgs(c)'
      BY <1>1, KidsRemote DEF InMsgs
    <2>3. InMsgs(c) => InMsgs(c)'
      BY <2>1 DEF InMsgs
    <2> QED BY <2>1, <2>2, <2>3 DEF Kept, Held
  <1>2. ASSUME NEW d \in Cap, RevokeLocalChild(k, d) PROVE Kept(c, p)
    <2>0. msgs' = msgs /\ pc' = pc /\ cur' = cur /\ (InMsgs(c) <=> InMsgs(c)')
      BY <1>2 DEF RevokeLocalChild, InMsgs
    <2>1. CASE NullData(d)
      <3>1. live' = live /\ children' = children /\ act' = act
        BY <1>2, <2>1 DEF RevokeLocalChild
      <3> QED BY <2>0, <3>1 DEF Kept, Held, InKids, Pending
    <2>2. CASE ~NullData(d)
      <3>1. /\ live' = live \ {d} /\ d \in live
            /\ p # d => children'[p] = children[p]
        BY <1>2, <2>2 DEF RevokeLocalChild, Unset, NullData, TypeOK
      <3>2. CASE c = d
        <4>1. ~Obtaining(c)'
          BY <2>0, <3>1, <3>2, LiveNotObtaining DEF Obtaining
        <4> QED BY <3>1, <3>2, <4>1, NotDerived DEF Kept
      <3>3. CASE c # d
        <4>1. /\ InKids(c) => InKids(c)'
              /\ c \in children[d] => InKids(c)'
          BY <1>2, <2>2, <3>3, KidsLocal
        <4> QED BY <2>0, <3>1, <3>3, <4>1 DEF Kept, Held
      <3> QED BY <3>2, <3>3
    <2> QED BY <2>1, <2>2
  <1>3. CASE \/ ReturnToParent(k) \/ ReturnToHandler(k) \/ RootWait(k) \/ FinishEntry(k)
             \/ \E x, s \in Cap : NotifySubscriber(k, x, s)
    <2>1. live' = live /\ children' = children /\ msgs \subseteq msgs'
      BY <1>3, Zenon DEF ReturnToParent, ReturnToHandler, RootWait, FinishEntry, NotifySubscriber
    <2>2. InKids(c)' <=> InKids(c)
      BY <1>3, KidsKept
    <2>3. InMsgs(c) => InMsgs(c)'
      BY <2>1 DEF InMsgs
    <2> QED BY <2>1, <2>2, <2>3, SMTT(20) DEF Kept, Held
  <1>4. CASE RootReturn(k) \/ FinishRoot(k)
    <2>1. PICK v \in Vpe, x \in Cap, q \in Cap \cup {None} :
             /\ TellParent(k, v, x, q)
             /\ cur[v] = x /\ Owner[x] = v /\ x \notin live
             /\ pc[v] \in {"revoke", "revokeAll", "ready", "readyAll"}
             /\ cur' = cur /\ live' = live /\ parent' = parent
      BY <1>4, ReturnedRoot
    <2>2. pc' = pc \/ pc' \in {[pc EXCEPT ![v] = "idle"], [pc EXCEPT ![v] = "exit"]}
      BY <2>1, ReturnEffect
    <2>3. ~Obtaining(x)'
      BY <2>1, <2>2 DEF Obtaining, TypeOK
    <2>4. msgs \subseteq msgs' /\ (c # x /\ c \in children[p] => c \in children'[p])
      BY <2>1 DEF TellParent, TypeOK
    <2>5. InKids(c)' <=> InKids(c)
      BY <1>4, KidsKept
    <2>6. InMsgs(c) => InMsgs(c)'
      BY <2>4 DEF InMsgs
    <2>7. CASE c = x
      BY <2>1, <2>3, <2>7, NotDerived DEF Kept
    <2>8. CASE c # x
      BY <2>1, <2>4, <2>5, <2>6, <2>8 DEF Kept, Held
    <2> QED BY <2>7, <2>8
  <1> QED BY <1>1, <1>2, <1>3, <1>4 DEF RunThread

\* A system call or a continued thread keeps every listed child listed.
LEMMA HeldVpe ==
    ASSUME TypeOK, Structure, NEW v \in Vpe, Resume(v) \/ Syscall(v),
           NEW c \in Cap, NEW p \in Cap, Held(c, p)
    PROVE  Held(c, p)'
  <1>0. VpeKernel[v] \in Kernel
    BY ConstantsAssumption
  <1>1. CASE ResumeRoot(v)
    <2>1. /\ live' = live /\ children' = children /\ msgs' = msgs
          /\ CanRun(VpeKernel[v]) /\ StartNotify(VpeKernel[v], v, cur[v])
      BY <1>1 DEF ResumeRoot
    <2>2. InKids(c)' <=> InKids(c)
      BY <1>0, <2>1, KidsNotify
    <2> QED BY <2>1, <2>2 DEF Held, InMsgs
  <1>2. ASSUME NEW x \in Cap, CanRun(VpeKernel[v]), StartRec(VpeKernel[v], v, x, x, None),
               msgs' = msgs
        PROVE  Held(c, p)'
    <2>1. InMsgs(c) => InMsgs(c)'
      BY <1>2 DEF InMsgs
    <2> QED BY <1>0, <1>2, <2>1, HeldStart
  <1>3. CASE RevokeAll(v)
    <2>1. msgs' = msgs /\ CanRun(VpeKernel[v])
      BY <1>3 DEF RevokeAll
    <2>2. \/ live' = live /\ children' = children /\ act' = act
          \/ \E x \in Cap : StartRec(VpeKernel[v], v, x, x, None)
      BY <1>3 DEF RevokeAll, Caps
    <2>3. CASE live' = live /\ children' = children /\ act' = act
      BY <2>1, <2>3 DEF Held, InMsgs, InKids, Pending
    <2> QED BY <1>2, <2>1, <2>2, <2>3
  <1>4. ASSUME NEW x \in Cap, RevokeSyscall(v, x) PROVE Held(c, p)'
    <2>1. /\ msgs' = msgs /\ CanRun(VpeKernel[v]) /\ StartRec(VpeKernel[v], v, x, x, None)
      BY <1>4 DEF RevokeSyscall
    <2> QED BY <1>2, <2>1
  <1>5. CASE \/ ObtainResume(v) \/ Exit(v)
             \/ \E x \in Cap : RevokeUnused(v, x)
             \/ \E x, q \in Cap : ObtainLocal(v, x, q) \/ ObtainRemote(v, x, q)
    <2>1. live \subseteq live' /\ act' = act /\ msgs \subseteq msgs'
      BY <1>5, Zenon DEF ObtainResume, Exit, RevokeUnused, ObtainLocal, ObtainRemote
    <2>2. children[p] \subseteq children'[p]
      BY <1>5 DEF ObtainResume, Exit, RevokeUnused, ObtainLocal, ObtainRemote, TypeOK
    <2> QED BY <2>1, <2>2 DEF Held, InMsgs, InKids, Pending
  <1> QED BY <1>1, <1>3, <1>4, <1>5 DEF Resume, Syscall

\* RemoveChildOK: a step that derives nothing along a pointer whose removal is
\* under way.
LEMMA RemoveStep ==
    ASSUME RemoveChildOK,
           \A m \in msgs' : m.op = "removeChildCapPtr" =>
               \/ m \in msgs /\ (Derived(m.cap, m.parent)' => Derived(m.cap, m.parent))
               \/ Home[m.parent] # Home[m.cap] /\ ~Derived(m.cap, m.parent)'
    PROVE  RemoveChildOK'
  BY DEF RemoveChildOK

\* A step by which nothing is obtained derives nothing.
LEMMA DerivedKept ==
    ASSUME NEW c \in Cap, NEW p, Derived(c, p)', live' \subseteq live, parent' = parent,
           \A n \in msgs' : n.op = "exchangeReply" => n \in msgs,
           Answered(c)' => Answered(c)
    PROVE  Derived(c, p)
  BY DEF Derived

\* RemoveChildOK: a kernelcall is handled.  An obtain along a pointer whose removal
\* is under way is handled after it.
LEMMA RemoveHandle ==
    ASSUME TypeOK, Structure, RemoveChildOK, NEW m \in msgs, Handle(m)
    PROVE  RemoveChildOK'
  <1>0. \A n \in msgs : n.cap \in Cap /\ Owner[n.cap] \in Vpe
    BY HomeType DEF TypeOK, Message
  <1>1. live' \subseteq live
    BY Zenon DEF Handle, HandleRevoke, HandleRevokeFinish, HandleRemoveChild, HandleExchange,
       HandleExchangeGone, HandleExchangeReply, StartRec, Unset
  <1>2. \A n \in msgs' : n.op = "removeChildCapPtr" => n \in msgs
    <2>1. \A c, p : ExchangeReply(c, p).op = "exchangeReply"
      BY DEF ExchangeReply
    <2>2. \E c, p : msgs' \subseteq msgs \cup {ExchangeReply(c, p)}
      BY Zenon DEF Handle, HandleRevoke, HandleRevokeFinish, HandleRemoveChild, HandleExchange,
         HandleExchangeGone, HandleExchangeReply
    <2> QED BY <2>1, <2>2
  <1>3. SUFFICES ASSUME NEW n \in msgs, n \in msgs', n.op = "removeChildCapPtr",
                        Derived(n.cap, n.parent)'
        PROVE  Derived(n.cap, n.parent)
    BY <1>2, RemoveStep
  <1>4. n.parent \in Cap /\ n.parent # None
    BY <1>3, ConstantsAssumption DEF Structure, MsgOK
  <1>5. CASE HandleExchange(m) \/ HandleExchangeGone(m)
    <2>1. PICK q : /\ msgs' = (msgs \ {m}) \cup {ExchangeReply(m.cap, q)}
                   /\ q # None => q = m.parent /\ ~RemovalSent(m.cap, m.parent)
      <3>1. CASE HandleExchange(m)
        BY <3>1 DEF HandleExchange
      <3>2. CASE HandleExchangeGone(m)
        BY <3>2 DEF HandleExchangeGone
      <3> QED BY <1>5, <3>1, <3>2
    <2>2. live' = live /\ parent' = parent /\ pc' = pc /\ cur' = cur
      BY <1>5 DEF HandleExchange, HandleExchangeGone
    <2>3. ~(n.cap = m.cap /\ n.parent = q)
      BY <1>3, <1>4, <2>1 DEF RemovalSent
    <2>4. ExchangeReply(m.cap, q).cap = m.cap /\ ExchangeReply(m.cap, q).parent = q
      BY DEF ExchangeReply
    <2> QED BY <1>3, <2>1, <2>2, <2>3, <2>4 DEF Derived, Answered
  <1>6. CASE HandleExchangeReply(m)
    <2>1. /\ m.op = "exchangeReply" /\ live' = live /\ msgs' = msgs \ {m} /\ cur' = cur
          /\ parent' = [parent EXCEPT ![m.cap] = m.parent]
          /\ pc' = [pc EXCEPT ![Owner[m.cap]] = "answered"]
      BY <1>6 DEF HandleExchangeReply
    <2>2. cur[Owner[m.cap]] = m.cap
      BY <2>1 DEF Structure, ExchangeOK
    <2>3. CASE n.cap = m.cap
      <3>1. parent'[m.cap] = m.parent
        BY <1>0, <2>1 DEF TypeOK
      <3> QED BY <1>3, <2>1, <2>3, <3>1 DEF Derived
    <2>4. CASE n.cap # m.cap
      <3>1. parent'[n.cap] = parent[n.cap]
        BY <1>0, <2>1, <2>4 DEF TypeOK
      <3>2. Answered(n.cap)' => Answered(n.cap)
        BY <1>0, <2>1, <2>2, <2>4 DEF Answered, TypeOK
      <3> QED BY <1>3, <2>1, <3>1, <3>2 DEF Derived
    <2> QED BY <2>3, <2>4
  <1>7. CASE HandleRevoke(m) \/ HandleRevokeFinish(m) \/ HandleRemoveChild(m)
    <2>1. parent' = parent /\ cur' = cur /\ msgs' \subseteq msgs
      BY <1>7, Zenon DEF HandleRevoke, HandleRevokeFinish, HandleRemoveChild
    <2>2. Answered(n.cap)' => Answered(n.cap)
      <3>1. CASE HandleRevokeFinish(m)
        <4>1. m.parent \in Cap
          BY <3>1, SMTT(20) DEF HandleRevokeFinish, Structure, MsgOK
        <4>2. rev[m.parent].tid \in Vpe \cup {None}
          BY <4>1 DEF TypeOK, Entry, NoEntry
        <4>3. pc' = pc \/ pc' = [pc EXCEPT ![rev[m.parent].tid] = Woken(rev[m.parent].tid)]
          BY <3>1, Zenon DEF HandleRevokeFinish
        <4> QED BY <1>0, <2>1, <4>2, <4>3, WokenEffect, Zenon DEF Answered
      <3>2. CASE HandleRevoke(m) \/ HandleRemoveChild(m)
        BY <2>1, <3>2, Zenon DEF HandleRevoke, HandleRemoveChild, Answered
      <3> QED BY <1>7, <3>1, <3>2
    <2> QED BY <1>0, <1>1, <1>3, <2>1, <2>2, DerivedKept, Zenon
  <1> QED BY <1>5, <1>6, <1>7 DEF Handle

\* A step of the running thread obtains nothing.
LEMMA RunObtainsNothing ==
    ASSUME TypeOK, Structure, NEW k \in Kernel, RunThread(k)
    PROVE  /\ live' \subseteq live /\ parent' = parent /\ cur' = cur
           /\ \A n \in msgs' : n.op = "exchangeReply" => n \in msgs
           /\ \A v \in Vpe : pc'[v] = "answered" => pc[v] = "answered"
  <1>1. live' \subseteq live /\ parent' = parent /\ cur' = cur
    BY Zenon DEF RunThread, RevokeRemoteChild, RevokeLocalChild, ReturnToParent,
       ReturnToHandler, RootWait, RootReturn, NotifySubscriber, FinishEntry,
       FinishRoot, Unset
  <1>2. \A n \in msgs' : n.op = "exchangeReply" => n \in msgs
    <2>1. \A c, p, o : /\ Revoke(c, p, o).op # "exchangeReply"
                       /\ RevokeFinish(c, p).op # "exchangeReply"
                       /\ RemoveChild(c, p).op # "exchangeReply"
      BY DEF Revoke, RevokeFinish, RemoveChild
    <2>2. \A v, c, p : TellParent(k, v, c, p) => msgs' \subseteq msgs \cup {RemoveChild(c, p)}
      BY SMTT(20) DEF TellParent
    <2>3. \/ \E c, p, o : msgs' \subseteq msgs \cup {Revoke(c, p, o)}
          \/ \E c, p : msgs' \subseteq msgs \cup {RevokeFinish(c, p)}
          \/ \E c, p : msgs' \subseteq msgs \cup {RemoveChild(c, p)}
      BY <2>2, ZenonT(30) DEF RunThread, RevokeRemoteChild, RevokeLocalChild, ReturnToParent,
         ReturnToHandler, RootWait, RootReturn, NotifySubscriber, FinishEntry, FinishRoot
    <2> QED BY <2>1, <2>3
  <1>3. \A v \in Vpe : pc'[v] = "answered" => pc[v] = "answered"
    <2>1. CASE RootWait(k)
      BY <2>1 DEF RootWait, TypeOK
    <2>2. CASE RootReturn(k) \/ FinishRoot(k)
      <3>1. PICK v \in Vpe, x \in Cap, q \in Cap \cup {None} :
              /\ TellParent(k, v, x, q)
              /\ pc[v] \in {"revoke", "revokeAll", "ready", "readyAll"}
        BY <2>2, ReturnedRoot
      <3>2. pc' = pc \/ pc' \in {[pc EXCEPT ![v] = "idle"], [pc EXCEPT ![v] = "exit"]}
        BY <3>1, ReturnEffect
      <3> QED BY <3>2 DEF TypeOK
    <2>3. ASSUME NEW x \in Cap, NEW s \in Cap, NotifySubscriber(k, x, s)
          PROVE  \A v \in Vpe : pc'[v] = "answered" => pc[v] = "answered"
      <3>1. rev[s].tid \in Vpe \cup {None}
        BY DEF TypeOK, Entry, NoEntry
      <3>2. pc' = pc \/ pc' = [pc EXCEPT ![rev[s].tid] = Woken(rev[s].tid)]
        BY <2>3, SMTT(20) DEF NotifySubscriber
      <3> QED BY <3>1, <3>2, WokenEffect, SMTT(20)
    <2> QED
      BY <2>1, <2>2, <2>3, ZenonT(30) DEF RunThread, RevokeRemoteChild, RevokeLocalChild,
         ReturnToParent, ReturnToHandler, FinishEntry
  <1> QED BY <1>1, <1>2, <1>3

\* RemoveChildOK: a step of the running thread.  It removes a pointer along which
\* it has revoked.
LEMMA RemoveRunThread ==
    ASSUME TypeOK, Structure, Structure', RemoveChildOK, NEW k \in Kernel, RunThread(k)
    PROVE  RemoveChildOK'
  <1>0. \A n \in msgs : n.cap \in Cap /\ Owner[n.cap] \in Vpe
    BY HomeType DEF TypeOK, Message
  <1>1. ASSUME NEW n \in msgs PROVE Derived(n.cap, n.parent)' => Derived(n.cap, n.parent)
    <2>1. Answered(n.cap)' => Answered(n.cap)
      BY <1>0, RunObtainsNothing DEF Answered
    <2> QED BY <1>0, <2>1, RunObtainsNothing, DerivedKept, Zenon
  <1>2. CASE RootReturn(k) \/ FinishRoot(k)
    <2>1. PICK v \in Vpe, x \in Cap, q \in Cap \cup {None} :
             /\ TellParent(k, v, x, q)
             /\ cur[v] = x /\ Owner[x] = v /\ VpeKernel[v] = k /\ x \notin live
             /\ pc[v] \in {"revoke", "revokeAll", "ready", "readyAll"}
             /\ cur' = cur /\ live' = live /\ parent' = parent
      BY <1>2, ReturnedRoot
    <2>2. pc' = pc \/ pc' \in {[pc EXCEPT ![v] = "idle"], [pc EXCEPT ![v] = "exit"]}
      BY <2>1, ReturnEffect
    <2>3. ~Obtaining(x)'
      BY <2>1, <2>2 DEF Obtaining, TypeOK
    <2>4. ~Derived(x, q)'
      BY <2>1, <2>3, NotDerived
    <2>5. \/ msgs' = msgs
          \/ msgs' = msgs \cup {RemoveChild(x, q)} /\ Home[q] # k
      BY <2>1 DEF TellParent
    <2>6. Home[x] = k /\ RemoveChild(x, q).cap = x /\ RemoveChild(x, q).parent = q
      BY <2>1 DEF Home, RemoveChild
    <2> QED BY <1>1, <2>4, <2>5, <2>6, RemoveStep, Zenon
  <1>3. CASE ~(RootReturn(k) \/ FinishRoot(k))
    <2>1. \A c, p, o : /\ Revoke(c, p, o).op # "removeChildCapPtr"
                       /\ RevokeFinish(c, p).op # "removeChildCapPtr"
      BY SMTT(20) DEF Revoke, RevokeFinish
    <2>2. \/ \E c, p, o : msgs' \subseteq msgs \cup {Revoke(c, p, o)}
          \/ \E c, p : msgs' \subseteq msgs \cup {RevokeFinish(c, p)}
      BY <1>3, Zenon DEF RunThread, RevokeRemoteChild, RevokeLocalChild, ReturnToParent,
         ReturnToHandler, RootWait, NotifySubscriber, FinishEntry
    <2>3. \A n \in msgs' : n.op = "removeChildCapPtr" => n \in msgs
      BY <2>1, <2>2, Zenon
    <2> QED BY <1>1, <2>3, RemoveStep, Zenon
  <1> QED BY <1>2, <1>3

\* RemoveChildOK: a thread continues or a system call begins.  A selector may be
\* refilled while a kernelcall about its earlier capability is under way: what is
\* obtained on the same kernel has a parent that no such kernelcall is about.
LEMMA RemoveVpe ==
    ASSUME TypeOK, Structure, RemoveChildOK, NEW v \in Vpe, Resume(v) \/ Syscall(v)
    PROVE  RemoveChildOK'
  <1>0. \A m \in msgs : m.cap \in Cap /\ Owner[m.cap] \in Vpe
    BY HomeType DEF TypeOK, Message
  <1>1. ASSUME NEW c \in Cap, NEW p \in Cap, ObtainLocal(v, c, p)
        PROVE  RemoveChildOK'
    <2>1. /\ Home[p] = Home[c] /\ live' = live \cup {c} /\ msgs' = msgs /\ pc' = pc
          /\ cur' = cur /\ parent' = [parent EXCEPT ![c] = p]
          /\ Owner[c] = v /\ pc[v] = "idle"
      BY <1>1 DEF ObtainLocal, MayObtain
    <2>2. ASSUME NEW m \in msgs, m.op = "removeChildCapPtr", Derived(m.cap, m.parent)'
          PROVE  Derived(m.cap, m.parent)
      <3>1. CASE m.cap = c
        <4>1. parent'[m.cap] = p /\ m.parent # p
          BY <2>1, <2>2, <3>1 DEF RemoveChildOK, TypeOK
        <4> QED BY <2>1, <2>2, <4>1 DEF Derived
      <3>2. CASE m.cap # c
        <4>1. parent'[m.cap] = parent[m.cap] /\ (m.cap \in live' => m.cap \in live)
          BY <1>0, <2>1, <3>2 DEF TypeOK
        <4> QED BY <2>1, <2>2, <4>1 DEF Derived, Answered
      <3> QED BY <3>1, <3>2
    <2> QED BY <2>1, <2>2, RemoveStep
  <1>2. ASSUME NEW c \in Cap, NEW p \in Cap, ObtainRemote(v, c, p)
        PROVE  RemoveChildOK'
    <2>1. /\ live' = live /\ parent' = parent /\ msgs' = msgs \cup {Exchange(c, p)}
          /\ pc' = [pc EXCEPT ![v] = "obtain"] /\ cur' = [cur EXCEPT ![v] = c]
      BY <1>2 DEF ObtainRemote
    <2>2. Exchange(c, p).op = "exchange"
      BY DEF Exchange
    <2>3. ASSUME NEW m \in msgs PROVE Answered(m.cap)' => Answered(m.cap)
      BY <1>0, <2>1 DEF Answered, TypeOK
    <2>4. ASSUME NEW m \in msgs, Derived(m.cap, m.parent)' PROVE Derived(m.cap, m.parent)
      BY <2>1, <2>2, <2>3, <2>4 DEF Derived
    <2> QED BY <2>1, <2>2, <2>4, RemoveStep, Zenon
  <1>3. CASE ObtainResume(v)
    <2>1. /\ cur[v] \in Cap /\ Owner[cur[v]] = v /\ msgs' = msgs
          /\ live' = IF parent[cur[v]] = None THEN live ELSE live \cup {cur[v]}
      BY <1>3, ObtainGoesOn
    <2>2. /\ parent' = parent /\ cur' = cur
          /\ pc[v] = "answered" /\ pc' = [pc EXCEPT ![v] = "idle"]
      BY <1>3 DEF ObtainResume
    <2>3. Answered(cur[v])
      BY <2>1, <2>2 DEF Answered
    <2>4. ASSUME NEW m \in msgs PROVE Answered(m.cap)' => Answered(m.cap)
      BY <1>0, <2>2 DEF Answered, TypeOK
    <2>5. ASSUME NEW m \in msgs, Derived(m.cap, m.parent)' PROVE Derived(m.cap, m.parent)
      BY <2>1, <2>2, <2>3, <2>4, <2>5 DEF Derived
    <2> QED BY <2>1, <2>5, RemoveStep, Zenon
  <1>4. CASE \/ ResumeRoot(v) \/ RevokeAll(v) \/ Exit(v)
             \/ \E c \in Cap : RevokeSyscall(v, c) \/ RevokeUnused(v, c)
    <2>1. live' \subseteq live /\ msgs' = msgs /\ parent' = parent
      BY <1>4, ZenonT(30) DEF ResumeRoot, RevokeAll, Exit, RevokeSyscall, RevokeUnused, StartRec, Unset
    <2>2. /\ \A w \in Vpe : w # v => pc'[w] = pc[w] /\ cur'[w] = cur[w]
          /\ pc'[v] # "answered"
      BY <1>4, Zenon DEF ResumeRoot, RevokeAll, Exit, RevokeSyscall, RevokeUnused, TypeOK
    <2>3. ASSUME NEW m \in msgs PROVE Answered(m.cap)' => Answered(m.cap)
      BY <1>0, <2>2 DEF Answered
    <2>4. ASSUME NEW m \in msgs, Derived(m.cap, m.parent)' PROVE Derived(m.cap, m.parent)
      BY <1>0, <2>1, <2>3, <2>4, DerivedKept, Zenon
    <2> QED BY <2>1, <2>4, RemoveStep, Zenon
  <1> QED BY <1>1, <1>2, <1>3, <1>4 DEF Resume, Syscall

\* What is left to show of a step once Kept is known of it.
LEMMA EscapeStep ==
    ASSUME TypeOK, TypeOK', Structure', ObtainOK, NoEscape,
           \A c, p \in Cap : Held(c, p) => Kept(c, p),
           \A k \in Kernel : halted[k] # "no" => halted'[k] # "no",
           \A d \in live', p \in Cap : parent'[d] = p =>
               (d \in live /\ parent[d] = p) \/ Held(d, p)',
           \A m \in msgs' : m.op = "exchangeReply" /\ m.parent # None =>
               m \in msgs \/ Held(m.cap, m.parent)',
           \A v \in Vpe : pc'[v] = "answered" /\ parent'[cur'[v]] # None =>
               \/ /\ pc[v] = "answered" /\ cur'[v] = cur[v]
                  /\ parent'[cur[v]] = parent[cur[v]]
               \/ Found(cur'[v], parent'[cur'[v]])
    PROVE  NoEscape' /\ ObtainOK'
  <1>1. \A c, p : Found(c, p) <=> Held(c, p) \/ halted[Home[c]] # "no"
    BY DEF Found, Held, ToBeRevoked, InMsgs, InKids
  <1>2. \A c, p : Found(c, p)' <=> Held(c, p)' \/ halted'[Home[c]] # "no"
    BY DEF Found, Held, ToBeRevoked, InMsgs, InKids
  <1>3. \A c, p \in Cap : Found(c, p) /\ Derived(c, p)' => Found(c, p)'
    BY <1>1, <1>2, HomeType, SMTT(20) DEF Kept
  <1>4. \A d \in live : parent[d] # None => parent[d] \in Cap /\ Held(d, parent[d])
    BY SMTT(20) DEF NoEscape, Held, ToBeRevoked, InMsgs, InKids, TypeOK
  <1>5. ASSUME NEW d \in live', NEW p \in Cap, parent'[d] = p PROVE Held(d, p)'
    <2>1. CASE d \in live /\ parent[d] = p
      <3>1. d \in Cap /\ Held(d, p)
        BY <1>4, <2>1, ConstantsAssumption, SMTT(20) DEF TypeOK
      <3>2. Kept(d, p)
        BY <3>1, SMTT(20)
      <3>3. Derived(d, p)'
        BY <1>5 DEF Derived
      <3> QED BY <3>2, <3>3 DEF Kept
    <2> QED BY <1>5, <2>1
  <1>6. NoEscape'
    <2>1. \A d \in live' : parent'[d] # None => parent'[d] \in Cap
      BY DEF TypeOK
    <2> QED BY <1>5, <2>1 DEF NoEscape, Held, ToBeRevoked, InMsgs, InKids
  <1>7. ASSUME NEW m \in msgs', m.op = "exchangeReply", m.parent # None
        PROVE  Found(m.cap, m.parent)'
    <2>1. m.cap \in Cap /\ m.parent \in Cap
      BY <1>7, SMTT(20) DEF TypeOK, Message
    <2>2. Derived(m.cap, m.parent)'
      BY <1>7 DEF Derived
    <2>3. CASE m \in msgs
      BY <1>3, <1>7, <2>1, <2>2, <2>3 DEF ObtainOK
    <2> QED BY <1>2, <1>7, <2>3
  <1>8. ASSUME NEW v \in Vpe, NEW c, NEW p, pc'[v] = "answered", cur'[v] = c,
               parent'[c] = p, p # None
        PROVE  Found(c, p)'
    <2>1. c \in Cap /\ Owner[c] = v
      BY <1>8, SMTT(20) DEF Structure, WorkOK, Work
    <2>2. p \in Cap
      BY <1>8, <2>1, SMTT(20) DEF TypeOK
    <2>3. Derived(c, p)'
      BY <1>8, <2>1 DEF Derived, Answered
    <2>4. Found(c, p)
      BY <1>8 DEF ObtainOK
    <2> QED BY <1>3, <2>1, <2>2, <2>3, <2>4
  <1> QED BY <1>6, <1>7, <1>8 DEF ObtainOK

\* Escape: a kernelcall is handled.
LEMMA EscapeHandle ==
    ASSUME TypeOK, TypeOK', Structure, Structure', Escape, NEW m \in msgs, Handle(m)
    PROVE  Escape'
  <1>0. m \in Message /\ m.cap \in Cap /\ Owner[m.cap] \in Vpe
    BY HomeType DEF TypeOK, Message
  <1>1. RemoveChildOK'
    BY RemoveHandle DEF Escape
  <1>2. \A c, p \in Cap : Held(c, p) => Kept(c, p)
    BY HeldHandle DEF Escape
  <1>3. \A k \in Kernel : halted[k] # "no" => halted'[k] # "no"
    BY Zenon DEF Handle, HandleRevoke, HandleRevokeFinish, HandleRemoveChild, HandleExchange,
       HandleExchangeGone, HandleExchangeReply, Halt, TypeOK
  <1>4. \A d \in live' : d \in live /\ parent'[d] = parent[d]
    <2>1. CASE HandleExchangeReply(m)
      <3>1. m.op = "exchangeReply" /\ live' = live
            /\ parent' = [parent EXCEPT ![m.cap] = m.parent]
        BY <2>1 DEF HandleExchangeReply
      <3>2. m.cap \notin live
        BY <1>0, <3>1 DEF Structure, ExchangeOK, WorkOK, Work
      <3> QED BY <3>1, <3>2 DEF TypeOK
    <2> QED
      BY <2>1, Zenon DEF Handle, HandleRevoke, HandleRevokeFinish, HandleRemoveChild,
         HandleExchange, HandleExchangeGone, StartRec, Unset
  <1>5. \A n \in msgs' : n.op = "exchangeReply" /\ n.parent # None =>
           n \in msgs \/ Held(n.cap, n.parent)'
    <2>1. CASE HandleExchange(m)
      <3>1. m.parent \in Cap
        BY <2>1, SMTT(20) DEF HandleExchange, Structure, MsgOK
      <3>2. /\ live' = live
            /\ msgs' \subseteq msgs \cup
                 {ExchangeReply(m.cap, IF m.parent \in live THEN m.parent ELSE None)}
            /\ m.parent \in live => m.cap \in children'[m.parent]
        BY <2>1, <3>1 DEF HandleExchange, TypeOK
      <3>3. \A c, p : ExchangeReply(c, p).cap = c /\ ExchangeReply(c, p).parent = p
        BY DEF ExchangeReply
      <3> QED BY <3>2, <3>3 DEF Held
    <2>2. CASE HandleExchangeGone(m)
      <3>1. msgs' \subseteq msgs \cup {ExchangeReply(m.cap, None)}
        BY <2>2 DEF HandleExchangeGone
      <3> QED BY <3>1 DEF ExchangeReply
    <2>3. CASE ~HandleExchange(m) /\ ~HandleExchangeGone(m)
      <3>1. msgs' \subseteq msgs
        BY <2>3, ZenonT(30) DEF Handle, HandleRevoke, HandleRevokeFinish, HandleRemoveChild,
           HandleExchangeReply
      <3> QED BY <3>1
    <2> QED BY <2>1, <2>2, <2>3
  <1>6. \A v \in Vpe : pc'[v] = "answered" /\ parent'[cur'[v]] # None =>
           \/ /\ pc[v] = "answered" /\ cur'[v] = cur[v]
              /\ parent'[cur[v]] = parent[cur[v]]
           \/ Found(cur'[v], parent'[cur'[v]])
    <2>1. CASE HandleExchangeReply(m)
      <3>1. /\ m.op = "exchangeReply" /\ cur' = cur
            /\ parent' = [parent EXCEPT ![m.cap] = m.parent]
            /\ pc' = [pc EXCEPT ![Owner[m.cap]] = "answered"]
        BY <2>1 DEF HandleExchangeReply
      <3>2. cur[Owner[m.cap]] = m.cap
        BY <3>1, SMTT(20) DEF Structure, ExchangeOK
      <3>3. parent'[m.cap] = m.parent /\ (m.parent # None => Found(m.cap, m.parent))
        BY <1>0, <3>1, SMTT(20) DEF Escape, ObtainOK, TypeOK
      <3>4. ASSUME NEW v \in Vpe, v # Owner[m.cap], pc'[v] = "answered"
            PROVE  pc[v] = "answered" /\ parent'[cur[v]] = parent[cur[v]]
        <4>1. pc[v] = "answered"
          BY <3>1, <3>4 DEF TypeOK
        <4>2. Owner[cur[v]] = v /\ cur[v] \in Cap
          BY <4>1 DEF Structure, WorkOK, Work
        <4> QED BY <3>1, <3>4, <4>1, <4>2, SMTT(20) DEF TypeOK
      <3> QED BY <3>1, <3>2, <3>3, <3>4, SMTT(20)
    <2>2. CASE HandleRevokeFinish(m)
      <3>1. m.parent \in Cap
        BY <2>2, SMTT(20) DEF HandleRevokeFinish, Structure, MsgOK
      <3>2. rev[m.parent].tid \in Vpe \cup {None}
        BY <3>1 DEF TypeOK, Entry, NoEntry
      <3>3. /\ pc' = pc \/ pc' = [pc EXCEPT ![rev[m.parent].tid] = Woken(rev[m.parent].tid)]
            /\ cur' = cur /\ parent' = parent
        BY <2>2, Zenon DEF HandleRevokeFinish
      <3> QED BY <3>2, <3>3, WokenEffect
    <2> QED
      BY <2>1, <2>2, Zenon DEF Handle, HandleRevoke, HandleRemoveChild, HandleExchange,
         HandleExchangeGone
  <1>7. NoEscape' /\ ObtainOK'
    BY <1>2, <1>3, <1>4, <1>5, <1>6, EscapeStep, Zenon DEF Escape
  <1> QED BY <1>1, <1>7 DEF Escape

\* Escape: a step of the running thread.
LEMMA EscapeRunThread ==
    ASSUME TypeOK, TypeOK', Structure, Structure', Escape, NEW k \in Kernel, RunThread(k)
    PROVE  Escape'
  <1>1. RemoveChildOK'
    BY RemoveRunThread DEF Escape
  <1>2. \A c, p \in Cap : Held(c, p) => Kept(c, p)
    BY HeldRunThread, SMTT(20)
  <1>3. \A j \in Kernel : halted[j] # "no" => halted'[j] # "no"
    <2>1. \A v, c, p : TellParent(k, v, c, p) =>
             \A j \in Kernel : halted[j] # "no" => halted'[j] # "no"
      BY SMTT(20) DEF TellParent, Halt, TypeOK
    <2> QED
      BY <2>1, Zenon DEF RunThread, RevokeRemoteChild, RevokeLocalChild, ReturnToParent,
         ReturnToHandler, RootWait, RootReturn, NotifySubscriber, FinishEntry,
         FinishRoot, Halt, TypeOK
  <1>4. NoEscape' /\ ObtainOK'
    BY <1>2, <1>3, RunObtainsNothing, EscapeStep DEF Escape
  <1> QED BY <1>1, <1>4 DEF Escape

\* Escape: a thread continues or a system call begins.
LEMMA EscapeVpe ==
    ASSUME TypeOK, TypeOK', Structure, Structure', Escape,
           NEW v \in Vpe, Resume(v) \/ Syscall(v)
    PROVE  Escape'
  <1>1. RemoveChildOK'
    BY RemoveVpe DEF Escape
  <1>2. \A c, p \in Cap : Held(c, p) => Kept(c, p)
    BY HeldVpe, SMTT(20) DEF Kept
  <1>3. halted' = halted
    BY ZenonT(30) DEF Resume, ResumeRoot, ObtainResume, RevokeAll, Syscall, RevokeSyscall,
       RevokeUnused, Exit, ObtainLocal, ObtainRemote
  <1>4. \A n \in msgs' : n.op = "exchangeReply" => n \in msgs
    <2>1. \A c, p : Exchange(c, p).op # "exchangeReply"
      BY DEF Exchange
    <2>2. msgs' \subseteq msgs \/ \E c, p \in Cap : msgs' = msgs \cup {Exchange(c, p)}
      BY ObtainGoesOn, ZenonT(30) DEF Resume, ResumeRoot, RevokeAll, Syscall,
         RevokeSyscall, RevokeUnused, Exit, ObtainLocal, ObtainRemote
    <2> QED BY <2>1, <2>2
  <1>5. ASSUME NEW w \in Vpe, pc'[w] = "answered"
        PROVE  w # v /\ pc[w] = "answered" /\ cur'[w] = cur[w]
    BY <1>5, Zenon DEF Resume, ResumeRoot, ObtainResume, RevokeAll, Syscall, RevokeSyscall,
       RevokeUnused, Exit, ObtainLocal, ObtainRemote, MayObtain, TypeOK
  <1>6. CASE ObtainResume(v)
    <2>0. PICK c : c = cur[v]
      BY SMTT(20)
    <2>1. /\ pc[v] = "answered" /\ halted[VpeKernel[v]] = "no" /\ parent' = parent
          /\ live' = IF parent[c] = None THEN live ELSE live \cup {c}
      BY <1>6, <2>0, ObtainGoesOn, ZenonT(30) DEF ObtainResume, CanRun
    <2>2. c \in Cap /\ Home[c] = VpeKernel[v]
      BY <2>0, <2>1, ConstantsAssumption, SMTT(20) DEF Structure, WorkOK, Work, Home
    <2>3. parent[c] # None => parent[c] \in Cap /\ Held(c, parent[c])
      BY <2>0, <2>1, <2>2, SMTT(20) DEF Escape, ObtainOK, Found, Held, ToBeRevoked, InMsgs, InKids, TypeOK
    <2>4. ASSUME NEW p \in Cap, parent[c] = p PROVE Held(c, p)'
      <3>1. Held(c, p)
        BY <2>3, <2>4, ConstantsAssumption
      <3> QED BY <2>2, <3>1, HeldVpe
    <2>5. ASSUME NEW d \in live', NEW p \in Cap, parent'[d] = p
          PROVE  (d \in live /\ parent[d] = p) \/ Held(d, p)'
      <3>1. d \in live \/ d = c
        BY <2>1
      <3>2. CASE d = c
        BY <2>1, <2>4, <2>5, <3>2, SMTT(20)
      <3> QED BY <2>1, <2>5, <3>1, <3>2
    <2>6. NoEscape' /\ ObtainOK'
      BY <1>2, <1>3, <1>4, <1>5, <2>1, <2>5, EscapeStep, Zenon DEF Escape
    <2> QED BY <1>1, <2>6 DEF Escape
  <1>7. ASSUME NEW c \in Cap, NEW q \in Cap, ObtainLocal(v, c, q) PROVE Escape'
    <2>1. /\ live' = live \cup {c} /\ parent' = [parent EXCEPT ![c] = q]
          /\ children' = [children EXCEPT ![q] = @ \cup {c}] /\ q \in live
          /\ Owner[c] = v
      BY <1>7 DEF ObtainLocal, MayObtain
    <2>2. \A p \in Cap : parent'[c] = p => Held(c, p)'
      BY <2>1 DEF Held, TypeOK
    <2>3. \A d \in live', p \in Cap : parent'[d] = p =>
             (d \in live /\ parent[d] = p) \/ Held(d, p)'
      BY <2>1, <2>2, SMTT(20) DEF TypeOK
    <2>4. \A w \in Vpe : pc'[w] = "answered" => parent'[cur[w]] = parent[cur[w]]
      <3>1. ASSUME NEW w \in Vpe, pc'[w] = "answered"
            PROVE  cur[w] \in Cap /\ cur[w] # c
        <4>1. w # v /\ pc[w] \in Work
          BY <1>5, <3>1, Zenon DEF Work
        <4>2. cur[w] \in Cap /\ Owner[cur[w]] = w
          BY <4>1, Zenon DEF Structure, WorkOK
        <4> QED BY <2>1, <4>1, <4>2, Zenon
      <3> QED BY <2>1, <3>1, SMTT(20) DEF TypeOK
    <2>5. NoEscape' /\ ObtainOK'
      BY <1>2, <1>3, <1>4, <1>5, <2>3, <2>4, EscapeStep, ZenonT(30) DEF Escape
    <2> QED BY <1>1, <2>5 DEF Escape
  <1>8. CASE live' \subseteq live /\ parent' = parent
    <2>1. NoEscape' /\ ObtainOK'
      BY <1>2, <1>3, <1>4, <1>5, <1>8, EscapeStep, Zenon DEF Escape
    <2> QED BY <1>1, <2>1 DEF Escape
  <1>9. CASE \/ ResumeRoot(v) \/ RevokeAll(v) \/ Exit(v)
             \/ \E c \in Cap : RevokeSyscall(v, c) \/ RevokeUnused(v, c)
             \/ \E c, p \in Cap : ObtainRemote(v, c, p)
    <2>1. live' \subseteq live /\ parent' = parent
      BY <1>9, ZenonT(30) DEF ResumeRoot, RevokeAll, Exit, RevokeSyscall, RevokeUnused,
         ObtainRemote, StartRec, Unset
    <2> QED BY <1>8, <2>1, SMTT(20)
  <1> QED BY <1>6, <1>7, <1>9 DEF Resume, Syscall

\* In the initial trees every child is listed by its parent.
LEMMA EscapeInit == Init => Escape
  <1> SUFFICES ASSUME Init PROVE Escape
    OBVIOUS
  <1>1. RemoveChildOK /\ ObtainOK
    BY Zenon DEF Init, RemoveChildOK, ObtainOK
  <1>2. NoEscape
    BY ConstantsAssumption, SMTT(20) DEF Init, NoEscape
  <1> QED BY <1>1, <1>2 DEF Escape

\* A stuttering step preserves Escape.
LEMMA EscapeUnchanged == Escape /\ UNCHANGED vars => Escape'
  BY Zenon DEF vars, Escape, RemoveChildOK, Derived, Answered, ObtainOK, Found, NoEscape,
     ToBeRevoked, Pending

\* However revocations, obtains and exits of any number of VPEs on any number
\* of kernels interleave, a derived capability in a table is always listed by
\* its parent or about to be visited by a revocation that took the list over:
\* the handshake of exchangeOverSession (child pointer first, answer second),
\* the moving of the children in revoke_rec and the removal of a child pointer
\* by the kernel of a revoked child lose none.  Nothing is assumed about when
\* the VPEs refill a selector: kernelcalls about its earlier capability may
\* still be under way.
THEOREM NoneEscapes == Spec => []NoEscape
  <1>1. Init => TypeOK /\ Structure /\ Escape
    BY TypeInit, StructureInit, EscapeInit
  <1>2. TypeOK /\ Structure /\ Escape /\ [Next]_vars
           => (TypeOK /\ Structure /\ Escape)'
    <2> SUFFICES ASSUME TypeOK, Structure, Escape, [Next]_vars
                 PROVE  (TypeOK /\ Structure /\ Escape)'
      OBVIOUS
    <2>1. TypeOK' /\ Structure'
      BY TypeNext, StructureNext
    <2>2. Escape'
      BY <2>1, EscapeHandle, EscapeRunThread, EscapeVpe, EscapeUnchanged DEF Next
    <2> QED BY <2>1, <2>2
  <1>3. Escape => NoEscape
    BY DEF Escape
  <1> QED BY <1>1, <1>2, <1>3, PTL DEF Spec

=============================================================================
