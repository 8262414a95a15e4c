------------------------------ MODULE Endpoints ------------------------------
(***************************************************************************)
(* The endpoints of a VPE (libs/m3/com/EPMux.cc, Gate.h, RecvBuf.cc, and   *)
(* SyscallHandler::activate, com/RecvBufs.h in the kernel).  A VPE has more *)
(* gates than endpoints: the library gives an endpoint to the gate that is *)
(* used next and takes it from another.  The kernel configures the         *)
(* endpoint from the capability of the gate, remembers in the capability   *)
(* which endpoint that is, and invalidates the endpoint when the           *)
(* capability is revoked, of which the library learns nothing.  A gate for *)
(* sending can be activated only while the receive buffer it leads to is   *)
(* attached; the system call waits for that, also if another kernel is     *)
(* responsible for the buffer.                                             *)
(***************************************************************************)
EXTENDS Integers, FiniteSets

CONSTANTS
    Client,      \* VPEs with gates
    Gate,        \* names of the gates of a client
    Sel,         \* selectors of its table that hold gate capabilities
    Dest,        \* receive buffer [pe, ep] that a capability leads to, or NoBuffer
    NoBuffer,
    Place,       \* receive buffers of other VPEs
    KernelOf,    \* kernel of a PE
    EP_COUNT,
    RevokeHeld   \* whether capabilities are revoked while an activation has pointers to them

VARIABLES
    vpe,         \* per client: state of the library, its capabilities and endpoints
    attached,    \* receive buffers with F_ATTACHED
    waitlist,    \* per receive buffer the clients whose activation waits for it
    net          \* kernelcalls about receive buffers

vars == <<vpe, attached, waitlist, net>>

EP == 0..EP_COUNT - 1
FIRST_FREE_EP == 2
UNBOUND == -1
INVALID == "invalid"
NoGate == "none"
Receive == "receive"
NoCall == [op |-> "none"]

\* Receive buffers, of clients and of others.
Buffer == [pe : Client, ep : EP] \cup Place

Init ==
    /\ vpe = [c \in Client |->
                 [gates |-> [e \in EP |-> NoGate], epid |-> [g \in Gate |-> UNBOUND],
                  sel |-> [g \in Gate |-> INVALID], victim |-> 1, eps |-> 0..FIRST_FREE_EP - 1,
                  live |-> Sel, localepid |-> [s \in Sel |-> UNBOUND],
                  ep |-> [e \in EP |-> INVALID], call |-> NoCall, run |-> "run"]]
    /\ attached = {}
    /\ waitlist = [b \in Buffer |-> {}]
    /\ net = {}

--------------------------------------------------------------------------
\* Mutant: the old capability is told last.
Mut_do_activate(v, e, old, new) ==
    [v EXCEPT !.ep[e] = new,
              !.localepid = [s \in Sel |-> IF s \notin v.live THEN @[s]
                                           ELSE IF s = old THEN UNBOUND
                                           ELSE IF s = new THEN e ELSE @[s]]]

\* The kernel sets endpoint e of VPE v from capability new; old and new may be
\* null pointers.  A capability that was revoked meanwhile is written to
\* without effect.
do_activate(v, e, old, new) ==
    [v EXCEPT !.ep[e] = new,
              !.localepid = [s \in Sel |-> IF s \notin v.live THEN @[s]
                                           ELSE IF s = new THEN e
                                           ELSE IF s = old THEN UNBOUND ELSE @[s]]]

\* What the library does with the answer to an activation.
Bound(v, g, e) == [v EXCEPT !.gates[e] = g, !.epid[g] = e]
Unbound(v, g, e) == [v EXCEPT !.gates[e] = NoGate, !.epid[g] = UNBOUND]
Panic(v) == [v EXCEPT !.run = "panic"]
Returned(v, a, ok) ==
    LET w == [v EXCEPT !.call = NoCall] IN
    CASE a.op = "switch_to" -> IF ok THEN Bound(w, a.gate, a.ep) ELSE Panic(w)
      [] a.op = "switch_cap" ->
           IF a.newsel = INVALID THEN [Unbound(w, a.gate, a.ep) EXCEPT !.sel[a.gate] = INVALID]
           ELSE IF ok THEN [w EXCEPT !.sel[a.gate] = a.newsel] ELSE Panic(w)
      [] a.op = "remove" -> [Unbound(w, a.gate, a.ep) EXCEPT !.sel[a.gate] = INVALID]
      [] a.op = "retry" -> w

\* The end of an activation for which the buffer is attached, or gone.
Finished(v, ok) ==
    LET a == v.call IN
    Returned(IF ok THEN do_activate(v, a.ep, a.old, a.new) ELSE v, a, ok)

\* The clients that wait for the buffers bs of one PE are told; those of another
\* kernel by a message.
Waiting(bs) == UNION {waitlist[b] : b \in bs}
Near(c, bs) == \A b \in bs : KernelOf[c] = KernelOf[b.pe]
notify(bs, ok, now) ==
    /\ waitlist' = [b \in Buffer |-> IF b \in bs THEN {} ELSE waitlist[b]]
    /\ vpe' = [c \in Client |->
                  IF c \in Waiting(bs) /\ Near(c, bs) THEN Finished(now[c], ok) ELSE now[c]]
    /\ net' = net \cup {[op |-> "recvBufAttached", client |-> c, ok |-> ok] :
                            c \in {d \in Waiting(bs) : ~Near(d, bs)}}

--------------------------------------------------------------------------
\* The system call activate of client c, whose library is in state v.  In the
\* end it is answered, or the kernel subscribes it to a buffer of its own or
\* asks the kernel of the buffer.
Cap(v, s) == IF s \in v.live THEN s ELSE INVALID
activate(c, v, op, g, e, oldsel, newsel) ==
    LET old == Cap(v, oldsel)
        new == Cap(v, newsel)
        a == [op |-> op, gate |-> g, ep |-> e, newsel |-> newsel, old |-> old, new |-> new]
        b == Dest[new]
        goes == new = INVALID \/ b = NoBuffer
        near == KernelOf[b.pe] = KernelOf[c]
        done == Returned(do_activate(v, e, old, new), a, TRUE)
        waits == [v EXCEPT !.call = a]
    IN  \/ /\ old = INVALID /\ new = INVALID
           /\ vpe' = [vpe EXCEPT ![c] = Returned(v, a, FALSE)]
           /\ UNCHANGED <<waitlist, net>>
        \/ /\ ~(old = INVALID /\ new = INVALID)
           /\ IF goes THEN TRUE ELSE near /\ b \in attached
           /\ vpe' = [vpe EXCEPT ![c] = done]
           /\ UNCHANGED <<waitlist, net>>
        \/ /\ ~goes
           /\ near /\ b \notin attached
           /\ vpe' = [vpe EXCEPT ![c] = waits]
           /\ waitlist' = [waitlist EXCEPT ![b] = @ \cup {c}]
           /\ UNCHANGED net
        \/ /\ ~goes
           /\ ~near
           /\ vpe' = [vpe EXCEPT ![c] = waits]
           /\ net' = net \cup {[op |-> "recvBufisAttached", client |-> c]}
           /\ UNCHANGED waitlist

\* KernelcallHandler::recvBufisAttached on the kernel of the buffer.
recvBufisAttached ==
    \E m \in net :
        /\ m.op = "recvBufisAttached"
        /\ LET b == Dest[vpe[m.client].call.new] IN
           \/ /\ b \in attached
              /\ net' = (net \ {m}) \cup {[op |-> "recvBufAttached", client |-> m.client, ok |-> TRUE]}
              /\ UNCHANGED waitlist
           \/ /\ b \notin attached
              /\ waitlist' = [waitlist EXCEPT ![b] = @ \cup {m.client}]
              /\ net' = net \ {m}
        /\ UNCHANGED <<vpe, attached>>

\* KernelcallHandler::recvBufAttached, and the woken thread goes on.
recvBufAttached ==
    \E m \in net :
        /\ m.op = "recvBufAttached"
        /\ vpe' = [vpe EXCEPT ![m.client] = Finished(@, m.ok)]
        /\ net' = net \ {m}
        /\ UNCHANGED <<attached, waitlist>>

--------------------------------------------------------------------------
Idle(c) == vpe[c].run = "run" /\ vpe[c].call = NoCall

\* The first endpoint from the next victim on that may be multiplexed.
Turn(v, i) == (v.victim + i) % EP_COUNT
Free(v) == {i \in EP : Turn(v, i) \notin v.eps}
select_victim(v) == Turn(v, CHOOSE i \in Free(v) : \A j \in Free(v) : i <= j)

\* Mutant: the gate of the victim is not told.
Mut_Evicted(v, e) == [v EXCEPT !.victim = (e + 1) % EP_COUNT]

\* The gate of the victim loses it, and the next search begins behind it.
Evicted(v, e) ==
    [v EXCEPT !.epid = [g \in Gate |-> IF g = v.gates[e] THEN UNBOUND ELSE @[g]],
              !.victim = (e + 1) % EP_COUNT]
OldSel(v, e) == IF v.gates[e] = NoGate THEN INVALID ELSE v.sel[v.gates[e]]

\* A gate is used that has no endpoint.
switch_to(c, g) ==
    /\ Idle(c)
    /\ vpe[c].epid[g] = UNBOUND /\ vpe[c].sel[g] # INVALID
    /\ UNCHANGED attached
    /\ IF Free(vpe[c]) = {}
       THEN vpe' = [vpe EXCEPT ![c] = Panic(@)] /\ UNCHANGED <<waitlist, net>>
       ELSE \E e \in {select_victim(vpe[c])} :
                activate(c, Evicted(vpe[c], e), "switch_to", g, e, OldSel(vpe[c], e), vpe[c].sel[g])

\* A gate that has an endpoint is used, and the VPE it leads to has changed.
Reactivate(c, g) ==
    /\ Idle(c)
    /\ vpe[c].epid[g] # UNBOUND
    /\ vpe[c].ep[vpe[c].epid[g]] \in Sel
    /\ activate(c, vpe[c], "retry", g, vpe[c].epid[g], vpe[c].sel[g], vpe[c].sel[g])
    /\ UNCHANGED attached

\* Gate::rebind to a selector that no other gate has; a gate that is not in use
\* has none.
rebind(c, g, s) ==
    /\ Idle(c)
    /\ s # INVALID => \A h \in Gate : vpe[c].sel[h] # s
    /\ UNCHANGED attached
    /\ \/ /\ vpe[c].epid[g] = UNBOUND
          /\ vpe' = [vpe EXCEPT ![c].sel[g] = s]
          /\ UNCHANGED <<waitlist, net>>
       \/ /\ vpe[c].epid[g] # UNBOUND
          /\ activate(c, vpe[c], "switch_cap", g, vpe[c].epid[g], vpe[c].sel[g], s)

\* MsgCapability::revoke takes the endpoint of the capability away.
revoke(v, s) ==
    [v EXCEPT !.live = @ \ {s}, !.localepid[s] = UNBOUND,
              !.ep = [e \in EP |-> IF e = v.localepid[s] THEN INVALID ELSE @[e]]]

\* The destructor of a gate: it keeps the capability and gives up the endpoint,
\* or revokes the capability.
remove(c, g) ==
    /\ Idle(c)
    /\ vpe[c].epid[g] # UNBOUND
    /\ UNCHANGED attached
    /\ \/ activate(c, vpe[c], "remove", g, vpe[c].epid[g], vpe[c].sel[g], INVALID)
       \/ /\ vpe' = [vpe EXCEPT ![c] =
                        revoke([Unbound(@, g, @.epid[g]) EXCEPT !.sel[g] = INVALID], @.sel[g])]
          /\ UNCHANGED <<waitlist, net>>

--------------------------------------------------------------------------
\* RecvBuf::attach at the first endpoint that the VPE has not reserved: a gate
\* on it is deactivated before.
alloc_ep(v) == CHOOSE e \in EP \ v.eps : \A f \in EP \ v.eps : e <= f
reserve(v, e) ==
    IF v.gates[e] = NoGate THEN v
    ELSE LET old == Cap(v, OldSel(v, e))
             w == IF old = INVALID THEN v ELSE do_activate(v, e, old, INVALID)
         IN  Unbound(w, v.gates[e], e)
CreateBuffer(c) ==
    /\ Idle(c)
    /\ EP \ vpe[c].eps # {}
    /\ \E e \in {alloc_ep(vpe[c])} :
          /\ attached' = attached \cup {[pe |-> c, ep |-> e]}
          /\ notify({[pe |-> c, ep |-> e]}, TRUE,
                    [vpe EXCEPT ![c] = [reserve(@, e) EXCEPT !.eps = @ \cup {e}, !.ep[e] = Receive]])

\* RecvBuf::detach, and the endpoint is given free.
DeleteBuffer(c) ==
    /\ Idle(c)
    /\ \E b \in attached :
          /\ b.pe = c
          /\ attached' = attached \ {b}
          /\ notify({b}, FALSE, [vpe EXCEPT ![c].eps = @ \ {b.ep}, ![c].ep[b.ep] = INVALID])

\* VPE::exit, which ends every VPE that panics.
exit(c) ==
    /\ Idle(c) \/ vpe[c].run = "panic"
    /\ attached' = {b \in attached : b.pe # c}
    /\ notify({b \in Buffer : b.pe = c}, FALSE,
              [vpe EXCEPT ![c].run = "dead", ![c].ep = [e \in EP |-> INVALID]])

\* Mutant: nobody is told that the buffer is attached.
Mut_attach(b) ==
    /\ b \notin attached
    /\ attached' = attached \cup {b}
    /\ notify({}, TRUE, vpe)

\* Other VPEs attach their receive buffers, and detach them or exit.
attach(b) ==
    /\ b \notin attached
    /\ attached' = attached \cup {b}
    /\ notify({b}, TRUE, vpe)
detach(b) ==
    /\ attached' = attached \ {b}
    /\ notify({b}, FALSE, vpe)

\* A capability of a client is revoked by the VPE it comes from, and a new one
\* obtained at a selector that no gate has.
Held(c, s) == vpe[c].call # NoCall /\ s \in {vpe[c].call.old, vpe[c].call.new}
Revoked(c, s) ==
    /\ s \in vpe[c].live
    /\ Held(c, s) => RevokeHeld
    /\ vpe' = [vpe EXCEPT ![c] = revoke(@, s)]
    /\ UNCHANGED <<attached, waitlist, net>>
Obtained(c, s) ==
    /\ Idle(c)
    /\ s \notin vpe[c].live
    /\ \A g \in Gate : vpe[c].sel[g] # s
    /\ vpe' = [vpe EXCEPT ![c].live = @ \cup {s}]
    /\ UNCHANGED <<attached, waitlist, net>>

Library(c) ==
    \/ \E g \in Gate : switch_to(c, g) \/ Reactivate(c, g) \/ remove(c, g)
    \/ \E g \in Gate, s \in Sel \cup {INVALID} : rebind(c, g, s)
    \/ CreateBuffer(c) \/ DeleteBuffer(c) \/ exit(c)

Progress == recvBufisAttached \/ recvBufAttached

Next ==
    \/ Progress
    \/ \E c \in Client : Library(c) \/ \E s \in Sel : Revoked(c, s) \/ Obtained(c, s)
    \/ \E b \in Place : attach(b) \/ detach(b)

Spec == Init /\ [][Next]_vars /\ WF_vars(Progress)

--------------------------------------------------------------------------
\* A call that waits has one message or one subscription.
TypeOK ==
    /\ \A c \in Client :
          /\ vpe[c].gates \in [EP -> Gate \cup {NoGate}]
          /\ vpe[c].epid \in [Gate -> EP \cup {UNBOUND}]
          /\ vpe[c].localepid \in [Sel -> EP \cup {UNBOUND}]
          /\ vpe[c].ep \in [EP -> Sel \cup {INVALID, Receive}]
          /\ Cardinality({m \in net : m.client = c} \cup {b \in Buffer : c \in waitlist[b]})
               = IF vpe[c].call = NoCall THEN 0 ELSE 1
    /\ attached \subseteq Buffer

\* An endpoint of a VPE is configured from a capability exactly as long as that
\* exists, and the capability knows it: the endpoint that MsgCapability::revoke
\* invalidates is its own, and no other endpoint outlives the capability.
EndpointHasCap ==
    \A c \in Client, e \in EP, s \in Sel :
        LET v == vpe[c] IN
        /\ v.ep[e] = s => s \in v.live /\ v.localepid[s] = e
        /\ v.localepid[s] = e => v.ep[e] = s \/ v.run = "dead"

\* A gate that EPMux takes for bound, and whose capability exists, can be used:
\* the endpoint is configured from its capability and no other.
BoundIsUsable ==
    \A c \in Client, g \in Gate :
        LET v == vpe[c] IN
        (Idle(c) /\ v.epid[g] # UNBOUND /\ v.sel[g] \in v.live) => v.ep[v.epid[g]] = v.sel[g]

\* An activation does not wait forever for a receive buffer that stays attached,
\* whichever kernel is responsible for it.
Stuck(c) == vpe[c].call # NoCall /\ Dest[vpe[c].call.new] \in attached
ActivateReturns == \A c \in Client : Stuck(c) ~> ~Stuck(c)
=============================================================================
