------------------------------- MODULE Threads -------------------------------
(***************************************************************************)
(* The threads of a kernel (ThreadManager) and the loop that each of them  *)
(* runs (WorkLoop::run).  Threads are cooperative: one runs until its      *)
(* handler waits for an answer, and another one goes on with the loop.     *)
(* Every handler waits for the event that is the id of its thread; the     *)
(* first thread of a kernel that another one has started waits for event 0 *)
(* before it enters its loop.                                              *)
(*                                                                         *)
(* A request is a system call or a kernelcall.  A client is a VPE or one of*)
(* the message slots that another kernel has; it has one request at a time,*)
(* so a kernel may have several.  Of a handler remains that it waits for   *)
(* answers.                                                                *)
(***************************************************************************)
EXTENDS Integers, Sequences, SequencesExt

CONSTANTS
    krnlThreads,  \* the number of threads; thread 1 runs main
    GateCount,    \* the loop polls so many gates; kernelcalls come to the first
    GateOf,       \* the gate of a client
    MaxCalls,     \* bound: requests of a client
    MaxWaits      \* bound: how often a handler waits

VARIABLES
    current, ready, blocked, sleep,  \* the ThreadManager
    event,     \* Thread::_event
    at,        \* the place of a thread in its loop
    serving,   \* the client that the handler of a thread works for
    waits,     \* how often this handler has waited
    inbox,     \* the messages that are at a gate
    asked,     \* the events that another kernel or a service will answer
    calls,     \* the requests that a client has sent
    returned   \* how many of them are replied to

thrdVars == <<current, ready, blocked, sleep, event>>
vars == <<thrdVars, at, serving, waits, inbox, asked, calls, returned>>

Thread == 1 .. krnlThreads
Client == DOMAIN GateOf

\* The places: in main before the loop, at DTU::wait, at a gate, at yield.
InMain == -1
AtWait == 0
AtYield == GateCount + 1

Null == 0       \* no thread, and the event of the first thread
Main == "main"  \* what the first thread does before its loop
None == "none"

\* main creates all other threads.
Init ==
    /\ current = 1
    /\ ready = << >> /\ blocked = << >>
    /\ sleep = [i \in 1 .. (krnlThreads - 1) |-> i + 1]
    /\ event = [t \in Thread |-> Null]
    /\ at = [t \in Thread |-> IF t = 1 THEN InMain ELSE AtWait]
    /\ serving = [t \in Thread |-> IF t = 1 THEN Main ELSE None]
    /\ waits = [t \in Thread |-> 0]
    /\ inbox = [g \in 1 .. GateCount |-> << >>]
    /\ asked = {}
    /\ calls = [c \in Client |-> 0]
    /\ returned = [c \in Client |-> 0]

--------------------------------------------------------------------------
(***************************************************************************)
(* ThreadManager.                                                          *)
(***************************************************************************)
\* A list without its first thread; there is none in an empty one.
remove_first(s) == IF s = << >> THEN Null ELSE Head(s)
Rest(s) == IF s = << >> THEN s ELSE Tail(s)

\* The thread waits, and another one that is ready or else one that sleeps runs.
Mut_wait_for(e) ==
    /\ event' = [event EXCEPT ![current] = e]
    /\ blocked' = Append(blocked, current)
    /\ current' = remove_first(sleep)
    /\ sleep' = Rest(sleep) /\ UNCHANGED ready
wait_for(e) ==
    /\ event' = [event EXCEPT ![current] = e]
    /\ blocked' = Append(blocked, current)
    /\ IF ready # << >>
         THEN current' = remove_first(ready) /\ ready' = Rest(ready) /\ UNCHANGED sleep
         ELSE current' = remove_first(sleep) /\ sleep' = Rest(sleep) /\ UNCHANGED ready

yield ==
    IF ready # << >>
      THEN /\ sleep' = <<current>> \o sleep
           /\ current' = remove_first(ready) /\ ready' = Rest(ready)
           /\ UNCHANGED <<blocked, event>>
      ELSE UNCHANGED thrdVars

\* All threads that wait for the event become ready.
notify(e) ==
    LET woken(t) == event[t] = e
        others(t) == event[t] # e IN
    /\ ready' = ready \o SelectSeq(blocked, woken)
    /\ blocked' = SelectSeq(blocked, others)
    /\ UNCHANGED <<current, sleep, event>>

--------------------------------------------------------------------------
(***************************************************************************)
(* WorkLoop::run of the current thread, and its handlers.                  *)
(***************************************************************************)
Loops == current # Null /\ serving[current] = None
Handles == current # Null /\ serving[current] # None
Advance == at' = [at EXCEPT ![current] = @ + 1]

\* DTU::wait: the CPU halts as long as there are no messages.
Wait ==
    /\ Loops /\ at[current] = AtWait
    /\ \E g \in DOMAIN inbox : inbox[g] # << >>
    /\ Advance
    /\ UNCHANGED <<thrdVars, serving, waits, inbox, asked, calls, returned>>

\* At each gate, the loop takes one message.  An answer wakes the thread up.
Poll ==
    /\ Loops
    /\ at[current] \in DOMAIN inbox
    /\ inbox[at[current]] = << >>
    /\ Advance
    /\ UNCHANGED <<thrdVars, serving, waits, inbox, asked, calls, returned>>

Fetch(op) ==
    /\ Loops
    /\ at[current] \in DOMAIN inbox
    /\ inbox[at[current]] # << >>
    /\ Head(inbox[at[current]]).op = op
    /\ inbox' = [inbox EXCEPT ![at[current]] = Tail(@)]
    /\ UNCHANGED <<asked, calls, returned>>

HandleCall ==
    /\ Fetch("call")
    /\ serving' = [serving EXCEPT ![current] = Head(inbox[at[current]]).arg]
    /\ waits' = [waits EXCEPT ![current] = 0]
    /\ UNCHANGED <<thrdVars, at>>

HandleAnswer ==
    /\ Fetch("answer")
    /\ notify(Head(inbox[at[current]]).arg)
    /\ Advance
    /\ UNCHANGED <<serving, waits>>

\* The handler asks someone and waits.
Ask ==
    LET e == IF serving[current] = Main THEN Null ELSE current IN
    /\ Handles
    /\ waits[current] < IF serving[current] = Main THEN 1 ELSE MaxWaits
    /\ wait_for(e)
    /\ asked' = asked \cup {e}
    /\ waits' = [waits EXCEPT ![current] = @ + 1]
    /\ UNCHANGED <<at, serving, inbox, calls, returned>>

\* The handler replies and the thread goes on with its loop.
Reply ==
    /\ Handles
    /\ returned' = IF serving[current] = Main THEN returned
                   ELSE [returned EXCEPT ![serving[current]] = @ + 1]
    /\ serving' = [serving EXCEPT ![current] = None]
    /\ Advance
    /\ UNCHANGED <<thrdVars, waits, inbox, asked, calls>>

Yield ==
    /\ Loops /\ at[current] = AtYield
    /\ at' = [at EXCEPT ![current] = AtWait]
    /\ yield
    /\ UNCHANGED <<serving, waits, inbox, asked, calls, returned>>

--------------------------------------------------------------------------
(***************************************************************************)
(* The others.  VPEs run after main has loaded them.                       *)
(***************************************************************************)
Request(c) ==
    /\ calls[c] = returned[c] /\ calls[c] < MaxCalls
    /\ GateOf[c] = 1 \/ serving[1] # Main
    /\ calls' = [calls EXCEPT ![c] = @ + 1]
    /\ inbox' = [inbox EXCEPT ![GateOf[c]] = Append(@, [op |-> "call", arg |-> c])]
    /\ UNCHANGED <<thrdVars, at, serving, waits, asked, returned>>

Answer(e) ==
    /\ e \in asked
    /\ asked' = asked \ {e}
    /\ inbox' = [inbox EXCEPT ![1] = Append(@, [op |-> "answer", arg |-> e])]
    /\ UNCHANGED <<thrdVars, at, serving, waits, calls, returned>>

Progress ==
    \/ Wait \/ Poll \/ HandleCall \/ HandleAnswer \/ Ask \/ Reply \/ Yield
    \/ \E e \in asked : Answer(e)
Next == Progress \/ \E c \in Client : Request(c)

Spec == Init /\ [][Next]_vars /\ WF_vars(Progress)

--------------------------------------------------------------------------
(***************************************************************************)
(* Properties.                                                             *)
(***************************************************************************)
\* The places are those of the loop, and every thread is in exactly one list of
\* the ThreadManager or runs.
TypeOK ==
    LET all == <<current>> \o ready \o blocked \o sleep IN
    /\ at \in [Thread -> InMain .. AtYield]
    /\ Len(all) = krnlThreads /\ IsInjective(all)
    /\ \A t \in Thread : serving[t] \in Client \cup {Main, None}

\* The kernel halts in DTU::wait only if no thread is ready, as a ready one would
\* sleep until the next message comes; a handler that waits always finds a thread
\* to switch to, so krnlThreads are enough; and an answer comes when the thread it
\* is for waits already, as notify would be lost otherwise.
HaltsIdle ==
    /\ current # Null
    /\ at[current] = AtWait => ready = << >>
    /\ \A g \in DOMAIN inbox : \A i \in DOMAIN inbox[g] :
         inbox[g][i].op = "answer" =>
           \E t \in ToSet(blocked) : event[t] = inbox[g][i].arg

\* Every request is replied to, as soon as what its handler asks is answered.
CallsReturn == \A c \in Client : calls[c] > returned[c] ~> calls[c] = returned[c]
=============================================================================
