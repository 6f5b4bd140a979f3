-------------------------- MODULE EventLoopProofs --------------------------
(***************************************************************************)
(* What an edge-triggered server may rely on, for any number of            *)
(* descriptors, any bursts and any backlog.                                *)
(***************************************************************************)
EXTENDS EventLoop, SequenceTheorems, TLAPS

(* The inductive invariant: besides the types, the listening socket is     *)
(* reported only while a connection waits, and NoLostWakeup.               *)
LoopInv ==
  /\ TypeOK
  /\ Listener \in batch => backlog > 0
  /\ NoLostWakeup

LEMMA ListenerIsNoClient ==
  Listener \notin Fd
BY EventLoopConstants DEF Listener

(* What a recv leaves is a sequence of lines again. *)
LEMMA RestIsLines ==
  ASSUME TypeOK, NEW f \in Fd
  PROVE  Rest(f) \in Seq(Line)
<1>1. /\ input[f] \in Seq(Line)
      /\ Len(input[f]) \in Nat
      /\ BufLines + 1 \in Nat \ {0}
  BY EventLoopConstants, LenProperties DEF TypeOK
<1>. QED
  BY <1>1, SubSeqProperties DEF Rest

LEMMA InitInv == Init => LoopInv
BY EventLoopConstants DEF Init, LoopInv, TypeOK, NoLostWakeup

LEMMA DialInv ==
  ASSUME LoopInv, Dial
  PROVE  LoopInv'
BY EventLoopConstants DEF LoopInv, TypeOK, NoLostWakeup, Dial

LEMMA SendInv ==
  ASSUME LoopInv, NEW f \in Fd, Send(f)
  PROVE  LoopInv'
<1>1. PICK line \in Line : input' = [input EXCEPT ![f] = Append(@, line)]
  BY DEF Send
<1>2. Append(input[f], line) \in Seq(Line)
  BY AppendProperties DEF LoopInv, TypeOK
<1>3. f \in clients
  BY DEF LoopInv, TypeOK, Send
<1>. QED
  BY <1>1, <1>2, <1>3 DEF LoopInv, TypeOK, NoLostWakeup, Send

LEMMA HangUpInv ==
  ASSUME LoopInv, NEW f \in Fd, HangUp(f)
  PROVE  LoopInv'
BY DEF LoopInv, TypeOK, NoLostWakeup, HangUp

LEMMA WaitInv ==
  ASSUME LoopInv, Wait
  PROVE  LoopInv'
<1>1. ready' = {} /\ batch' = Pending /\ batch = {}
  BY DEF Wait
<1>2. Pending \subseteq clients \cup {Listener} /\ ready \subseteq Pending
  BY DEF LoopInv, TypeOK, Pending
<1>3. Listener \in Pending => backlog > 0
  BY ListenerIsNoClient DEF LoopInv, TypeOK, Pending
<1>. QED
  BY <1>1, <1>2, <1>3 DEF LoopInv, TypeOK, NoLostWakeup, Wait

LEMMA AcceptInv ==
  ASSUME LoopInv, Accept
  PROVE  LoopInv'
<1>1. PICK f \in Fd \ clients :
        /\ peer' = [peer EXCEPT ![f] = "open"]
        /\ clients' = clients \cup {f}
  BY DEF Accept
<1>2. backlog > 0 /\ input[f] = <<>>
  BY <1>1 DEF LoopInv, TypeOK, Accept
<1>3. TypeOK'
  BY <1>1, <1>2, EventLoopConstants DEF LoopInv, TypeOK, Accept
<1>4. NoLostWakeup'
  BY <1>1, <1>2, ListenerIsNoClient DEF LoopInv, TypeOK, NoLostWakeup, Accept
<1>. QED
  BY <1>1, <1>3, <1>4 DEF LoopInv, TypeOK, Accept

LEMMA AcceptFailsInv ==
  ASSUME LoopInv, AcceptFails
  PROVE  LoopInv'
BY ListenerIsNoClient DEF LoopInv, TypeOK, NoLostWakeup, AcceptFails

(* A client that is removed takes its input and its events with it; what   *)
(* is known of the others does not change.                                 *)
LEMMA RemovedInv ==
  ASSUME LoopInv, NEW f \in Fd, RemoveClient(f), backlog' = backlog,
         batch' \subseteq batch \ {f}, missed' \subseteq clients \ {f},
         \A g \in clients \ {f} :
           input[g] # <<>> => g \in ready \cup batch' \cup missed'
  PROVE  LoopInv'
<1>1. TypeOK'
  BY EmptySeq DEF LoopInv, TypeOK, RemoveClient
<1>2. NoLostWakeup'
  BY DEF LoopInv, TypeOK, NoLostWakeup, RemoveClient
<1>. QED
  BY <1>1, <1>2 DEF LoopInv, TypeOK, RemoveClient

LEMMA ReadInv ==
  ASSUME LoopInv, NEW f \in Fd, Read(f)
  PROVE  LoopInv'
<1>1. batch' = batch \ {f} /\ backlog' = backlog /\ f \in clients
  BY ListenerIsNoClient DEF LoopInv, TypeOK, Read, AfterHandler
<1>2. missed' = (missed \ {f}) \cup { g \in {f} : input'[g] # <<>> /\ g \notin ready }
  BY DEF Read
<1>3. CASE input' = [input EXCEPT ![f] = Rest(f)] /\ UNCHANGED <<peer, ready, clients>>
  <2>1. Rest(f) \in Seq(Line)
    BY RestIsLines DEF LoopInv
  <2>2. TypeOK'
    BY <1>1, <1>2, <1>3, <2>1, ListenerIsNoClient DEF LoopInv, TypeOK
  <2>3. NoLostWakeup'
    BY <1>1, <1>2, <1>3 DEF LoopInv, TypeOK, NoLostWakeup
  <2>. QED
    BY <1>1, <1>3, <2>2, <2>3, ListenerIsNoClient DEF LoopInv, TypeOK
<1>4. CASE RemoveClient(f)
  <2>1. input'[f] = <<>>
    BY <1>4 DEF LoopInv, TypeOK, RemoveClient
  <2>2. missed' = missed \ {f}
    BY <1>2, <2>1
  <2>. QED
    BY <1>1, <1>4, <2>2, RemovedInv DEF LoopInv, TypeOK, NoLostWakeup
<1>. QED
  BY <1>3, <1>4 DEF Read

LEMMA ReadQuitInv ==
  ASSUME LoopInv, NEW f \in Fd, ReadQuit(f)
  PROVE  LoopInv'
<1>1. /\ RemoveClient(f) /\ batch' = {} /\ backlog' = backlog
      /\ missed' = (missed \cup (batch \ (ready \cup {Listener}))) \ {f}
  BY DEF ReadQuit
<1>2. missed' \subseteq clients \ {f}
  BY <1>1 DEF LoopInv, TypeOK
<1>3. ASSUME NEW g \in clients \ {f}, input[g] # <<>>
      PROVE  g \in ready \cup batch' \cup missed'
  BY <1>1, <1>3, ListenerIsNoClient DEF LoopInv, TypeOK, NoLostWakeup
<1>. QED
  BY <1>1, <1>2, <1>3, RemovedInv

(* Peers and server in any order keep descriptors, batch and ready list    *)
(* in agreement.                                                           *)
THEOREM LoopInvHolds == Spec => []LoopInv
<1>1. LoopInv /\ [Next]_vars => LoopInv'
  <2>. SUFFICES ASSUME LoopInv, [Next]_vars
                PROVE  LoopInv'
    OBVIOUS
  <2>1. CASE Peers
    BY <2>1, DialInv, SendInv, HangUpInv DEF Peers
  <2>2. CASE Server
    BY <2>2, WaitInv, AcceptInv, AcceptFailsInv, ReadInv, ReadQuitInv DEF Server
  <2>3. CASE UNCHANGED vars
    BY <2>3 DEF LoopInv, TypeOK, NoLostWakeup, vars
  <2>. QED
    BY <2>1, <2>2, <2>3 DEF Next
<1>. QED
  BY <1>1, InitInv, PTL DEF Spec
-----------------------------------------------------------------------------
(* The map of clients is the set of open descriptors, whatever the peers   *)
(* do, and of a descriptor that is no client nothing is on the ready list, *)
(* in the batch or unread, so that its next owner inherits nothing.        *)
THEOREM LoopTyped == Spec => []TypeOK
<1>1. LoopInv => TypeOK
  BY DEF LoopInv
<1>. QED
  BY <1>1, LoopInvHolds, PTL

(* Unread input always has an event on its way, except after a recv that   *)
(* left some, or a batch that was cut short.                               *)
THEOREM WakeupsNotLost == Spec => []NoLostWakeup
<1>1. LoopInv => NoLostWakeup
  BY DEF LoopInv
<1>. QED
  BY <1>1, LoopInvHolds, PTL
-----------------------------------------------------------------------------
(* A lost event is not on its way after all. *)
Lost == missed \cap (ready \cup batch) = {}

LEMMA InitLost == Init => Lost
BY DEF Init, Lost

LEMMA PeersLose ==
  ASSUME LoopInv, Lost, Peers
  PROVE  Lost'
<1>1. CASE Dial
  BY <1>1 DEF Lost, Dial
<1>2. ASSUME NEW f \in Fd, Send(f)
      PROVE  Lost'
  BY <1>2 DEF Lost, Send
<1>3. ASSUME NEW f \in Fd, HangUp(f)
      PROVE  Lost'
  BY <1>3 DEF Lost, HangUp
<1>. QED
  BY <1>1, <1>2, <1>3 DEF Peers

(* Removing f takes it off every list. *)
LEMMA RemovedLoses ==
  ASSUME Lost, NEW f, RemoveClient(f), batch' \subseteq batch,
         missed' \subseteq (missed \cup (batch \ ready)) \ {f}, missed' \cap batch' = {}
  PROVE  Lost'
BY DEF Lost, RemoveClient

LEMMA ServerLoses ==
  ASSUME LoopInv, Lost, Server
  PROVE  Lost'
<1>1. missed \subseteq clients /\ clients \subseteq Fd
  BY DEF LoopInv, TypeOK
<1>2. CASE Wait
  BY <1>1, <1>2, ListenerIsNoClient DEF Lost, Wait, Pending
<1>3. CASE Accept
  BY <1>3 DEF Lost, Accept
<1>4. CASE AcceptFails
  BY <1>4 DEF Lost, AcceptFails
<1>5. ASSUME NEW f \in Fd, Read(f)
      PROVE  Lost'
  <2>1. /\ batch' = batch \ {f}
        /\ missed' = (missed \ {f}) \cup { g \in {f} : input'[g] # <<>> /\ g \notin ready }
    BY <1>5 DEF Read, AfterHandler
  <2>2. CASE ready' = ready
    BY <2>1, <2>2 DEF Lost
  <2>3. CASE RemoveClient(f)
    <3>1. ready' = ready \ {f}
      BY <2>3 DEF RemoveClient
    <3>. QED
      BY <2>1, <3>1 DEF Lost
  <2>. QED
    BY <1>5, <2>2, <2>3 DEF Read
<1>6. ASSUME NEW f \in Fd, ReadQuit(f)
      PROVE  Lost'
  BY <1>6, RemovedLoses DEF ReadQuit
<1>. QED
  BY <1>2, <1>3, <1>4, <1>5, <1>6 DEF Server

(* Whatever puts a client on the ready list or in the batch ends its being *)
(* stranded, and what strands it takes it off both.                        *)
THEOREM LostHolds == Spec => []Lost
<1>1. LoopInv /\ Lost /\ [Next]_vars => Lost'
  <2>1. UNCHANGED vars /\ Lost => Lost'
    BY DEF Lost, vars
  <2>. QED
    BY <2>1, PeersLose, ServerLoses DEF Next
<1>. QED
  BY <1>1, InitLost, LoopInvHolds, PTL DEF Spec

Untouched(f) == f \in missed' /\ input'[f] = input[f] /\ peer'[f] = peer[f]

(* What the server does, it does to clients in its batch. *)
LEMMA ServerLeaves ==
  ASSUME LoopInv, Lost, Server, NEW f \in missed
  PROVE  Untouched(f)
<1>1. f \in clients /\ f \in Fd /\ f \notin batch
  BY DEF LoopInv, TypeOK, Lost
<1>2. CASE Wait
  BY <1>2 DEF Untouched, Wait
<1>3. CASE Accept
  BY <1>1, <1>3 DEF Untouched, Accept, LoopInv, TypeOK
<1>4. CASE AcceptFails
  BY <1>4 DEF Untouched, AcceptFails
<1>5. ASSUME NEW g \in Fd, Read(g)
      PROVE  Untouched(f)
  <2>1. f # g /\ f \in missed'
    BY <1>1, <1>5 DEF Read
  <2>2. input'[f] = input[f] /\ peer'[f] = peer[f]
    BY <1>1, <1>5, <2>1 DEF Read, RemoveClient, LoopInv, TypeOK
  <2>. QED
    BY <2>1, <2>2 DEF Untouched
<1>6. ASSUME NEW g \in Fd, ReadQuit(g)
      PROVE  Untouched(f)
  <2>1. f # g /\ f \in missed'
    BY <1>1, <1>6 DEF ReadQuit
  <2>2. input'[f] = input[f] /\ peer'[f] = peer[f]
    BY <1>1, <1>6, <2>1 DEF ReadQuit, RemoveClient, LoopInv, TypeOK
  <2>. QED
    BY <2>1, <2>2 DEF Untouched
<1>. QED
  BY <1>2, <1>3, <1>4, <1>5, <1>6 DEF Server

(* Nor does what one peer does reach another. *)
LEMMA PeersLeave ==
  ASSUME LoopInv, Peers, NEW f \in missed
  PROVE  Untouched(f) \/ Send(f) \/ HangUp(f)
<1>1. f \in Fd
  BY DEF LoopInv, TypeOK
<1>2. CASE Dial
  BY <1>2 DEF Untouched, Dial
<1>3. ASSUME NEW g \in Fd, Send(g), g # f
      PROVE  Untouched(f)
  BY <1>1, <1>3 DEF Untouched, Send, LoopInv, TypeOK
<1>4. ASSUME NEW g \in Fd, HangUp(g), g # f
      PROVE  Untouched(f)
  BY <1>1, <1>4 DEF Untouched, HangUp, LoopInv, TypeOK
<1>. QED
  BY <1>2, <1>3, <1>4 DEF Peers

(* A client whose event was lost stays as it is until it acts itself; poll *)
(* never comes back to it, not even when another client's event does.      *)
THEOREM StrandedAreLeft == Spec => StrandedWait
<1>1. LoopInv /\ Lost /\ [Next]_vars =>
        [\A f \in missed :
           \/ f \in missed' /\ input'[f] = input[f] /\ peer'[f] = peer[f]
           \/ Send(f) \/ HangUp(f)]_vars
  BY PeersLeave, ServerLeaves DEF Next, Untouched
<1>. QED
  BY <1>1, LoopInvHolds, LostHolds, PTL DEF Spec, StrandedWait
=============================================================================
