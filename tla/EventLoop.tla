----------------------------- MODULE EventLoop -----------------------------
(***************************************************************************)
(* The server's event loop (Server::poll, Handler::acceptClient and        *)
(* Handler::clientWrite) between the kernel's epoll instance and the       *)
(* peers.  What a command does is the business of ChannelServer; here a    *)
(* line is either one that ends the connection or one that does not.       *)
(*                                                                         *)
(* Clients are registered with EPOLLET: an event is reported once per       *)
(* arrival, not as long as there is something to read.  The listening      *)
(* socket is registered without it.                                        *)
(***************************************************************************)
EXTENDS Naturals, Sequences, FiniteSets, SequencesExt

CONSTANTS
  Fd,         \* descriptors the kernel hands out for connections
  Line,       \* the lines peers send: a subset of {"quit", "other"}
  BufLines,   \* lines one recv of BUFSIZ bytes returns at most
  MaxInput,   \* bound: lines a peer has in flight at once
  MaxBacklog  \* bound: connections waiting to be accepted

ASSUME EventLoopConstants ==
  /\ Fd \subseteq Nat \ {0}
  /\ Line \subseteq {"quit", "other"}
  /\ BufLines \in Nat \ {0} /\ MaxInput \in Nat /\ MaxBacklog \in Nat

Listener == 0

VARIABLES
  backlog,   \* connections the kernel has completed but not handed over
  peer,      \* the other end of each descriptor: "none", "open" or "closed"
  input,     \* unread lines in each socket's receive buffer
  ready,     \* the epoll ready list: descriptors with an unreported edge
  batch,     \* the events of the last epoll_wait not yet handled
  clients,   \* Server::_clients
  missed     \* history: descriptors with input whose event was lost

vars == <<backlog, peer, input, ready, batch, clients, missed>>

(* Types, and: the map of clients holds exactly the descriptors that are   *)
(* open (addClient after accept4, erase before close in removeClient), and *)
(* of the others nothing is reported or unread: a number that is handed    *)
(* out again starts afresh, a batch under way included.                    *)
TypeOK ==
  /\ backlog \in 0 .. MaxBacklog
  /\ peer \in [Fd -> {"none", "open", "closed"}]
  /\ input \in [Fd -> Seq(Line)]
  /\ clients = { f \in Fd : peer[f] # "none" }
  /\ ready \subseteq clients
  /\ batch \subseteq clients \cup {Listener}
  /\ \A f \in Fd \ clients : input[f] = <<>>
  /\ missed \subseteq clients

Init ==
  /\ backlog = 0
  /\ peer = [f \in Fd |-> "none"]
  /\ input = [f \in Fd |-> <<>>]
  /\ ready = {} /\ batch = {} /\ clients = {} /\ missed = {}
-----------------------------------------------------------------------------
EventTypes == <<"IN", "HUP", "RDHUP">>

(* Client::setHandler for a word with the given bits: its switch knows     *)
(* single bits only and ignores any other word.                            *)
SetHandler(handlers, bits) ==
  IF Cardinality(bits) = 1 THEN handlers \cup bits ELSE handlers

(* The events an accepted client has a handler for. *)
Handlers == SetHandler(SetHandler({}, {"IN"}), {"RDHUP", "HUP"})

(* _reloadHandler: a handled type discards the bits of those before it, an *)
(* unhandled one is added, but not while no type has been handled yet.     *)
Mask ==
  {"ET"} \cup
  { EventTypes[i] : i \in
      { i \in 1 .. 3 : \E j \in 1 .. i :
          /\ EventTypes[j] \in Handlers
          /\ \A k \in j + 1 .. 3 : EventTypes[k] \notin Handlers } }

(* The two bits of `event & (EPOLLRDHUP & EPOLLHUP)', poll's own test for  *)
(* a closed connection, have nothing in common.                            *)
ClosedBits == {"RDHUP"} \cap {"HUP"}

(* What epoll reports of a client that has something to be read: an end of *)
(* file is readable, too.                                                  *)
Reported(f) ==
  Mask \cap ({"IN"} \cup IF peer[f] = "closed" THEN {"RDHUP", "HUP"} ELSE {})
-----------------------------------------------------------------------------
(* The peers, at any time. *)
Dial ==
  /\ backlog < MaxBacklog
  /\ backlog' = backlog + 1
  /\ UNCHANGED <<peer, input, ready, batch, clients, missed>>

Send(f) ==
  /\ peer[f] = "open" /\ Len(input[f]) < MaxInput
  /\ \E line \in Line : input' = [input EXCEPT ![f] = Append(@, line)]
  /\ ready' = ready \cup {f}
  /\ missed' = missed \ {f}
  /\ UNCHANGED <<backlog, peer, batch, clients>>

HangUp(f) ==
  /\ peer[f] = "open"
  /\ peer' = [peer EXCEPT ![f] = "closed"]
  /\ ready' = ready \cup {f}
  /\ missed' = missed \ {f}
  /\ UNCHANGED <<backlog, input, batch, clients>>
-----------------------------------------------------------------------------
(* Mutant of Pending: the listening socket waits for the clients.          *)
PendingClientsFirst ==
  IF ready = {} /\ backlog > 0 THEN {Listener} ELSE ready

(* Mutant of Pending: clients are registered without EPOLLET. *)
PendingLevel ==
  ready \cup { f \in clients : input[f] # <<>> } \cup IF backlog > 0 THEN {Listener} ELSE {}

(* What epoll_wait has to report. *)
Pending == ready \cup IF backlog > 0 THEN {Listener} ELSE {}

(* poll: epoll_wait.  It takes the client descriptors off the ready list;  *)
(* the events are then handled one after the other, in whatever order they *)
(* were queued.  (A batch of _max_events is taken to be large enough.)     *)
Wait ==
  /\ batch = {} /\ Pending # {}
  /\ batch' = Pending
  /\ ready' = {}
  /\ UNCHANGED <<backlog, peer, input, clients, missed>>

(* acceptClient, one connection per event. *)
Accept ==
  /\ Listener \in batch
  /\ \E f \in Fd \ clients :
       /\ \A g \in Fd \ clients : f <= g
       /\ peer' = [peer EXCEPT ![f] = "open"]
       /\ clients' = clients \cup {f}
  /\ backlog' = backlog - 1
  /\ batch' = batch \ {Listener}
  /\ UNCHANGED <<input, ready, missed>>

(* accept4 fails when the process has no descriptor left. *)
AcceptFails ==
  /\ Listener \in batch
  /\ clients = Fd
  /\ batch' = batch \ {Listener}
  /\ UNCHANGED <<backlog, peer, input, ready, clients, missed>>

(* Mutant of RemoveClient: the descriptor is closed, the map not updated. *)
CloseOnly(f) ==
  /\ peer' = [peer EXCEPT ![f] = "none"]
  /\ input' = [input EXCEPT ![f] = <<>>]
  /\ ready' = ready \ {f}
  /\ UNCHANGED clients

(* Server::removeClient; closing the descriptor also takes it off epoll. *)
RemoveClient(f) ==
  /\ peer' = [peer EXCEPT ![f] = "none"]
  /\ input' = [input EXCEPT ![f] = <<>>]
  /\ ready' = ready \ {f}
  /\ clients' = clients \ {f}

(* The lines one recv returns, and those it leaves. *)
Taken(f) == SubSeq(input[f], 1, Min({BufLines, Len(input[f])}))
Rest(f) == SubSeq(input[f], BufLines + 1, Len(input[f]))

(* Mutant of AfterHandler: poll returns after the first client it serves. *)
AfterAnyHandler(f) == {}

(* The events poll still looks at after f has been served. *)
AfterHandler(f) == batch \ {f}

(* clientWrite: one recv, then the commands in it, and poll's test for a   *)
(* closed connection.  After an end of file the recv returns 0 bytes and   *)
(* there is nothing more to it.                                            *)
Read(f) ==
  /\ f \in batch
  /\ "IN" \in Reported(f) \cap Handlers
  /\ ~ Contains(Taken(f), "quit")
  /\ batch' = AfterHandler(f)
  /\ IF Reported(f) \cap ClosedBits = {}
     THEN input' = [input EXCEPT ![f] = Rest(f)] /\ UNCHANGED <<peer, ready, clients>>
     ELSE RemoveClient(f)
  /\ missed' = (missed \ {f}) \cup { g \in {f} : input'[g] # <<>> /\ g \notin ready }
  /\ UNCHANGED backlog

(* clientWrite with a QUIT (or a rejected password) in it: the client is   *)
(* removed, and poll, not finding it any more, returns without looking at  *)
(* the rest of the batch.                                                  *)
ReadQuit(f) ==
  /\ f \in batch
  /\ "IN" \in Reported(f) \cap Handlers
  /\ Contains(Taken(f), "quit")
  /\ RemoveClient(f)
  /\ batch' = {}
  /\ missed' = (missed \cup (batch \ (ready \cup {Listener}))) \ {f}
  /\ UNCHANGED backlog
-----------------------------------------------------------------------------
Peers == Dial \/ \E f \in Fd : Send(f) \/ HangUp(f)

Server == Wait \/ Accept \/ AcceptFails \/ \E f \in Fd : Read(f) \/ ReadQuit(f)

Next == Peers \/ Server

(* main calls poll again and again; nothing is assumed of the peers. *)
Spec == Init /\ [][Next]_vars /\ WF_vars(Server)
-----------------------------------------------------------------------------
(* Lost wake-ups: unread input of a client has an event on its way, on the *)
(* ready list or in the batch, unless one of two things happened to the    *)
(* last one: a recv did not empty the socket, or poll cut the batch short  *)
(* after a QUIT.  With edge-triggered descriptors every other omission     *)
(* would strand a client, too.                                             *)
NoLostWakeup ==
  \A f \in clients : input[f] # <<>> => f \in ready \cup batch \cup missed

(* Those two are no delays but losses: however often poll is called, and   *)
(* whoever else comes, goes or is given a number again, a client whose     *)
(* event was lost is not read, and keeps what it has sent and its          *)
(* connection, until it sends something more or hangs up.                  *)
StrandedWait ==
  [][\A f \in missed :
       \/ f \in missed' /\ input'[f] = input[f] /\ peer'[f] = peer[f]
       \/ Send(f) \/ HangUp(f)]_vars

(* inc/Client.hpp:17, "Handles events on files registered to epoll": a     *)
(* client with unread input is read again and again until there is none,   *)
(* with the same two exceptions, for which it has to wait until it sends   *)
(* something more.                                                         *)
InputServed ==
  \A f \in Fd :
    \/ []<>(input[f] = <<>> \/ f \in missed)
    \/ []<><<Read(f)>>_vars

(* inc/Client.hpp:19-20, "_RDHUP ... for when sending end closes", "_HUP   *)
(* ... for disconnects": the server notices that a peer has gone, and      *)
(* forgets it.                                                             *)
ClosedForgotten == \A f \in Fd : peer[f] = "closed" ~> peer[f] # "closed"

(* Connections are accepted as long as the process has descriptors,        *)
(* whatever the clients do meanwhile, and although a batch that is cut     *)
(* short may have contained the listening socket.                          *)
AcceptsProceed ==
  []<>(backlog = 0 \/ clients = Fd) \/ []<><<Accept>>_vars
=============================================================================
