--------------------------- MODULE ChannelServer ---------------------------
(***************************************************************************)
(* The rooms of the IRC server: the server's map of clients and map of     *)
(* channels (class Server), the users inside the clients, and every        *)
(* command that changes one of them (src/src/Command.cpp), from the moment *)
(* the dispatcher has let the command through.  One action is one command  *)
(* of one client, from its guard clauses to the last assignment: the       *)
(* server runs a handler to its end before it looks at the next event.     *)
(*                                                                         *)
(* A client is named by its descriptor, because the code is: the sets of a *)
(* channel hold bare descriptors, and the kernel hands the number of a     *)
(* closed connection to the next one.  A channel that is not on the map is *)
(* represented by NewChannel, and a descriptor without a client by the     *)
(* empty nick and list, that is by what the constructors would build.      *)
(*                                                                         *)
(* Replies and messages are not represented, but that a send to a closed   *)
(* or congested socket can fail is, wherever the code acts on it.          *)
(***************************************************************************)
EXTENDS Channel, User

CONSTANTS
  Chan,      \* channel names
  Nick,      \* nicknames the regular expression of NICK accepts
  NoNick,    \* the empty nickname
  ModeReqs   \* the mode strings clients send (see ChannelServerConstants)

(***************************************************************************)
(* A mode string is the set of letters it enables, the set it disables,    *)
(* and, since +k, +l and +o are executed in the order written, which of +k *)
(* and +l come before +o.                                                  *)
(***************************************************************************)
ASSUME ChannelServerConstants ==
  /\ NoNick \notin Nick
  /\ ModeReqs \subseteq [on    : SUBSET Letters,
                         off   : SUBSET Letters,
                         early : SUBSET {"k", "l"}]
  /\ \A req \in ModeReqs : req.early \subseteq req.on

VARIABLES
  status,    \* "running", or "crashed" by a fatal signal
  clients,   \* Server::_clients, by descriptor
  nick,      \* User::_nick of each client
  joined,    \* User::_channels of each client, oldest first
  channels,  \* the names on Server::_channels
  chan       \* the channel of each name

vars == <<status, clients, nick, joined, channels, chan>>

(* The fields have the types Server, User and Channel declare; 'o' is never *)
(* stored among the modes of a channel (setMode skips it).                 *)
TypeOK ==
  /\ status \in {"running", "crashed"}
  /\ clients \subseteq Fd
  /\ nick \in [Fd -> Nick \cup {NoNick}]
  /\ joined \in [Fd -> Seq(Chan)]
  /\ channels \subseteq Chan
  /\ chan \in [Chan -> ChannelState]

Init ==
  /\ status = "running"
  /\ clients = {}
  /\ nick = [f \in Fd |-> NoNick]
  /\ joined = [f \in Fd |-> <<>>]
  /\ channels = {}
  /\ chan = [c \in Chan |-> NewChannel]
-----------------------------------------------------------------------------
(* A command of f is being executed. *)
Served(f) == status = "running" /\ f \in clients

(* User::getChannel: the handlers find their channel in the user's list. *)
OnChannel(f, c) == c \in Listed(joined[f])

(* The client that a scan of the set S for some nickname ends at.  The     *)
(* scan runs through S by descriptor; a member that is not a client makes  *)
(* Server::getClient throw and ends the command.                           *)
Designated(S) ==
  { g \in S \cap clients :
      \A h \in S : h < g => h \in clients /\ nick[h] # nick[g] }

(* Channel::removeUser for f on each of the channels cs. *)
LeaveAll(f, cs) ==
  /\ chan' = [c \in Chan |->
                IF c \notin cs THEN chan[c]
                ELSE IF Vacated(chan[c], f) THEN NewChannel
                ELSE RemoveUser(chan[c], f)]
  /\ channels' = { c \in channels : ~ (c \in cs /\ Vacated(chan[c], f)) }

(* Server::removeClient: the client and its user are destroyed, and the    *)
(* descriptor is closed.  It does not touch any channel.                   *)
RemoveClient(f) ==
  /\ clients' = clients \ {f}
  /\ nick' = [nick EXCEPT ![f] = NoNick]
  /\ joined' = [joined EXCEPT ![f] = <<>>]
-----------------------------------------------------------------------------
(* Handler::acceptClient; the kernel picks the lowest free descriptor. *)
Accept(f) ==
  /\ status = "running"
  /\ f \notin clients
  /\ \A g \in Fd \ clients : f <= g
  /\ clients' = clients \cup {f}
  /\ UNCHANGED <<status, nick, joined, channels, chan>>

(* Mutant of NickFree: only other clients with a channel are looked at. *)
NickFreeAmongJoined(n) ==
  \A g \in clients : joined[g] # <<>> => nick[g] # n

(* The search of NickCommand for another holder of the nickname. *)
NickFree(n) == \A g \in clients : nick[g] # n

NickCommand(f) == \E n \in Nick :
  /\ Served(f)
  /\ NickFree(n)
  /\ nick' = [nick EXCEPT ![f] = n]
  /\ UNCHANGED <<status, clients, joined, channels, chan>>

(* JoinCommand: the channel is created on demand, and a created channel    *)
(* admits whoever asked for it.                                            *)
JoinCommand(f) == \E c \in Chan, key \in Key :
  /\ Served(f)
  /\ Admits(chan[c], f, key)
  /\ chan' = [chan EXCEPT ![c] = AddUser(@, f)]
  /\ channels' = channels \cup {c}
  /\ joined' = [joined EXCEPT ![f] = JoinList(@, c)]
  /\ UNCHANGED <<status, clients, nick>>

(* PartCommand; removeUser returns early when f is in neither set. *)
PartCommand(f) == \E c \in Chan :
  /\ Served(f)
  /\ OnChannel(f, c)
  /\ f \in Members(chan[c])
  /\ LeaveAll(f, {c})
  /\ joined' = [joined EXCEPT ![f] = ExitChannel(@, c)]
  /\ UNCHANGED <<status, clients, nick>>

(* Mutant of MayOperate: being in _oper is enough. *)
MayOperateBySocket(f, c) == Served(f) /\ f \in chan[c].oper

(* The tests at the top of KickCommand and ModeCommand. *)
MayOperate(f, c) == Served(f) /\ OnChannel(f, c) /\ f \in chan[c].oper

(* KickCommand.  Every operator is asked for its nickname first, so one    *)
(* that is not a client any more ends the command.  A target that is in    *)
(* _users without having the channel in its list (it inherited its         *)
(* descriptor) sends User::exitChannel past the end of the vector.         *)
KickCommand(f) == \E c \in channels : \E g \in Designated(chan[c].users) :
  /\ MayOperate(f, c)
  /\ \A op \in chan[c].oper : op \in clients /\ nick[op] # nick[g]
  /\ chan' = [chan EXCEPT ![c] = KickUser(@, g)]
  /\ \/ /\ OnChannel(g, c)
        /\ joined' = [joined EXCEPT ![g] = ExitChannel(@, c)]
        /\ UNCHANGED status
     \/ /\ ~ OnChannel(g, c)
        /\ \E list \in StrayExits(joined[g]) :
             joined' = [joined EXCEPT ![g] = list]
        /\ status' \in {"running", "crashed"}
  /\ UNCHANGED <<clients, nick, channels>>

(* InviteCommand for a channel that exists; for any other name it changes  *)
(* nothing.                                                                *)
InviteCommand(f) == \E c \in channels, g \in clients \ {f} :
  /\ Served(f)
  /\ nick[g] # NoNick
  /\ f \in Members(chan[c])
  /\ "i" \in chan[c].mode => f \in chan[c].oper
  /\ g \notin Members(chan[c])
  /\ chan' = [chan EXCEPT ![c] = InviteUser(@, g)]
  /\ UNCHANGED <<status, clients, nick, joined, channels>>

(* The tests of TopicCommand, which Channel::setTopic repeats. *)
MaySetTopic(f, c) ==
  /\ Served(f)
  /\ OnChannel(f, c)
  /\ "t" \in chan[c].mode => f \in chan[c].oper

(* TopicCommand with two parameters. *)
TopicCommand(f) == \E c \in channels, topic \in Topic :
  /\ MaySetTopic(f, c)
  /\ chan' = [chan EXCEPT ![c] = SetTopic(@, topic)]
  /\ UNCHANGED <<status, clients, nick, joined, channels>>
-----------------------------------------------------------------------------
(* The parameters of a mode string; those of absent letters do not matter. *)
KeyArgs(req) == IF "k" \in req.on THEN Key ELSE {NoKey}
LimitArgs(req) == IF "l" \in req.on THEN Limit ELSE {Unset}

(* ModeCommand that runs to its end.  +o succeeds only if every member is  *)
(* sent its announcement, so not while one of them is a closed descriptor. *)
(* A mode string that fails and is rolled back to the backup copy leaves   *)
(* everything as it was and is no step at all.                             *)
ModeCommand(f) ==
  \E c \in Chan, req \in ModeReqs :
  \E key \in KeyArgs(req), lim \in LimitArgs(req) :
    /\ MayOperate(f, c)
    /\ LET ch == WithArgs(chan[c], req.on, key, lim) IN
         \/ /\ "o" \notin req.on
            /\ chan' = [chan EXCEPT ![c] = WithFlags(ch, req.on, req.off)]
         \/ /\ "o" \in req.on
            /\ Members(ch) \subseteq clients
            /\ \E g \in Designated(ch.users) :
                 chan' = [chan EXCEPT ![c] =
                            WithFlags(MakeOperator(ch, g), req.on, req.off)]
    /\ UNCHANGED <<status, clients, nick, joined, channels>>

(* ModeCommand ended by an exception before the rollback: +o does not find *)
(* the nickname, meets a member that is no client, or cannot announce the  *)
(* new operator, and (in the first and third case) the error reply to f    *)
(* cannot be sent either.  What was done up to there stays done.           *)
ModeCommandThrows(f) ==
  \E c \in Chan, req \in ModeReqs :
  \E key \in KeyArgs(req), lim \in LimitArgs(req) :
    /\ MayOperate(f, c)
    /\ "o" \in req.on
    /\ LET ch == WithArgs(chan[c], req.early, key, lim) IN
         \E after \in {ch} \cup { MakeOperator(ch, g) : g \in Designated(ch.users) } :
           chan' = [chan EXCEPT ![c] = after]
    /\ UNCHANGED <<status, clients, nick, joined, channels>>
-----------------------------------------------------------------------------
(* QuitCommand: User::quit, then Server::removeClient.  The walk that      *)
(* re-reads its last channel may find it destroyed, which crashes or not.  *)
QuitCommand(f) ==
  /\ Served(f)
  /\ LeaveAll(f, QuitVisited(joined[f]))
  /\ RemoveClient(f)
  /\ status' \in IF QuitRereads(joined[f]) /\ Vacated(chan[Last(joined[f])], f)
                 THEN {"running", "crashed"} ELSE {"running"}

(* The dispatcher's answer to a wrong PASS, or to any command before the   *)
(* password: E464 and removeClient, without leaving the channels.          *)
Reject(f) ==
  /\ Served(f)
  /\ RemoveClient(f)
  /\ UNCHANGED <<status, channels, chan>>

(* WhoCommand without a parameter goes on after its error reply and reads  *)
(* the first element of an empty vector.                                   *)
WhoCommandBare(f) ==
  /\ Served(f)
  /\ status' = "crashed"
  /\ UNCHANGED <<clients, nick, joined, channels, chan>>
-----------------------------------------------------------------------------
(* The commands that treat clients and channels alike in every version of  *)
(* the environment below.                                                  *)
CommonNext ==
  \E f \in Fd :
    \/ Accept(f)
    \/ NickCommand(f)
    \/ JoinCommand(f)
    \/ PartCommand(f)
    \/ KickCommand(f)
    \/ InviteCommand(f)
    \/ TopicCommand(f)
    \/ ModeCommand(f)
    \/ ModeCommandThrows(f)

(* A client that leaves from at most two channels. *)
OrderlyQuit == \E f \in Fd : Len(joined[f]) <= 2 /\ QuitCommand(f)

(* A client that fails the password before it enters any channel. *)
OrderlyReject == \E f \in Fd : joined[f] = <<>> /\ Reject(f)

(* Everything clients can do. *)
Next ==
  \/ CommonNext
  \/ \E f \in Fd : QuitCommand(f) \/ Reject(f) \/ WhoCommandBare(f)

Spec == Init /\ [][Next]_vars

(* Clients that do none of the three things the server does not survive    *)
(* well: quitting from three channels or more, sending a wrong PASS from   *)
(* inside a channel, and WHO without a parameter.                          *)
OrderlyNext == CommonNext \/ OrderlyQuit \/ OrderlyReject

OrderlySpec == Init /\ [][OrderlyNext]_vars
-----------------------------------------------------------------------------
(* Every channel on the map has an operator, and nobody is both operator   *)
(* and user of it (class Channel: "Users and 1 or more Operators");        *)
(* a name that is not on the map has left nothing behind.  At risk from    *)
(* the hand-over in removeUser, the skipping walk of quit, and the         *)
(* half-applied mode strings.                                              *)
OperatorPresent ==
  \A c \in Chan :
    /\ chan[c].users \cap chan[c].oper = {}
    /\ IF c \in channels THEN chan[c].oper # {} ELSE chan[c] = NewChannel

(* A pointer in a client's list is the address of a channel that exists    *)
(* and has the client as a member, and is there once: getChannel, which    *)
(* every channel command begins with, reads through all of them.           *)
NoDanglingChannel ==
  \A f \in Fd :
    /\ \A c \in Listed(joined[f]) : c \in channels /\ f \in Members(chan[c])
    /\ IsInjective(joined[f])

(* Two clients never have one nickname (NickCommand, E433); PRIVMSG,       *)
(* INVITE, KICK and +o find people by it.                                  *)
NickUnique ==
  \A f, g \in clients : f # g /\ nick[f] = nick[g] => nick[f] = NoNick

(* Channel::addUser compares with _limit whenever 'l' is set, and _limit   *)
(* has no initialiser: 'l' must never be set without it, not even by a     *)
(* mode string that is abandoned half way.                                 *)
LimitDefined == \A c \in channels : "l" \in chan[c].mode => chan[c].limit # Unset

(* The sets of a channel are sets of open sockets (inc/Channel.hpp:25),    *)
(* and they agree with the lists of the users behind them, in both         *)
(* directions.                                                             *)
MembershipConsistent ==
  \A c \in Chan : Members(chan[c]) = { f \in clients : OnChannel(f, c) }

(* inc/Channel.hpp:25-26: the sets of a channel contain sockets, that is,  *)
(* descriptors of connected clients. *)
SocketsOnly == \A c \in channels : Members(chan[c]) \subseteq clients

(* No command reaches undefined behaviour that kills the server. *)
StaysUp == status = "running"

(* README.md:9: whoever an operator invites can join.  A client that holds *)
(* an invitation is admitted to a channel that asks for nothing else.      *)
InvitedCanJoin ==
  \A c \in channels : \A f \in (chan[c].invite \cap clients) \ Members(chan[c]) :
    chan[c].mode \cap {"k", "l"} = {} => Admits(chan[c], f, NoKey)
-----------------------------------------------------------------------------
(* Somebody who holds office in c, is connected and is really in c. *)
Governor(c) == { f \in clients : OnChannel(f, c) /\ f \in chan[c].oper }

(* One becomes operator of a channel in two ways: an operator who is there *)
(* promotes a user, the others staying in office; or the only operator     *)
(* leaves and a single user takes over (makeOperator, removeUser).         *)
OperatorsSucceed ==
  [][\A c \in channels \cap channels' :
       LET new == chan'[c].oper \ chan[c].oper IN
         new # {} =>
           /\ \E f \in chan[c].users : new = {f}
           /\ \E op \in Governor(c) :
                \/ chan[c].oper \subseteq chan'[c].oper
                \/ chan[c].oper = {op} /\ op \notin Members(chan'[c])]_vars

(* Nobody is demoted: an operator who stays connected and on the channel   *)
(* stays operator, whatever is kicked, promoted, rolled back or half       *)
(* applied meanwhile (KickCommand refuses operators, -o is ignored).       *)
OperatorsStay ==
  [][\A f \in clients \cap clients', c \in channels :
       f \in chan[c].oper /\ c \in Listed(joined'[f]) => f \in chan'[c].oper]_vars

(* Modes, limit and password of a channel, and a protected topic, change   *)
(* only while an operator of the channel is there to change them: that its *)
(* descriptor is a leftover in _oper gives a new client no such power.     *)
GovernedByOperator ==
  [][\A c \in channels \cap channels' :
       \/ chan'[c].mode # chan[c].mode
       \/ chan'[c].limit # chan[c].limit
       \/ chan'[c].passwd # chan[c].passwd
       \/ "t" \in chan[c].mode /\ chan'[c].topic # chan[c].topic
       => Governor(c) # {}]_vars

(* A channel that is +l grows only while it is below its limit, one that   *)
(* is +i only by clients it invited, and never by two at once (addUser).   *)
AdmissionRespected ==
  [][\A c \in channels \cap channels' :
       LET new == Members(chan'[c]) \ Members(chan[c]) IN
         new # {} =>
           /\ \E f \in clients : new = {f}
           /\ "i" \in chan[c].mode => new \subseteq chan[c].invite
           /\ "l" \in chan[c].mode =>
                Cardinality(Members(chan'[c])) <= chan[c].limit]_vars
-----------------------------------------------------------------------------
(* Orderly clients get the rooms the server promises. *)
Promise == INSTANCE Rooms WITH
  Person  <- Fd,
  Room    <- Chan,
  online  <- clients,
  members <- [c \in Chan |-> Members(chan[c])],
  ops     <- [c \in Chan |-> chan[c].oper]

(* The sets the commands keep behave as rooms do: founding, hand-over,     *)
(* promotion and eviction included, and a client that disconnects leaves   *)
(* all its channels in the same step.                                      *)
RoomsPromise == Promise!Spec
=============================================================================
