----------------------------- MODULE BotSession -----------------------------
(***************************************************************************)
(* The bot's process (Bot::run and what it calls) and its connections to   *)
(* the server of module Registration: connecting, with retries and a       *)
(* growing pause; logging in, under another nickname if it must; entering  *)
(* its channel; leaving, by a signal, because the server hung up, or by a  *)
(* crash after which it is started again.                                  *)
(*                                                                         *)
(* The server never notices a connection that is closed without QUIT       *)
(* (EventLoop, ClosedForgotten): what the bot leaves behind stays a client *)
(* and keeps its nickname.  Each connection is a pair of FIFO channels; of *)
(* the replies only those the bot acts on are represented.  What the       *)
(* server's event loop may leave unread (EventLoop, StrandedWait) stays    *)
(* unread until the bot sends more or closes.                              *)
(***************************************************************************)
EXTENDS Registration, Sequences, FiniteSetsExt

CONSTANTS
  MaxDials,     \* bound: connections the bot ever makes, numbered from 1
  MaxCrashes,   \* bound: times the bot is killed and started again
  Rival,        \* the other clients
  RivalRequest, \* what they send
  MaxTakes,     \* bound: nicknames the other clients ever ask for
  BotPass,      \* passwords the bot may be started with, NoPass for none
  NoFd          \* the value -1 of Bot::sockfd

BotConn == 1 .. MaxDials

ASSUME BotSessionConstants ==
  /\ MaxDials \in Nat /\ MaxCrashes \in Nat /\ MaxTakes \in Nat
  /\ Conn = BotConn \cup Rival
  /\ BotConn \cap Rival = {} /\ NoFd \notin Conn
  /\ BotPass \subseteq Secret \cup {NoPass}
  /\ RivalRequest \subseteq Request

MAX_RETRIES == 5
MaxBackoff == 30
MaxWaited == 99      \* bound: seconds counted in waited

VARIABLES
  pass,         \* Bot::cfg.pass
  pc,           \* where run() is: at the loop's "head", "connecting",
                \* "polling", "closing", "closed", "sleeping" or "done"
  sockfd, retries, backoff, autoJoined, nick_attempt, currentNick,
  stop,         \* g_stop
  initiated,    \* g_userInitiated
  open,         \* the sockets the process has open
  waited,       \* seconds slept since the bot started or last connected
  dials, crashes, takes,   \* counters for the bounds
  backlog,      \* connections the server has not accepted yet
  toServer,     \* requests under way, by connection
  inbox,        \* replies under way on sockfd: "001" or "433"
  missed        \* connections whose requests epoll reports no more

botVars == <<pass, pc, sockfd, retries, backoff, autoJoined, nick_attempt,
             currentNick, stop, initiated, open, waited, dials, crashes>>
netVars == <<backlog, toServer, inbox, missed>>
vars == <<serverVars, botVars, netVars, takes>>

Init ==
  /\ RegistrationInit
  /\ pass \in BotPass
  /\ pc = "head" /\ sockfd = NoFd /\ open = {}
  /\ retries = 0 /\ backoff = 2 /\ waited = 0
  /\ autoJoined = FALSE /\ nick_attempt = 0 /\ currentNick = 0
  /\ stop = FALSE /\ initiated = FALSE
  /\ dials = 0 /\ crashes = 0 /\ takes = 0
  /\ backlog = {} /\ toServer = [c \in BotConn |-> <<>>] /\ inbox = <<>>
  /\ missed = {}

TypeOK ==
  /\ RegistrationTypeOK
  /\ pass \in BotPass
  /\ pc \in {"head", "connecting", "polling", "closing", "closed", "sleeping", "done"}
  /\ sockfd \in BotConn \cup {NoFd} /\ open \subseteq BotConn
  /\ retries \in 0 .. MAX_RETRIES /\ backoff \in 2 .. MaxBackoff
  /\ waited \in 0 .. MaxWaited
  /\ autoJoined \in BOOLEAN /\ stop \in BOOLEAN /\ initiated \in BOOLEAN
  /\ nick_attempt \in Nat /\ currentNick \in Nat
  /\ dials \in 0 .. MaxDials /\ crashes \in 0 .. MaxCrashes /\ takes \in 0 .. MaxTakes
  /\ backlog \subseteq BotConn
  /\ \A c \in BotConn : \A i \in DOMAIN toServer[c] : toServer[c][i] \in Request
  /\ inbox \in Seq({"001", "433"})
  /\ missed \subseteq clients \cap BotConn
-----------------------------------------------------------------------------
(* Is there a server at the other end of connection c? *)
Attended(c) == c \in clients \cup backlog

(* send_line; what is sent to a connection the server has closed is lost. *)
Delivered(c, lines) ==
  [toServer EXCEPT ![c] = IF Attended(c) THEN @ \o lines ELSE @]

(* What is sent, or a close, is an event of its own. *)
SendLines(c, lines) ==
  /\ toServer' = Delivered(c, lines)
  /\ missed' = missed \ {c}

(* Mutant of LoginLines: the bot joins without waiting for the welcome. *)
LoginLinesJoining ==
  (IF pass = NoPass THEN <<>> ELSE <<Pass(pass)>>)
  \o <<Nick(currentNick), Command("USER"), Command("JOIN")>>

(* login: PASS if there is one, NICK, USER. *)
LoginLines ==
  (IF pass = NoPass THEN <<>> ELSE <<Pass(pass)>>)
  \o <<Nick(currentNick), Command("USER")>>

(* The test of the outer loop. *)
LoopHead ==
  /\ pc = "head"
  /\ pc' = IF stop THEN "done" ELSE "connecting"
  /\ UNCHANGED <<serverVars, pass, netVars, takes, sockfd, retries, backoff, autoJoined,
                 nick_attempt, currentNick, stop, initiated, open, waited, dials, crashes>>

(* Mutant of CountFailure: the counter starts again with every attempt. *)
CountAlwaysFirst == retries' = 1

(* ++retries *)
CountFailure == retries' = retries + 1

(* connect_socket returned -1. *)
ConnectFails ==
  /\ pc = "connecting"
  /\ CountFailure
  /\ pc' = IF retries' >= MAX_RETRIES THEN "done" ELSE "sleeping"
  /\ UNCHANGED <<serverVars, pass, netVars, takes, sockfd, backoff, autoJoined, nick_attempt,
                 currentNick, stop, initiated, open, waited, dials, crashes>>

(* Mutant of ResetRetries: the pause is not reset. *)
ResetCounterOnly == retries' = 0 /\ UNCHANGED backoff

(* What run resets after a successful connect. *)
ResetRetries == retries' = 0 /\ backoff' = 2

(* connect_socket succeeded; login follows at once. *)
Connects ==
  /\ pc = "connecting"
  /\ dials < MaxDials
  /\ LET c == dials + 1 IN
       /\ dials' = c
       /\ sockfd' = c
       /\ open' = open \cup {c}
       /\ backlog' = backlog \cup {c}
       /\ toServer' = [toServer EXCEPT ![c] = LoginLines]
  /\ ResetRetries
  /\ waited' = 0
  /\ autoJoined' = FALSE /\ nick_attempt' = 0
  /\ inbox' = <<>>
  /\ pc' = "polling"
  /\ UNCHANGED <<serverVars, pass, takes, missed, currentNick, stop, initiated, crashes>>
-----------------------------------------------------------------------------
(* Mutant of NextNick: the name that was refused is asked for again. *)
NextNickStale ==
  /\ nick_attempt' = nick_attempt + 1
  /\ currentNick' = nick_attempt + 1
  /\ SendLines(sockfd, <<Nick(currentNick)>>)

(* handle_message, 433: the next of base_1, base_2, ... *)
NextNick ==
  /\ nick_attempt' = nick_attempt + 1
  /\ currentNick' = nick_attempt + 1
  /\ SendLines(sockfd, <<Nick(currentNick')>>)

(* handle_message, 001: join_channels, once per connection. *)
AutoJoin ==
  /\ IF autoJoined THEN UNCHANGED <<toServer, missed>>
     ELSE SendLines(sockfd, <<Command("JOIN")>>)
  /\ autoJoined' = TRUE

(* One message of what recv returned.  stop is not looked at between the   *)
(* messages of one recv.                                                   *)
HandleMessage ==
  /\ pc = "polling" /\ inbox # <<>>
  /\ inbox' = Tail(inbox)
  /\ \/ Head(inbox) = "433" /\ NextNick /\ UNCHANGED autoJoined
     \/ Head(inbox) = "001" /\ AutoJoin /\ UNCHANGED <<nick_attempt, currentNick>>
  /\ UNCHANGED <<serverVars, pass, takes, backlog, pc, sockfd, retries, backoff, stop,
                 initiated, open, waited, dials, crashes>>

(* The test of the inner loop, or poll failing for another reason than a   *)
(* signal.                                                                 *)
LeaveLoop == pc = "polling" /\ stop
PollFails == pc = "polling" /\ ~ stop

LeavesPolling(cond) ==
  /\ cond
  /\ pc' = "closing"
  /\ UNCHANGED <<serverVars, pass, netVars, takes, sockfd, retries, backoff, autoJoined,
                 nick_attempt, currentNick, stop, initiated, open, waited, dials, crashes>>

(* Mutant of Shut: the descriptor is closed but remembered. *)
ShutOnly == open' = open \ {sockfd} /\ UNCHANGED sockfd

(* close(sockfd), sockfd = -1. *)
Shut == open' = open \ {sockfd} /\ sockfd' = NoFd

(* The server has closed the connection: recv returns 0, or poll reports   *)
(* POLLHUP or POLLERR and the socket is closed later.                      *)
ServerGone ==
  /\ pc = "polling"
  /\ ~ Attended(sockfd)
  /\ stop' = TRUE
  /\ pc' = "closing"
  /\ Shut \/ UNCHANGED <<open, sockfd>>
  /\ UNCHANGED <<serverVars, pass, netVars, takes, retries, backoff, autoJoined, nick_attempt,
                 currentNick, initiated, waited, dials, crashes>>

(* After the inner loop: send_quit if a signal has ended it, and close. *)
Close ==
  /\ pc = "closing"
  /\ toServer' = IF stop /\ initiated /\ sockfd # NoFd
                 THEN Delivered(sockfd, <<Command("QUIT")>>) ELSE toServer
  /\ missed' = missed \ {sockfd}
  /\ IF sockfd # NoFd THEN Shut ELSE UNCHANGED <<open, sockfd>>
  /\ inbox' = <<>>
  /\ pc' = "closed"
  /\ UNCHANGED <<serverVars, pass, takes, backlog, retries, backoff, autoJoined, nick_attempt,
                 currentNick, stop, initiated, waited, dials, crashes>>

(* Then the end, or a pause, after which the first nickname is tried again *)
(* (nothing looks at it before).                                           *)
Afterwards ==
  /\ pc = "closed"
  /\ IF stop
     THEN pc' = "done" /\ UNCHANGED <<currentNick, nick_attempt>>
     ELSE pc' = "sleeping" /\ currentNick' = 0 /\ nick_attempt' = 0
  /\ UNCHANGED <<serverVars, pass, netVars, takes, sockfd, retries, backoff, autoJoined, stop,
                 initiated, open, waited, dials, crashes>>

(* Mutant of NextBackoff: the pause grows without limit. *)
NextBackoffDoubled == 2 * backoff

(* The pause doubles, up to backoff_max. *)
NextBackoff == Min({MaxBackoff, 2 * backoff})

(* Either sleep of run(); a signal cuts it short. *)
Sleep ==
  /\ pc = "sleeping"
  /\ waited' = IF stop THEN waited ELSE Min({MaxWaited, waited + backoff})
  /\ backoff' = NextBackoff
  /\ pc' = "head"
  /\ UNCHANGED <<serverVars, pass, netVars, takes, sockfd, retries, autoJoined, nick_attempt,
                 currentNick, stop, initiated, open, dials, crashes>>
-----------------------------------------------------------------------------
(* SIGINT or SIGTERM. *)
Signal ==
  /\ pc # "done"
  /\ stop' = TRUE /\ initiated' = TRUE
  /\ UNCHANGED <<serverVars, pass, netVars, takes, pc, sockfd, retries, backoff, autoJoined,
                 nick_attempt, currentNick, open, waited, dials, crashes>>

(* The bot is killed and started again; the kernel closes its socket, and  *)
(* what it had sent still arrives.                                         *)
Restart ==
  /\ crashes < MaxCrashes
  /\ crashes' = crashes + 1
  /\ pc' = "head" /\ sockfd' = NoFd /\ open' = {}
  /\ retries' = 0 /\ backoff' = 2 /\ waited' = 0
  /\ autoJoined' = FALSE /\ nick_attempt' = 0 /\ currentNick' = 0
  /\ stop' = FALSE /\ initiated' = FALSE
  /\ inbox' = <<>> /\ missed' = missed \ {sockfd}
  /\ UNCHANGED <<serverVars, pass, takes, dials, backlog, toServer>>
-----------------------------------------------------------------------------
(* Handler::acceptClient for a connection of the bot. *)
Accept(c) ==
  /\ c \in backlog
  /\ AddClient(c)
  /\ backlog' = backlog \ {c}
  /\ UNCHANGED <<botVars, takes, toServer, inbox, missed>>

(* What the server answers and the bot acts on. *)
Answer(c, m) ==
  (IF m.cmd = "NICK" /\ ~ Refused(c, m) /\ m.nick <= LastNick /\ Taken(m.nick)
   THEN <<"433">> ELSE <<>>)
  \o (IF c \in registered' \ registered THEN <<"001">> ELSE <<>>)

(* poll returns when a command has removed its client, and the rest of the *)
(* batch of events, each of which epoll reports only once, is lost.        *)
CutShort ==
  IF clients' = clients THEN UNCHANGED missed
  ELSE \E lost \in SUBSET { d \in clients \cap BotConn : toServer[d] # <<>> } :
         missed' = (missed \cup lost) \cap clients'

(* The server handles the next request on connection c.  Replies to a      *)
(* connection the bot has closed may or may not be sent any more.          *)
ServerReads(c) ==
  /\ c \in clients \ missed /\ toServer[c] # <<>>
  /\ LET m == Head(toServer[c]) IN
       /\ \E sent \in BOOLEAN : (c = sockfd => sent) /\ Dispatch(c, m, sent)
       /\ inbox' = IF c = sockfd THEN inbox \o Answer(c, m) ELSE inbox
       /\ toServer' = [toServer EXCEPT ![c] = IF c \in clients' THEN Tail(@) ELSE <<>>]
  /\ CutShort
  /\ UNCHANGED <<botVars, takes, backlog>>

(* The other clients, at any time. *)
RivalArrives(c) == AddClient(c) /\ UNCHANGED <<botVars, netVars, takes>>

RivalSends(c) ==
  \E m \in RivalRequest, sent \in BOOLEAN :
    /\ IF m.cmd = "NICK" THEN takes < MaxTakes /\ takes' = takes + 1 ELSE UNCHANGED takes
    /\ Dispatch(c, m, sent)
    /\ CutShort
    /\ UNCHANGED <<botVars, backlog, toServer, inbox>>
-----------------------------------------------------------------------------
(* What the bot does of itself ... *)
BotStep ==
  LoopHead \/ ConnectFails \/ Connects \/ HandleMessage \/ LeavesPolling(LeaveLoop)
  \/ ServerGone \/ Close \/ Afterwards \/ Sleep

(* ... and what happens to it. *)
BotFault == LeavesPolling(PollFails) \/ Signal \/ Restart

ServerStep == \E c \in BotConn : Accept(c) \/ ServerReads(c)

RivalStep == \E c \in Rival : RivalArrives(c) \/ RivalSends(c)

Next == BotStep \/ BotFault \/ ServerStep \/ RivalStep

(* The bot runs, and the server polls and has descriptors left: it accepts *)
(* (EventLoop, AcceptsProceed) and reads what is not missed (InputServed). *)
(* Nothing is assumed of the others, nor that a server can be reached.     *)
Spec == Init /\ [][Next]_vars /\ WF_vars(BotStep) /\ WF_vars(ServerStep)
-----------------------------------------------------------------------------
(* Whatever ends a session, the process has exactly the socket sockfd open *)
(* and in the end none: none is leaked by a reconnect, and none is closed  *)
(* twice (run, send_quit, ~Bot).                                           *)
SocketsAccounted ==
  /\ open = { c \in BotConn : c = sockfd }
  /\ pc = "done" => open = {}

(* Without a signal and without a server that hung up, run returns only    *)
(* after MAX_RETRIES failed connects in a row, at least 30 and at most 60  *)
(* seconds of pauses later.                                                *)
PatienceBounded ==
  /\ pc = "done" /\ ~ stop => retries = MAX_RETRIES /\ waited >= 30
  /\ waited <= 60

(* As soon as the server knows the bot by a name, it is the one the bot    *)
(* takes for its own, and compares INVITE, JOIN and PRIVMSG with, although *)
(* refusals and new attempts cross on the wire.                            *)
KnowsItsNick ==
  sockfd \in clients /\ nick[sockfd] # NoNick => nick[sockfd] = currentNick

(* The bot asks for its channels only when it is registered: the server    *)
(* would let it in without a name.                                         *)
EntersRegistered == served \cap BotConn \subseteq registered

(* All names that NICK accepts have been refused: E433 led the bot to a    *)
(* name for which the server has only E432, which the bot ignores.         *)
NamesExhausted == sockfd \in clients /\ nick[sockfd] = NoNick /\ currentNick > LastNick

(* In the end the bot has returned, or stays connected without having been *)
(* asked to stop.  A signal ends it wherever it is, and without a server   *)
(* it gives up.  A session that stays gets the bot into its channel,       *)
(* although nicknames are taken by others and by what its earlier          *)
(* connections left behind, unless none is left for it or the server has   *)
(* lost the event for what the bot last sent: then it polls for ever.      *)
ComesToRest ==
  <>[](\/ pc = "done"
       \/ pc = "polling" /\ ~ initiated /\ (sockfd \in served \cup missed \/ NamesExhausted))
=============================================================================
