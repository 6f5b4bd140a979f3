---------------------------- MODULE Registration ----------------------------
(***************************************************************************)
(* How a connection becomes a registered client: the password gate and the *)
(* welcome of CommandDispatcher::dispatch around the commands that feed    *)
(* them (PASS, NICK, USER, CAP), with JOIN for every other command the     *)
(* dispatcher knows and a word it does not know.  What the other commands  *)
(* do is the business of ChannelServer.                                    *)
(*                                                                         *)
(* A nickname is a number: k is the k-th name a client may think of, and   *)
(* those above LastNick are longer than the nine characters NICK accepts.  *)
(***************************************************************************)
EXTENDS Naturals

CONSTANTS
  Conn,      \* connections, each used once
  LastNick,  \* the last nickname that NICK accepts
  NoNick,    \* the empty nickname
  Secret,    \* words a client may give as a password
  NoPass,    \* the empty password
  Password   \* the password the server was started with, or NoPass

ASSUME RegistrationConstants ==
  /\ LastNick \in Nat
  /\ NoNick \notin Nat
  /\ NoPass \notin Secret
  /\ Password \in Secret \cup {NoPass}

(* The commands of a client, as the parser delivers them; Pass(NoPass) is  *)
(* PASS without a parameter.                                               *)
Pass(secret) == [cmd |-> "PASS", secret |-> secret]
Nick(n) == [cmd |-> "NICK", nick |-> n]
Command(cmd) == [cmd |-> cmd]

(* Those without an argument that matters here; "WORD" is on no handler's  *)
(* map.                                                                    *)
Plain == { Command(cmd) : cmd \in {"USER", "CAP", "JOIN", "QUIT", "WORD"} }

Request ==
  [cmd : {"PASS"}, secret : Secret \cup {NoPass}] \cup [cmd : {"NICK"}, nick : Nat] \cup Plain

VARIABLES
  clients,        \* Server::_clients
  authenticated,  \* the clients whose Client::_authenticated is set
  registered,     \* ... and whose Client::_registered is set
  named,          \* ... and whose User::_user is not empty
  served,         \* ... and that have had some other command executed
  nick            \* User::_nick of each connection

serverVars == <<clients, authenticated, registered, named, served, nick>>

RegistrationTypeOK ==
  /\ clients \subseteq Conn
  /\ authenticated \subseteq clients
  /\ registered \subseteq clients
  /\ named \subseteq clients
  /\ served \subseteq clients
  /\ nick \in [Conn -> Nat \cup {NoNick}]
  /\ \A c \in Conn \ clients : nick[c] = NoNick

RegistrationInit ==
  /\ clients = {} /\ authenticated = {} /\ registered = {}
  /\ named = {} /\ served = {}
  /\ nick = [c \in Conn |-> NoNick]

(* Server::addClient. *)
AddClient(c) ==
  /\ c \notin clients
  /\ clients' = clients \cup {c}
  /\ UNCHANGED <<authenticated, registered, named, served, nick>>

(* Server::removeClient. *)
RemoveClient(c) ==
  /\ clients' = clients \ {c}
  /\ authenticated' = authenticated \ {c}
  /\ registered' = registered \ {c}
  /\ named' = named \ {c}
  /\ served' = served \ {c}
  /\ nick' = [nick EXCEPT ![c] = NoNick]
-----------------------------------------------------------------------------
(* Mutant of Refused: a client may take a nickname before the password. *)
RefusedButNick(c, m) ==
  /\ m.cmd # "WORD"
  /\ \/ Password # NoPass /\ c \notin authenticated /\ m.cmd \notin {"PASS", "CAP", "NICK"}
     \/ m.cmd = "PASS" /\ m.secret \notin {NoPass, Password}

(* The gate of dispatch.  A word that is no command goes past it, to       *)
(* UnknownCommand, which only answers.  When the server has no password, a *)
(* PASS is wrong whatever it says.                                         *)
Refused(c, m) ==
  /\ m.cmd # "WORD"
  /\ \/ Password # NoPass /\ c \notin authenticated /\ m.cmd \notin {"PASS", "CAP"}
     \/ m.cmd = "PASS" /\ m.secret \notin {NoPass, Password}

(* NICK: too long a name gets E432, one that somebody has, be it the       *)
(* client itself, E433.                                                    *)
Taken(n) == \E d \in clients : nick[d] = n
NickAccepted(n) == n <= LastNick /\ ~ Taken(n)

(* Mutant of Completes: the flag is set as soon as there is a nickname. *)
CompletesWithNick(c) == nick'[c] # NoNick

(* The test of dispatch after a command, on what the command has left. *)
Completes(c) == nick'[c] # NoNick /\ c \in named'

(* _welcome, if the test says so. *)
Welcome(c) == registered' = IF Completes(c) THEN registered \cup {c} ELSE registered

(* Each command with what follows it in dispatch.  A reply that cannot be  *)
(* sent (~ sent) throws past the rest of the command and past the welcome; *)
(* USER and PASS have no reply when they succeed.                          *)
DoPass(c) ==
  /\ authenticated' = authenticated \cup {c}
  /\ UNCHANGED <<clients, named, served, nick>>
  /\ Welcome(c)

DoNick(c, n, sent) ==
  /\ nick' = IF NickAccepted(n) /\ sent THEN [nick EXCEPT ![c] = n] ELSE nick
  /\ UNCHANGED <<clients, authenticated, named, served>>
  /\ IF sent THEN Welcome(c) ELSE UNCHANGED registered

DoUser(c, sent) ==
  /\ named' = named \cup {c}
  /\ UNCHANGED <<clients, authenticated, served, nick>>
  /\ IF sent \/ c \notin named THEN Welcome(c) ELSE UNCHANGED registered

(* JOIN has been executed by the time it sends anything. *)
DoJoin(c, sent) ==
  /\ served' = served \cup {c}
  /\ UNCHANGED <<clients, authenticated, named, nick>>
  /\ IF sent THEN Welcome(c) ELSE UNCHANGED registered

(* CAP and an empty PASS change nothing, but the welcome test runs again. *)
DoNothing(c, sent) ==
  /\ UNCHANGED <<clients, authenticated, named, served, nick>>
  /\ IF sent THEN Welcome(c) ELSE UNCHANGED registered

(* CommandDispatcher::dispatch of request m of client c. *)
Dispatch(c, m, sent) ==
  /\ c \in clients
  /\ \/ (Refused(c, m) \/ m.cmd = "QUIT") /\ RemoveClient(c)
     \/ m.cmd = "WORD" /\ UNCHANGED serverVars
     \/ ~ Refused(c, m) /\ \/ m.cmd = "PASS" /\ m.secret # NoPass /\ DoPass(c)
                           \/ m.cmd = "NICK" /\ DoNick(c, m.nick, sent)
                           \/ m.cmd = "USER" /\ DoUser(c, sent)
                           \/ m.cmd = "JOIN" /\ DoJoin(c, sent)
                           \/ m \in {Command("CAP"), Pass(NoPass)} /\ DoNothing(c, sent)

(* Any client, any request, replies that can be sent or not. *)
RegistrationNext ==
  \/ \E c \in Conn : AddClient(c)
  \/ \E c \in Conn, m \in Request, sent \in BOOLEAN : Dispatch(c, m, sent)

RegistrationSpec == RegistrationInit /\ [][RegistrationNext]_serverVars
-----------------------------------------------------------------------------
(* In whatever order PASS, NICK and USER come, repeated or failing as they *)
(* may, a client counts as registered exactly when both its nickname and   *)
(* its user name are known: nobody is left waiting for the welcome, and    *)
(* nobody gets it early (dispatch, _welcome).                              *)
WelcomedWhenKnown ==
  registered = { c \in clients : nick[c] # NoNick /\ c \in named }

(* On a server with a password, whoever has a nickname, a user name, the   *)
(* welcome or any other command executed has given the password first,     *)
(* unknown words and CAP notwithstanding.                                  *)
PasswordFirst ==
  Password # NoPass =>
    \A c \in clients :
      nick[c] # NoNick \/ c \in registered \cup named \cup served => c \in authenticated
=============================================================================
