------------------------------ MODULE BotView ------------------------------
(***************************************************************************)
(* One channel of the server (module Channel) and the bot that moderates   *)
(* it: the bot's list of the channel's operators, kept up by what the      *)
(* server announces (Bot::handle_message), its filter, and its joining.    *)
(*                                                                         *)
(* The bot looks operators up by nickname, in a list that follows 353,     *)
(* MODE, PART and QUIT; the hand-over to a new operator is not announced,  *)
(* and NICK, KICK and 324 it ignores.  Announcements and the bot's own     *)
(* requests travel in FIFO order, and the server handles other clients     *)
(* meanwhile.                                                              *)
(*                                                                         *)
(* What is announced need not arrive.  The bot's parser drops lines of     *)
(* more than 512 bytes, which a long user name, parting message or list of *)
(* nicknames makes; Channel::message ignores a send that fails; userList   *)
(* throws when a member is no client.  And a client removed for a wrong    *)
(* PASS, or whose quit skips this channel, leaves its descriptor behind    *)
(* without a word (see ChannelServer).                                     *)
(*                                                                         *)
(* Messages the bot ignores are not represented, nor is its own name in    *)
(* the list, which it never looks up.  The filter has one word, channel    *)
(* modes other than +o are left out, and so is the crash that a KICK of an *)
(* inherited descriptor can cause (see ChannelServer).                     *)
(***************************************************************************)
EXTENDS Channel, Sequences

CONSTANTS
  Bot,          \* the bot's descriptor
  Name,         \* nicknames of the other clients
  BotName,      \* the bot's nickname
  NoName,       \* the empty nickname
  MaxUnderWay   \* bound: messages and requests under way when others act

ASSUME BotViewConstants ==
  /\ Bot \in Fd
  /\ BotName \notin Name /\ NoName \notin Name /\ BotName # NoName
  /\ MaxUnderWay \in Nat

People == Fd \ {Bot}

VARIABLES
  ch,           \* the channel
  online,       \* the connected clients; the bot always is
  inside,       \* the clients that have the channel in their own list
  nick,         \* the nickname of each client
  toBot,        \* announcements and messages on their way to the bot
  toServer,     \* the bot's requests on their way to the server
  channel_ops,  \* Bot::channel_ops for the channel
  filtered,     \* is the word in Bot::channel_filters?
  joined,       \* is the channel in Bot::joined_channels?
  misled,       \* history: names the bot has reason to think an operator's
                \* that ceased to be one's, or never were, without a word
  unannounced   \* history: operators whose office or present name the bot,
                \* being on the channel, was not told

serverVars == <<ch, online, inside, nick>>
botVars == <<channel_ops, filtered, joined>>
history == <<misled, unannounced>>
vars == <<serverVars, toBot, toServer, botVars, history>>

Announce(type, name) == [type |-> type, name |-> name]

(* What somebody says on the channel: a command to change the filter       *)
(* (!filter or !unfilter, with any words), which carries what he was when  *)
(* he gave it (history), or the word.                                      *)
Order(name, standing) == [type |-> "command", name |-> name, standing |-> standing]
Word(name) == [type |-> "word", name |-> name]

ToBot ==
  [type : {"MODE", "PART", "QUIT"}, name : Name]
  \cup [type : {"353"}, ops : SUBSET Name]
  \cup [type : {"JOIN", "INVITE"}]
  \cup [type : {"command"}, name : Name,
        standing : {"operator", "unannounced", "misled", "user"}]
  \cup [type : {"word"}, name : Name]

ToServer == [cmd : {"JOIN"}] \cup [cmd : {"KICK"}, name : Name]

TypeOK ==
  /\ ch \in ChannelState /\ ch.users \cap ch.oper = {}
  /\ online \subseteq Fd /\ Bot \in online
  /\ inside \subseteq online \cap Members(ch)
  /\ nick \in [Fd -> Name \cup {BotName, NoName}]
  /\ \A f \in Fd \ online : nick[f] = NoName
  /\ \A f, g \in Fd : nick[f] = nick[g] => f = g \/ nick[f] = NoName
  /\ toBot \in Seq(ToBot) /\ toServer \in Seq(ToServer)
  /\ channel_ops \subseteq Name
  /\ filtered \in BOOLEAN /\ joined \in BOOLEAN
  /\ misled \subseteq Name /\ unannounced \subseteq ch.oper

(* The bot has connected; the others come and go as they like. *)
Init ==
  /\ ch = NewChannel /\ online = {Bot} /\ inside = {}
  /\ nick = [f \in Fd |-> IF f = Bot THEN BotName ELSE NoName]
  /\ toBot = <<>> /\ toServer = <<>>
  /\ channel_ops = {} /\ filtered = FALSE /\ joined = FALSE
  /\ misled = {} /\ unannounced = {}
-----------------------------------------------------------------------------
Present == Bot \in Members(ch)

(* Has the bot been told of any operator, or is it about to be? *)
Informed ==
  channel_ops # {} \/ \E i \in DOMAIN toBot : toBot[i].type \in {"353", "MODE"}

(* Channel::message as far as the bot is concerned: it may hear what it is *)
(* there for.  An empty nickname tells it nothing, and its own office does *)
(* not matter to it.                                                       *)
Announced(type, name, heard) ==
  /\ heard \in BOOLEAN
  /\ heard => Present /\ name \in Name
  /\ toBot' = IF heard THEN Append(toBot, Announce(type, name)) ELSE toBot

(* The nicknames of the others among the clients S. *)
Names(S) == { nick[f] : f \in S } \cap Name

(* The name that a bot which has been told of operators takes for one's,   *)
(* if f is one (history).                                                  *)
GivenUp(f) == IF Informed THEN Names(ch.oper \cap {f}) ELSE {}

(* The client that a scan of S for some nickname ends at (cf.              *)
(* ChannelServer): a member that is no client ends the command.            *)
Designated(S) ==
  { g \in S \cap online : \A h \in S : h < g => h \in online /\ nick[h] # nick[g] }

(* May client f govern the channel?  It is asked for its own list and for  *)
(* its office. *)
MayOperate(f) == f \in inside \cap ch.oper

(* Handler::acceptClient.  The descriptor is the lowest free one; a        *)
(* channel may still hold it from its last client.                         *)
Connect(f) ==
  /\ f \notin online
  /\ \A g \in Fd \ online : f <= g
  /\ online' = online \cup {f}
  /\ UNCHANGED <<ch, inside, nick, toBot, toServer, botVars, history>>

(* JoinCommand of another client; its announcement means nothing to the    *)
(* bot. *)
Join(f) ==
  /\ f \in online
  /\ Admits(ch, f, NoKey)
  /\ ch' = AddUser(ch, f)
  /\ inside' = inside \cup {f}
  /\ UNCHANGED <<online, nick, toBot, toServer, botVars, history>>

(* removeUser on the channel, which announces the departure but not who    *)
(* succeeds the last operator.                                             *)
Depart(f, cmd, heard) ==
  /\ f \in inside
  /\ ch' = IF Vacated(ch, f) THEN NewChannel ELSE RemoveUser(ch, f)
  /\ inside' = inside \ {f}
  /\ Announced(cmd, nick[f], heard)
  /\ misled' = IF heard THEN misled \ {nick[f]} ELSE misled \cup GivenUp(f)
  /\ unannounced' = IF Present THEN (unannounced \cup (ch'.oper \ ch.oper)) \ {f} ELSE {}
  /\ UNCHANGED <<toServer, botVars>>

(* PartCommand. *)
Leave(f, heard) == Depart(f, "PART", heard) /\ UNCHANGED <<online, nick>>

(* Server::removeClient. *)
RemoveClient(f) ==
  /\ online' = online \ {f}
  /\ nick' = [nick EXCEPT ![f] = NoName]

(* QuitCommand of a client whose quit visits the channel. *)
Quit(f, heard) == Depart(f, "QUIT", heard) /\ RemoveClient(f)

(* Gone without a word: a wrong PASS, or a QUIT that does not visit the    *)
(* channel, because the client is not on it or because quit skips it.      *)
Vanish(f) ==
  /\ f \in online
  /\ RemoveClient(f)
  /\ inside' = inside \ {f}
  /\ misled' = misled \cup GivenUp(f)
  /\ UNCHANGED <<ch, toBot, toServer, botVars, unannounced>>

(* ModeCommand +o: makeOperator announces it under the nickname.  When     *)
(* some member cannot be sent the announcement the promotion is taken back *)
(* (below), unless the error reply cannot be sent either.                  *)
Promote(f, g, heard) ==
  /\ MayOperate(f) /\ g \in Designated(ch.users)
  /\ ch' = MakeOperator(ch, g)
  /\ Announced("MODE", nick[g], heard)
  /\ misled' = IF heard THEN misled \ {nick[g]} ELSE misled
  /\ unannounced' = IF Present /\ ~ heard THEN unannounced \cup {g} ELSE unannounced
  /\ UNCHANGED <<online, inside, nick, toServer, botVars>>

(* ModeCommand +o that is announced and then taken back without a word:    *)
(* the announcement could not be sent to every member, or a limit that is  *)
(* no number follows in the same mode string.                              *)
PromoteRolledBack(f, g) ==
  /\ MayOperate(f) /\ g \in Designated(ch.users)
  /\ Announced("MODE", nick[g], TRUE)
  /\ misled' = misled \cup {nick[g]}
  /\ UNCHANGED <<serverVars, toServer, botVars, unannounced>>

(* The tests of KickCommand that are about the target. *)
MayBeKicked(g) ==
  /\ g \in Designated(ch.users)
  /\ \A op \in ch.oper : op \in online /\ nick[op] # nick[g]

(* KickCommand of another operator. *)
Kick(f, g) ==
  /\ MayOperate(f) /\ MayBeKicked(g)
  /\ ch' = KickUser(ch, g)
  /\ inside' = inside \ {g}
  /\ unannounced' = IF g = Bot THEN {} ELSE unannounced
  /\ UNCHANGED <<online, nick, toBot, toServer, botVars, misled>>

(* NickCommand, inside the channel or not. *)
Rename(f, n) ==
  /\ f \in online /\ n \notin Names(online)
  /\ nick' = [nick EXCEPT ![f] = n]
  /\ misled' = misled \cup GivenUp(f)
  /\ unannounced' = IF Present THEN unannounced \cup (ch.oper \cap {f}) ELSE {}
  /\ UNCHANGED <<ch, online, inside, toBot, toServer, botVars>>

(* InviteCommand for the bot, by a member, or for a channel that does not  *)
(* exist.  (That the channel remembers the invitation matters only to +i.) *)
Invite(f) ==
  /\ f \in online
  /\ IsEmpty(ch) \/ (f \in Members(ch) /\ ~ Present)
  /\ toBot' = Append(toBot, [type |-> "INVITE"])
  /\ UNCHANGED <<serverVars, toServer, botVars, history>>

Standing(f) ==
  IF f \in ch.oper
  THEN IF f \in unannounced THEN "unannounced" ELSE "operator"
  ELSE IF nick[f] \in misled THEN "misled" ELSE "user"

(* PrivmsgCommand to the channel.  (The bot ignores the nameless.) *)
Say(f) ==
  /\ f \in inside /\ nick[f] # NoName /\ Present
  /\ \E m \in {Order(nick[f], Standing(f)), Word(nick[f])} : toBot' = Append(toBot, m)
  /\ UNCHANGED <<serverVars, toServer, botVars, history>>
-----------------------------------------------------------------------------
(* What the bot gets to hear of its own JOIN: the names, read after it has *)
(* entered, and the echo of the JOIN.  A member that is no client makes    *)
(* userList throw before either; a list of names over 512 bytes is         *)
(* dropped, and a send that fails keeps the echo back.                     *)
Welcomed(names, echo) ==
  /\ names \in BOOLEAN /\ echo \in BOOLEAN
  /\ names \/ echo => Members(ch') \subseteq online
  /\ toBot' = toBot
       \o (IF names THEN <<[type |-> "353", ops |-> Names(ch'.oper)]>> ELSE <<>>)
       \o (IF echo THEN <<[type |-> "JOIN"]>> ELSE <<>>)

(* JoinCommand of the bot.  One that is refused (443) changes nothing. *)
ServeJoin(names, echo) ==
  /\ Head(toServer).cmd = "JOIN"
  /\ IF Admits(ch, Bot, NoKey)
     THEN /\ ch' = AddUser(ch, Bot)
          /\ inside' = inside \cup {Bot}
          /\ Welcomed(names, echo)
          /\ misled' = IF names THEN misled \ Names(ch'.oper) ELSE misled
          /\ unannounced' = IF names THEN {} ELSE ch'.oper
     ELSE UNCHANGED <<ch, inside, toBot, history>>

(* KickCommand of the bot, which must be an operator by now, for somebody  *)
(* who must still be a user and have the name.                             *)
ServeKick ==
  /\ Head(toServer).cmd = "KICK"
  /\ \E gone \in SUBSET ch.users :
       /\ gone = { g \in ch.users : /\ Bot \in ch.oper /\ MayBeKicked(g)
                                    /\ nick[g] = Head(toServer).name }
       /\ ch' = [ch EXCEPT !.users = @ \ gone]
       /\ inside' = inside \ gone
  /\ UNCHANGED <<toBot, history>>

(* The server handles the next request of the bot. *)
Serve ==
  /\ toServer # <<>>
  /\ ServeKick \/ \E names, echo \in BOOLEAN : ServeJoin(names, echo)
  /\ toServer' = Tail(toServer)
  /\ UNCHANGED <<online, nick, botVars>>
-----------------------------------------------------------------------------
(* Mutant of Heard: a departure by QUIT does not reach the list. *)
HeardNoQuit(ops, m) ==
  IF m.type = "353" THEN ops \cup m.ops
  ELSE IF m.type = "MODE" THEN ops \cup {m.name}
  ELSE IF m.type = "PART" THEN ops \ {m.name}
  ELSE ops

(* Mutant of Heard: only the first list of names counts. *)
HeardModeLost(ops, m) ==
  IF m.type = "353" THEN ops \cup m.ops
  ELSE IF m.type \in {"PART", "QUIT"} THEN ops \ {m.name}
  ELSE ops

(* channel_ops after 353, MODE, PART and QUIT.  353 adds the nicknames     *)
(* with an @ to what is already there.                                     *)
Heard(ops, m) ==
  IF m.type = "353" THEN ops \cup m.ops
  ELSE IF m.type = "MODE" THEN ops \cup {m.name}
  ELSE IF m.type \in {"PART", "QUIT"} THEN ops \ {m.name}
  ELSE ops

(* The test of !filter and !unfilter. *)
Authorised(m) == m.name \in channel_ops

(* channel_filters after a message: a command that is obeyed can put the   *)
(* word there, take it out, or be about other words.                       *)
FilterAfter(m) ==
  IF m.type = "command" /\ Authorised(m) THEN filtered' \in BOOLEAN ELSE filtered' = filtered

(* What the bot may ask the server for upon a message: the KICK of whoever *)
(* says the word, twice if the word is not the end of the text, and the    *)
(* JOIN of a channel it does not think it is in.                           *)
Wants(m) ==
  IF m.type = "word" /\ filtered
  THEN LET kick == [cmd |-> "KICK", name |-> m.name] IN { <<kick>>, <<kick, kick>> }
  ELSE IF m.type = "INVITE" /\ ~ joined THEN { <<[cmd |-> "JOIN"]>> }
  ELSE { <<>> }

(* Bot::handle_message for the next message. *)
Handle ==
  /\ toBot # <<>>
  /\ LET m == Head(toBot) IN
       /\ channel_ops' = Heard(channel_ops, m)
       /\ FilterAfter(m)
       /\ joined' = (joined \/ m.type = "JOIN")
       /\ \E w \in Wants(m) : toServer' = toServer \o w
  /\ toBot' = Tail(toBot)
  /\ UNCHANGED <<serverVars, history>>
-----------------------------------------------------------------------------
(* The other clients act while there is room for a message, under the      *)
(* bound; the bot and the server go on with what is under way.             *)
Room == Len(toBot) + Len(toServer) < MaxUnderWay

Others ==
  Room /\ \E f \in People :
    \/ Connect(f)
    \/ Join(f)
    \/ \E heard \in BOOLEAN : Leave(f, heard) \/ Quit(f, heard)
    \/ Vanish(f)
    \/ \E g \in Fd \ {f} :
         (\E heard \in BOOLEAN : Promote(f, g, heard)) \/ PromoteRolledBack(f, g) \/ Kick(f, g)
    \/ \E n \in Name : Rename(f, n)
    \/ Invite(f)
    \/ Say(f)

Next == Others \/ Serve \/ Handle

Spec == Init /\ [][Next]_vars
-----------------------------------------------------------------------------
(* A command about to be judged by the bot. *)
Judging == toBot # <<>> /\ Head(toBot).type = "command"

(* README.md:12-13, "(operators only)": whom the bot lets change the       *)
(* filter was an operator when he asked for it.                            *)
OperatorsOnly ==
  Judging /\ Authorised(Head(toBot)) => Head(toBot).standing \in {"operator", "unannounced"}

(* It fails in known ways only: the name was an operator's who gave it up, *)
(* or who left without the bot's hearing of it (a wrong PASS, a quit that  *)
(* skips the channel, a line that is lost, the bot away), or was announced *)
(* and taken back.  Delays, losses, promotions, announced departures and   *)
(* kicks in any order do not make the bot trust anybody else.              *)
TrustExplained ==
  Judging /\ Authorised(Head(toBot)) => Head(toBot).standing # "user"

(* And every operator can use the filter, except one whose office or       *)
(* present name never reached the bot: the heir of the last operator, one  *)
(* that has changed its name, and those whose 353 or MODE was lost, the    *)
(* bot having joined a channel with a closed descriptor in it included.    *)
OperatorsObeyed ==
  Judging /\ Head(toBot).standing = "operator" => Authorised(Head(toBot))
=============================================================================
