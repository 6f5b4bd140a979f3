# irc_hive in TLA+

A specification of the IRC server and bot of this repository: TLA+ modules
translated from the C++ source, TLC configurations that check them on small
instances, and theorems checked by TLAPS.  Paths below are relative to the
repository (`src/` is the server's source directory, `inc/` its headers).

## The system

`main` builds one `Server` and calls `Server::poll` for ever.  `poll` takes a
batch of events from epoll and runs, for each, `Handler::acceptClient` or the
client's handler `Handler::clientWrite`.  The handler runs in a
`std::async(launch::async)` thread whose future is destroyed at once, so `poll`
waits for it: **handlers never overlap, and one command is atomic** with respect
to every other command.  Concurrency is between the server, the kernel (events,
descriptors) and the peers.

| component | state | operations | interacts with |
|---|---|---|---|
| Event loop (`src/Server.cpp` poll, registerHandler, `src/Handler.cpp`, `src/Client.cpp`) | epoll registrations, the current batch, `_clients` | accept, read, remove | kernel; feeds RecvParser, then the dispatcher |
| RecvParser (`src/RecvParser.cpp`) | `_buffer`, queue of messages | `feed` | called by clientWrite and by the bot |
| CommandDispatcher (`src/CommandDispatcher.cpp`) | handler table; the client's `_authenticated`, `_registered` | password gate, dispatch, welcome | calls one command |
| Commands (`src/Command.cpp`) | none of their own | NICK USER JOIN PART PRIVMSG KICK INVITE TOPIC MODE QUIT CAP WHOIS WHO PING PASS | change Server, Channel, User; send replies |
| Server maps (`src/Server.cpp`) | `_clients` by descriptor, `_channels` by name | add, remove, find | |
| Channel (`src/Channel.cpp`) | `_users`, `_oper`, `_invite` (sets of descriptors), `_mode`, `_limit`, `_passwd`, `_topic` | addUser, removeUser, kick, makeOperator, invite, set... | calls back into User (join, exitChannel) and Server (removeChannel) |
| User (`src/User.cpp`) | `_nick`, `_user`, `_hostname`, `_channels` (vector of Channel pointers) | join, exitChannel, quit, getChannel | calls Channel::removeUser |
| Bot (`bot/Bot.cpp`) | connection, nickname attempts, back-off; operators, filtered words and joined channels as it believes them | run loop, handle_message | a client of the server, over TCP; its only knowledge of the server is what is announced to it |
| main, bot/main | arguments, signal flags | | |

Membership is kept twice: in the channel's sets of descriptors and in the user's
list of pointers.  Most of what can go wrong goes wrong between the two, and
with descriptor numbers the kernel gives out again.

What makes each component correct, and where it is hard:

* **Channel / User / Server maps / Commands** - sets and lists agree; a channel
  on the map has an operator; a listed pointer is never dangling; succession
  when the last operator leaves; admission by limit, invitation and key; mode
  strings that fail half way.  Hard because `quit` erases from the vector it
  iterates over, `removeClient` touches no channel, and an exception thrown by a
  failed `send` skips a rollback.
* **Event loop** - no input is stranded, connections are accepted, closed peers
  are forgotten.  Hard because clients are edge triggered while every event is
  answered by a single `recv`, and a removed client ends the batch.
* **RecvParser** - the messages depend on the bytes and not on how they arrive.
* **CommandDispatcher** - nothing is done for a client before its password; one
  welcome, exactly when nickname and user name are known.  Hard because the
  order of PASS, NICK and USER is free, a reply that cannot be sent throws past
  the test, and words without a handler go around the gate.
* **Bot** - reconnects with bounded effort, under a name the server accepts,
  without leaking sockets; its picture of who is operator follows the server's
  announcements.  Hard because a session can end in five ways, signals come at
  any time, the server keeps dead connections and their nicknames, requests
  and refusals cross on the wire, not every change is announced, and not every
announcement arrives.

`PROJECT.json` lists the hazards at their lines and the properties that guard
each of them.

## The modules

| module | models | role |
|---|---|---|
| `Channel` | class Channel | operators on a record: no variables |
| `User` | User's channel list | operators on a sequence |
| `ChannelServer` | Server's maps, User, Channel, Commands | the state machine: one action per command |
| `Rooms` | - | abstract specification of rooms, implemented by `ChannelServer` |
| `QuitLoop` | User::quit in the memory of its vector | justifies two operators of `User` |
| `EventLoop` | poll, acceptClient, clientWrite, kernel, peers | state machine with fairness |
| `RecvParser` | RecvParser | state machine fed with arbitrary pieces |
| `Registration` | dispatch's gate and welcome; PASS, NICK, USER, CAP | state machine; the server that `BotSession` talks to |
| `BotSession` | Bot::run, its connections, crashes, rivals | composition of the bot's process with `Registration`, with fairness |
| `BotView` | Bot::handle_message against one channel | composition of the bot's lists with `Channel` |
| `MembershipProofs`, `ChannelServerProofs`, `GovernanceProofs`, `QuitLoopProofs`, `EventLoopProofs`, `BotSessionProofs`, `BotViewProofs`, `RecvParserProofs` | - | lemmas and theorems |
| `MCChannelServer`, `MCEventLoop`, `MCBotSession`, `MCBotView` | - | sets of values for TLC |

### ChannelServer

A client is its descriptor, as in the code.  `clients`, `channels`, `chan[c]`
stand for `_clients`, `_channels` and the Channel behind each name; `nick[f]`
and `joined[f]` for the user of client `f`.  A name that is not on the map is
`NewChannel`, a descriptor without a client has an empty list: what the
constructors would build.  `Accept` gives out the lowest free descriptor, so
numbers are reused at once.

Each action is one command from its guard clauses to its last assignment.  A
refused command changes nothing and is no step.  Exceptions are modelled where
they cut a command short after it has changed something
(`ModeCommandThrows`), or keep it from acting (`Designated`: looking up a member
that is not a client throws).  Undefined behaviour is a choice: `KickCommand`
of a member whose list lacks the channel reads past the end of the vector
(`StrayExits`), `QuitCommand` may call a method of a destroyed channel;
`WhoCommandBare` copies a string from a null address and always kills the
server.

Four specifications share the actions:

* `Spec`: everything clients can do.
* `OrderlySpec`: clients quit from at most two channels, are rejected by the
  password only before they join anything, and send WHO with its parameter.
  These are exactly the three things the code does not survive well; the
  theorems about `OrderlySpec` show there is no fourth one as far as membership
  and undefined behaviour are concerned.
* `QuitSpec` (in `MCChannelServer`): orderly, but quitting from any number.
* `AliveSpec` (in `MCChannelServer`): `Spec` without the bare WHO, which would
  only double the states of the largest run.

Left out: texts of replies, the display-only mode `s`, times, user and host
names, repetitions of letters in a mode string (refused by the code).  A mode
string is what it enables, what it disables, and which of +k and +l precede +o.

### QuitLoop

The range-for of `User::quit` over a vector that `exitChannel` shrinks, word by
word.  `WalkVisits` and `WalkStrays` say that its outcome is that of
`QuitVisited` and `QuitRereads`, the two operators `ChannelServer` uses, so the
composed model needs no vector memory.

### EventLoop

`ready` is the kernel's list of edges not yet reported, `batch` what `poll` has
not yet looked at, in any order.  `Read`/`ReadQuit` are `clientWrite` without
and with a command that removes the client; after the latter `poll` returns and
the batch is gone.  The listening socket is level triggered.  `Handlers`, `Mask`
and `ClosedBits` are computed as `setHandler`, `_reloadHandler` and `poll` do:
a client has a handler for input only, is watched edge-triggered, and poll's
test for a closed connection compares with no bit at all.  So `HangUp` makes the
descriptor readable (end of file) and nothing removes the client.  `Dial`,
`Send`, `HangUp` are the peers' and the kernel's: external.

`missed` is a history variable: the descriptors that have unread input because
a recv left some or because poll cut their batch short.  Nothing reads it but
the properties, which say that these two are the only ways to lose a wake-up
(`NoLostWakeup`), and that they lose it for good (`StrandedWait`): such a client
is not read again until it sends something more or hangs up.

Fairness: `WF_vars(Server)`, no more.  `main` calls `poll` in a loop that only a
signal ends, and `poll` walks its batch to the end or returns; nothing is
assumed of peers.

### RecvParser

Bytes are CR, LF, blank, colon, other.  `Feed` appends any piece, puts "\r\n" for
every kind of line end (`NewLine`, `Normalized`) and runs the loop of
`_parseBuffer` (`Turn`, `Parsed`), which takes one line off the buffer per turn
and queues it if it is a message.  The parsing of a line is abstracted to whether
it is short enough and has a command behind the prefix it may start with
(`IsMessage`).

The reference `Read` is another parser altogether: it takes one byte at a time
and ends the line at every CR and every LF.  It has no pieces, so agreeing with
it means that the cuts do not matter.

### Registration

The flags of Client and the names of User as sets of connections.  `Dispatch`
is `CommandDispatcher::dispatch` for one request: the gate (`Refused`), the
command, and `Welcome`, the test that follows every command.  Whether a reply
can be sent is an input (`sent`): a failed `send` throws, past the rest of the
command and past the welcome.  JOIN stands for every command that does
something beyond registration and "WORD" for a word with no handler.  A
nickname is a number; those above `LastNick` are longer than nine characters.

### BotSession

The bot's process, a state machine over `pc` that follows `Bot::run` statement
by statement (head, connecting, polling, closing, closed, sleeping, done), with
its fields `sockfd`, `retries`, `backoff`, `autoJoined`, `nick_attempt`,
`currentNick`, `cfg.pass` and the flags the signal handler sets.  `open` and
`waited` record what the process has open and how long it has slept.  Each
connection is a pair of FIFO channels (`toServer`, `inbox`), accepted by the
server some time after `connect` returned; at the other end is `Registration`.
Every request is handled by `Dispatch`, and of the replies those the bot acts on
(001, 433) are put on the way back.  `missed` is what `EventLoop` says of the
real server (`StrandedWait`): a command that removes its client makes `poll` drop
the rest of the batch (`CutShort`), and a connection whose event was in it is not
read again until it sends something more or closes.

Faults: `Signal` at any moment, `Restart` (the process is killed and started
again: what it had sent still arrives, and its connection stays a client,
because the server never notices: see `closed` below), poll failing
(`LeavesPolling(PollFails)`), the server hanging up (`ServerGone`, which a wrong
password causes), connects that fail at any time, rivals that take
nicknames and drop others' events by leaving, and events of the bot that are lost
with them.

Fairness: `WF_vars(BotStep)`, the bot's own loop runs (poll has a time-out, the
sleeps end), and `WF_vars(ServerStep)`: the server accepts what waits and reads
what it has not missed.  The second is what `EventLoop` shows of the server, by
`AcceptsProceed` and `InputServed`, as long as it has descriptors left; it does
not say that a request whose event was lost is ever read.  (`missed` here is for
batches cut short only: the requests of a login are far fewer than the `BUFSIZ`
bytes of one `recv`.)  Nothing is assumed of rivals, of
signals or crashes, nor that a server can be reached: whether a connect succeeds
is a choice inside `BotStep`.

`ComesToRest` has two exceptions, and both are the code's.  If the event of the
login, or of the NICK after a 433, is lost, the bot sends nothing more and polls
for ever (`bot/Bot.cpp:491`).  And if all short nicknames are taken
(`NamesExhausted`), the next one, of more than nine characters, is answered with
432, which the bot ignores: it stays connected without a name.

### BotView

One channel, as the server has it, and what the bot makes of it.  The server's
side is `ch` (with the operators of module `Channel`), `online` (`_clients`),
`inside` (who has the channel in his own list) and `nick`.  A member that is not
`online` is a closed descriptor left in the channel, one that is online but not
`inside` has inherited it with the number: both come about as they do in
`ChannelServer` (`Vanish`, `Connect`), and commands scan members as the code does,
so that a closed descriptor ends them with an exception (`Designated`,
`MayBeKicked`, `Welcomed`).  The bot's side is `channel_ops`, whether its word is in
`channel_filters`, and whether the channel is in `joined_channels`.

Actions of other clients: `Connect`, `Join`, `Leave` (PART), `Quit`, `Vanish`,
`Promote`, `PromoteRolledBack`, `Kick`, `Rename`, `Invite`, `Say`.  Of what
`Channel::message` sends to members, `Announced` puts on the way to the bot what
it acts on.  Hand-overs, renames and kicks change the channel without any message
the bot understands, and three more things keep news from it:

* An announcement may not arrive: `RecvParser` drops a line of more than 512
  bytes, and `Channel::message` goes on after a send that fails.  So `Leave`,
  `Quit`, `Promote` and the 353 of `ServeJoin` are heard or not, by choice; a line
  is sent whole or not at all.
* A departure may not be announced: a wrong PASS removes the client and tells no
  channel, and a QUIT skips a channel (`Vanish`).
* After the bot has entered a channel with a closed descriptor in it, `userList`
  throws, and neither the names nor the echo of the JOIN follow (`Welcomed`).

`Handle` is `handle_message`, `Serve` the server's handling of the bot's JOIN and
KICK.  Two history variables hold the excuses the bot has for being wrong:
`misled`, the names it has reason to think an operator's which ceased to be one's,
or never were, without its hearing of it; `unannounced`, the operators whose
office or present name never reached it.  Every command carries the `standing`
its sender had when he gave it.  The excuses are withdrawn as soon as the news
arrives by another way (a 353, a MODE, a PART): they do not pile up.  The bot's
own nickname in `channel_ops` is not represented: it never looks it up.

## Runs

Every action and every disjunct fires in some passing run.  Channels and
nicknames are symmetric where no property distinguishes them; descriptors are
not, because their order matters.  (`session` has liveness and no symmetry.)

| run | bounds | shows |
|---|---|---|
| `orderly` | 3 descriptors, 2 channels | sets and lists agree (`MembershipConsistent`), no undefined behaviour (`StaysUp`), and `ChannelServer` implements `Rooms` (`RoomsPromise`) |
| `ghosts` | 2 descriptors, 3 channels | with ghosts: `OperatorPresent`, `NoDanglingChannel`, `OperatorsStay` |
| `modes` | 3 descriptors, 1 channel, limit 2, 2 keys, 2 topics, 6 mode strings | `LimitDefined`, `NickUnique`, `OperatorsSucceed`, `AdmissionRespected`, `GovernedByOperator` |
| `quit_walk` | up to 7 channels, any of them shared | the walk of `quit` equals its summary |
| `wakeups` | 3 connections, 2 lines in flight against a recv of one, backlog 2, peers that quit and hang up | `NoLostWakeup`, `StrandedWait`, `InputServed`, `AcceptsProceed` |
| `chunks` | streams of 7 bytes in pieces of up to 3, lines of up to 3 | `CutsDoNotMatter`, `BufferIsUnfinishedLine` |
| `session` | 2 connections of the bot, 1 crash, 2 nicknames short enough, bot with the right or a wrong password, 1 rival that asks for one nickname and may leave, but never registers | `WelcomedWhenKnown`, `PasswordFirst`, `SocketsAccounted`, `PatienceBounded`, `KnowsItsNick`, `EntersRegistered`, `ComesToRest` |
| `bot_view` | 3 descriptors, the bot's in the middle; 2 nicknames for 2 others, who act while fewer than 2 messages and requests are under way; closed descriptors and nameless members included | `TrustExplained`, `OperatorsObeyed` |
| `sockets_quit`, `invited`, `closed`, `operators_only` | as small as the counterexample allows | what the code does differently from its documentation, below |

Why these bounds are enough to be interesting.  Three descriptors give a channel
an operator, a user who succeeds and one who does not, and a descriptor that is
closed and reused meanwhile; three channels are the fewest from which `quit`
skips one and re-reads another.  A limit of 2 with three clients is met,
exceeded by mode changes, and refused.  Seven channels contain the odd and even
cases of the walk several times.  Two lines against a recv of one make every
read that matters a short one; three connections give a batch in which one
quits, one is lost and one is new.  Seven bytes hold a message and a line that is too long, or two
lines, a "\r\n" cut in two and an unfinished one.  Two
connections let the second session meet the name the first has left behind, and
the rival can take the other: then no short name is left.  The rival can also
leave in the batch in which the bot's login waits.  All five failed connects and
all six pauses happen, at their real lengths.  In `bot_view` a bot in the middle
is the heir in one order of leaving and not in the other, and its 353 fails for a
closed descriptor before and after its own; either of the others can take the
name the other has given up.  The bound on what is under way is one on the other
clients only: the bot and the server always go on with it, so that answers and
requests can exceed it.

`CHECK_DEADLOCK FALSE` is stated where the system really stops: after a crash
(`ghosts`, `modes`), at the end of the walk or of the stream (`quit_walk`,
`chunks`), and where the server waits for peers that send nothing (`closed`).

### Where the code and its documentation disagree

Each of the first four is a run whose counterexample TLC produces.

* `sockets_quit`: `quit` from three channels leaves the closed descriptor in the
  middle one (`src/User.cpp:8`), against "set containing sockets"
  (`inc/Channel.hpp:25`).  The next client with that number is a member, or an
  operator, by descriptor.  A wrong PASS sent from inside a channel has the same
  effect (`src/CommandDispatcher.cpp:47`).
* `invited`: on a +i channel without a key an invited client is refused
  (`src/Channel.cpp:91`), against `README.md:9`.
* `closed`: a closed connection is never removed: the two handlers are
  registered under a combined bit that `setHandler` ignores, and `poll` tests
  `EPOLLRDHUP & EPOLLHUP`, which is 0 (`src/Server.cpp:135,150`).
* `operators_only`: the filter is for operators only (`README.md:12-13`), but the
  bot's list keeps the name of an operator who has taken another one, or whose
  departure it has not heard of, for whoever has that name next
  (`bot/Bot.cpp:173`).

Others are part of the models and are the exceptions their properties name:

* More input than one `recv` returns is left behind by an edge-triggered event
  (`src/Handler.cpp:12`), and a QUIT drops the other events of its batch
  (`src/Server.cpp:127`): `missed` in `NoLostWakeup` and `InputServed`, and, where
  the event is the bot's, in `ComesToRest`.
* A bot whose short names are all taken gets 432 and waits for ever
  (`bot/Bot.cpp:294`): `NamesExhausted` in `ComesToRest`.
* A departure that is not announced (`src/CommandDispatcher.cpp:47`,
  `src/User.cpp:8`) or whose line is dropped (`src/RecvParser.cpp:75`) leaves a name
  on the bot's list: `misled` in `TrustExplained`.
* A JOIN of a channel with a closed descriptor in it succeeds, but its 353 does
  not come (`src/Command.cpp:75`), or is too long: `unannounced` in
  `OperatorsObeyed`.
* The heir of the last operator is not announced (`src/Channel.cpp:126`), so the
  bot refuses its commands: `unannounced` in `OperatorsObeyed`.
* A mode string that promotes and then fails has announced the promotion and
  takes it back silently (`src/Command.cpp:277`): `misled` in `TrustExplained`.
* The KICK for a filtered word that is not the end of the text is sent twice,
  because `flush_token` keeps the word it has found (`bot/Bot.cpp:379`): `Wants`.
* `joined_channels` is never cleared (`bot/Bot.cpp:433`): a bot that was kicked
  ignores the next INVITE (`Wants`).

What survives all that is the subject of `ghosts`, `modes`, `wakeups`,
`session` and `bot_view`: a ghost gives its heir no power
over modes, key, limit, topic or members (`GovernedByOperator` and the guards of
KICK), because those commands also ask the user's own list - INVITE on a +i channel
is the one command of an operator that does not (`src/Command.cpp:182-188`); channels
keep an operator; no pointer dangles; the bot gets into its channel or ends, but
for the two exceptions of `ComesToRest`; and it trusts no mere user whose name was
not an operator's before, or announced as one.

## Proofs

All theorems hold for every value of the constants that satisfies the named
assumptions of the modules.

**Server** (`ChannelServerProofs`).  `TypeCorrect`, `OperatorsPresent`,
`NoDanglingPointer`, `LimitIsDefined` for `Spec`, from one inductive invariant
`StructInv`, and from it the action property `NobodyDemoted`; `NicknamesUnique`
from `NickInv`; `OrderlyMembership`, `OrderlyStaysUp` for `OrderlySpec`, from
`OrderlyInv`.

`StructInv` is TypeOK, "a channel on the map is `Sound` and a name off the map
is `NewChannel`", `NoDanglingChannel`, and "who is no client has an empty list".
The parts need each other: `removeUser` keeps a channel sound only if whoever
leaves is a member, which the list says; lists do not dangle because a channel
is destroyed only when its one member leaves, which soundness says; a new client
starts with an empty list only by the last part.  The quit of a ghost-making
client is harmless to it because the entries the walk skips belong to a list
that is destroyed in the same step.

`OrderlyInv` adds `MembershipConsistent` and `StaysUp`.  Each command is shown to
change set and list of one channel in the same way (`MirroredStep`); a quit from
at most two channels visits all of them (`ShortQuitVisitsAll`) and re-reads
none, and a KICK never meets a member without the list entry.

**Governance** (`GovernanceProofs`).  `OperatorsGovern`, `OperatorsFollow` and
`AdmissionHolds`, for `Spec` with all its ghosts.  Every command does one of
seven things to a channel that is on the map before and after it (`StepKinds`:
untouched, joined, left, kicked from, invited to, given a topic, given modes);
each theorem is then a distinction of these cases.  That the limit is compared
with the number of members needs the two sets to be disjoint and finite
(`DescriptorsFinite`).

**Rooms** (`GovernanceProofs`, second part).  `RoomsImplemented`: `OrderlySpec` implements `Rooms`.
There is one lemma per step of `Rooms` saying which change of the sets is that
step (`MapsEnter`, `MapsLeave`, ...), and one per command saying which of them
it makes (`JoinMaps`, `PartMaps`, ...); `OrderlyInv` is what makes a quit leave
every room at once.

**quit** (`QuitLoopProofs`).  `WalkTyped`, `QuitVisitsExactly`,
`QuitStraysExactly`, `ListStaysRemainder`: the two operators that `ChannelServer`
uses instead of the walk are right for any number of channels, and so is the
vector it leaves behind at every step.  `WalkInv` gives the memory in closed
form: while the walk meets new channels, word k holds channel 2k behind the walk
and channel k + (erasures) before it, capped at the last; afterwards every word
still to be read is the last channel.

**Event loop** (`EventLoopProofs`).  `LoopTyped`, `WakeupsNotLost`,
`StrandedAreLeft`.  Part of the typing is that only clients are on the ready list,
in the batch (besides the listening socket), or have unread input, so that a
descriptor that is reused starts clean.  It is not inductive alone, because
accepting needs a connection that waits: `LoopInv` adds that the listening socket
is in the batch only while one does, and `NoLostWakeup`.  `Lost` adds that a missed client is on neither list, from
which `StrandedWait` follows: the server only touches what is in its batch.

**Registration** (`BotSessionProofs`, first part).  `RegistrationTyped`,
`WelcomeExact`, `PasswordComesFirst`; the invariants are inductive as they stand,
given the typing.

**Bot** (`BotSessionProofs`).
* `SocketsAreAccounted`: `SocketInv` says at which `pc` there is a socket.
* `PatienceIsBounded`: the pauses are a ladder (2, 4, 8, 16, 30, ...); `Paused(k)`
  ties the rung to `retries` and `pc`, with the one pause after a session that
  does not count as a failure.
* `ImplementsRegistration`: bot, wires and rivals drive the server in steps of
  `Registration`, so `WelcomedWhenKnown` and `PasswordFirst` carry over
  (`SessionWelcomes`, `SessionGuarded`); with the typing of what is on the wires
  (`WireInv`) and of what is missed (`MissedInv`: open connections of the bot only)
  it gives `SessionTyped`.
* `BotEntersRegistered`: `EntryInv` says that a connection that is not
  registered has no JOIN under way and no welcome on its way back.
* `BotKnowsItsNick`: `NameInv` says that at most one of these is true of a
  connection: a request for a nickname is under way, a refusal is, or the server
  has given it one; and that it is always for the name the bot takes for its
  own.

**The bot's view** (`BotViewProofs`).  `ViewTyped`, `TrustIsExplained`,
`OperatorsAreObeyed`.  Both properties are about the command at the head of the
queue, and neither is inductive: the announcements before it decide.
`Believes(ops, q, n, i)` says whether a bot that now believes in `ops` takes `n`
for an operator once it has read the first i messages of `q`.  `ViewInv` states
two things with it: of every command under way, that the bot will judge it by
what its sender was when he gave it (`Claims`); and of the whole queue, that
everybody the bot will then believe in (`Believed`) is an operator or explained
(`Trusts`) and every announced operator is among them if the bot is on the channel
(`Obeys`).  Lost and missing announcements are cases of the same actions: no message
is added, and an excuse is.
A new message only adds to the end of the queue (`Appended`), and reading one
moves it from the queue into `channel_ops` without changing what will be believed
(`BelievesRead`); so an action is judged by the one message it sends.

**The parser** (`RecvParserProofs`).  `ParserTyped`, `CutsNeverMatter`,
`BufferKeepsUnfinishedLine`, for lines, pieces and streams of any length.
`ReadInv`: queue and buffer are what `Read` makes of all bytes received.  Three
facts carry it.  Reading a stream is reading its first part and then the rest
(`ReadConcat`).  Normalising does not change what is read (`ReadNormalized`): a
CR LF for a lone CR or LF only adds an empty line, which is no message.  And the
loop, on a buffer in which every CR is followed by LF and every LF preceded by CR
(`Paired`), reads the same and stops with no line end left (`ParsedReads`),
because every turn takes at least two bytes off (`TurnEffect`).  The recursive
functions along a sequence are turned into runs (`RunExists`, `ReadRuns`,
`NormalizedRuns`, `ParsedRuns`), and induction along a run is done on sets, by
the smallest counterexample (`InductionTo`), which needs no operator parameter.

The lemmas on one channel (`AddUserSound`, `RemoveUserSound`, ...) and on lists
(`MembershipProofs`), and on sequences with at most one element of a kind
(`Once`, `TailOnce`, `ConcatOnce`), are stated once and cited.

Every invariant and every action property that a passing run checks is a theorem.
Only model-checked: liveness (`ComesToRest`, `InputServed`, `AcceptsProceed`),
which no installed prover handles under fairness; and the four violations, which
are counterexamples and need no proof.

## Not modelled

* Argument parsing (`main.cpp`, `bot/main.cpp`), socket set-up, address
  resolution, and message texts (`inc/macro.h`): I/O and formatting with no state
  of their own.
* The splitting of a line into prefix, command and parameters, beyond whether
  there is a command; nicknames and
  channel names as strings, and their regular expressions.
* PING, WHOIS, WHO with a parameter, and the bot's !ping, !help and !listfilter:
  they only answer.
* Several channels in `BotView`, and the channels that an INVITE adds to those
  the bot joins when it reconnects: the lists are kept per channel, and the
  session model needs one JOIN to see whether the bot gets in.
* The 100 events of one `epoll_wait`: a batch holds everything that is ready.
* That a channel with a ghost cannot be moderated (every KICK and +o in it
  throws) is in the model as a guard; no property states it, since nothing
  promises the contrary.
