-------------------------- MODULE BotSessionProofs --------------------------
(***************************************************************************)
(* The bot's process for any bounds on its connections and crashes, any    *)
(* other clients and any requests of theirs: its sockets, its patience,    *)
(* and that what it and the others do to the server is a behaviour of      *)
(* Registration.  The theorems of Registration by itself come first, and   *)
(* therefore hold here.                                                    *)
(***************************************************************************)
EXTENDS BotSession, SequenceTheorems, TLAPS

-----------------------------------------------------------------------------
(* Registration by itself, for any number of connections, any nicknames,  *)
(* any password or none, and commands in any order whose replies may or    *)
(* may not be sent.                                                        *)

(* The kinds of requests, told apart by their command. *)
LEMMA RequestKinds ==
  ASSUME NEW m \in Request
  PROVE  /\ m.cmd = "NICK" => m.nick \in Nat
         /\ m.cmd = "PASS" => m.secret \in Secret \cup {NoPass}
BY DEF Request, Plain, Command

(* A client is removed with everything it had. *)
LEMMA RemoveClientTypes ==
  ASSUME RegistrationTypeOK, NEW c \in Conn, RemoveClient(c)
  PROVE  RegistrationTypeOK'
BY DEF RegistrationTypeOK, RemoveClient

(* A command keeps everybody else's nickname and flags; what it gives the  *)
(* client itself depends on the command.                                   *)
LEMMA DispatchTypes ==
  ASSUME RegistrationTypeOK, NEW c \in Conn, NEW m \in Request,
         NEW sent \in BOOLEAN, Dispatch(c, m, sent)
  PROVE  RegistrationTypeOK'
<1>1. c \in clients
  BY DEF Dispatch
<1>2. CASE RemoveClient(c)
  BY <1>2, RemoveClientTypes
<1>3. CASE UNCHANGED serverVars
  BY <1>3 DEF RegistrationTypeOK, serverVars
<1>4. CASE DoPass(c)
  BY <1>4, <1>1 DEF RegistrationTypeOK, DoPass, Welcome
<1>5. CASE m.cmd = "NICK" /\ DoNick(c, m.nick, sent)
  BY <1>5, <1>1, RequestKinds DEF RegistrationTypeOK, DoNick, Welcome
<1>6. CASE DoUser(c, sent)
  BY <1>6, <1>1 DEF RegistrationTypeOK, DoUser, Welcome
<1>7. CASE DoJoin(c, sent)
  BY <1>7, <1>1 DEF RegistrationTypeOK, DoJoin, Welcome
<1>8. CASE DoNothing(c, sent)
  BY <1>8, <1>1 DEF RegistrationTypeOK, DoNothing, Welcome
<1>. QED
  BY <1>2, <1>3, <1>4, <1>5, <1>6, <1>7, <1>8 DEF Dispatch

(* Every flag belongs to a client, and only clients have nicknames. *)
THEOREM RegistrationTyped == RegistrationSpec => []RegistrationTypeOK
<1>1. RegistrationInit => RegistrationTypeOK
  BY DEF RegistrationInit, RegistrationTypeOK
<1>2. RegistrationTypeOK /\ [RegistrationNext]_serverVars => RegistrationTypeOK'
  <2>. SUFFICES ASSUME RegistrationTypeOK, [RegistrationNext]_serverVars
                PROVE  RegistrationTypeOK'
    OBVIOUS
  <2>1. ASSUME NEW c \in Conn, AddClient(c)
        PROVE  RegistrationTypeOK'
    BY <2>1 DEF RegistrationTypeOK, AddClient
  <2>2. ASSUME NEW c \in Conn, NEW m \in Request, NEW sent \in BOOLEAN,
               Dispatch(c, m, sent)
        PROVE  RegistrationTypeOK'
    BY <2>2, DispatchTypes
  <2>3. CASE UNCHANGED serverVars
    BY <2>3 DEF RegistrationTypeOK, serverVars
  <2>. QED
    BY <2>1, <2>2, <2>3 DEF RegistrationNext
<1>. QED
  BY <1>1, <1>2, PTL DEF RegistrationSpec
-----------------------------------------------------------------------------
(* A command leaves the welcome right: those that change a nickname or a   *)
(* user name run into the test of dispatch, and those whose reply throws   *)
(* past it have changed neither.                                           *)
LEMMA DispatchWelcomes ==
  ASSUME RegistrationTypeOK, WelcomedWhenKnown, NEW c \in Conn, NEW m \in Request,
         NEW sent \in BOOLEAN, Dispatch(c, m, sent)
  PROVE  WelcomedWhenKnown'
<1>1. c \in clients
  BY DEF Dispatch
<1>2. CASE RemoveClient(c)
  BY <1>2 DEF RegistrationTypeOK, RemoveClient, WelcomedWhenKnown
<1>3. CASE UNCHANGED serverVars
  BY <1>3 DEF WelcomedWhenKnown, serverVars
<1>4. CASE DoPass(c)
  BY <1>4, <1>1 DEF RegistrationTypeOK, WelcomedWhenKnown, DoPass, Welcome, Completes
<1>5. CASE m.cmd = "NICK" /\ DoNick(c, m.nick, sent)
  <2>1. m.nick \in Nat /\ m.nick # NoNick
    BY <1>5, RequestKinds, RegistrationConstants
  <2>2. CASE NickAccepted(m.nick) /\ sent
    <3>1. nick' = [nick EXCEPT ![c] = m.nick]
          /\ clients' = clients /\ named' = named
          /\ registered' = IF c \in named THEN registered \cup {c} ELSE registered
      BY <1>5, <1>1, <2>1, <2>2 DEF RegistrationTypeOK, DoNick, Welcome, Completes
    <3>. QED
      BY <3>1, <2>1, <1>1 DEF RegistrationTypeOK, WelcomedWhenKnown
  <2>3. CASE ~ (NickAccepted(m.nick) /\ sent)
    BY <1>5, <1>1, <2>3 DEF WelcomedWhenKnown, DoNick, Welcome, Completes
  <2>. QED
    BY <2>2, <2>3
<1>6. CASE DoUser(c, sent)
  BY <1>6, <1>1 DEF RegistrationTypeOK, WelcomedWhenKnown, DoUser, Welcome, Completes
<1>7. CASE DoJoin(c, sent)
  BY <1>7, <1>1 DEF RegistrationTypeOK, WelcomedWhenKnown, DoJoin, Welcome, Completes
<1>8. CASE DoNothing(c, sent)
  BY <1>8, <1>1 DEF RegistrationTypeOK, WelcomedWhenKnown, DoNothing, Welcome, Completes
<1>. QED
  BY <1>2, <1>3, <1>4, <1>5, <1>6, <1>7, <1>8 DEF Dispatch

(* The welcome comes exactly when nickname and user name are both known.   *)
THEOREM WelcomeExact == RegistrationSpec => []WelcomedWhenKnown
<1>1. RegistrationInit => WelcomedWhenKnown
  BY DEF RegistrationInit, WelcomedWhenKnown
<1>2. RegistrationTypeOK /\ WelcomedWhenKnown /\ [RegistrationNext]_serverVars
        => WelcomedWhenKnown'
  <2>. SUFFICES ASSUME RegistrationTypeOK, WelcomedWhenKnown,
                       [RegistrationNext]_serverVars
                PROVE  WelcomedWhenKnown'
    OBVIOUS
  <2>1. ASSUME NEW c \in Conn, AddClient(c)
        PROVE  WelcomedWhenKnown'
    BY <2>1 DEF RegistrationTypeOK, WelcomedWhenKnown, AddClient
  <2>2. ASSUME NEW c \in Conn, NEW m \in Request, NEW sent \in BOOLEAN,
               Dispatch(c, m, sent)
        PROVE  WelcomedWhenKnown'
    BY <2>2, DispatchWelcomes
  <2>3. CASE UNCHANGED serverVars
    BY <2>3 DEF WelcomedWhenKnown, serverVars
  <2>. QED
    BY <2>1, <2>2, <2>3 DEF RegistrationNext
<1>. QED
  BY <1>1, <1>2, RegistrationTyped, PTL DEF RegistrationSpec
-----------------------------------------------------------------------------
(* What the gate lets through, on a server with a password: PASS with the  *)
(* right word, CAP, an unknown word, or anything of a client that has      *)
(* given the password.                                                     *)
LEMMA GateLets ==
  ASSUME Password # NoPass, NEW c, NEW m, ~ Refused(c, m), m.cmd # "WORD",
         c \notin authenticated
  PROVE  m.cmd \in {"PASS", "CAP"}
BY DEF Refused

(* No command but PASS gives anything to a client without the password.    *)
LEMMA DispatchGuarded ==
  ASSUME RegistrationTypeOK, PasswordFirst, NEW c \in Conn, NEW m \in Request,
         NEW sent \in BOOLEAN, Dispatch(c, m, sent)
  PROVE  PasswordFirst'
<1>. SUFFICES ASSUME Password # NoPass
              PROVE  PasswordFirst'
  BY DEF PasswordFirst
<1>1. c \in clients
  BY DEF Dispatch
<1>2. CASE RemoveClient(c)
  BY <1>2 DEF RegistrationTypeOK, RemoveClient, PasswordFirst
<1>3. CASE UNCHANGED serverVars
  BY <1>3 DEF PasswordFirst, serverVars
<1>4. CASE DoPass(c)
  BY <1>4, <1>1 DEF RegistrationTypeOK, PasswordFirst, DoPass, Welcome
<1>5. CASE m.cmd = "NICK" /\ ~ Refused(c, m) /\ DoNick(c, m.nick, sent)
  <2>1. c \in authenticated
    BY <1>5, GateLets
  <2>. QED
    BY <2>1, <1>5, <1>1 DEF RegistrationTypeOK, PasswordFirst, DoNick, Welcome
<1>6. CASE m.cmd = "USER" /\ ~ Refused(c, m) /\ DoUser(c, sent)
  <2>1. c \in authenticated
    BY <1>6, GateLets
  <2>. QED
    BY <2>1, <1>6, <1>1 DEF RegistrationTypeOK, PasswordFirst, DoUser, Welcome
<1>7. CASE m.cmd = "JOIN" /\ ~ Refused(c, m) /\ DoJoin(c, sent)
  <2>1. c \in authenticated
    BY <1>7, GateLets
  <2>. QED
    BY <2>1, <1>7, <1>1 DEF RegistrationTypeOK, PasswordFirst, DoJoin, Welcome
<1>8. CASE DoNothing(c, sent)
  BY <1>8, <1>1 DEF RegistrationTypeOK, PasswordFirst, DoNothing, Welcome, Completes
<1>. QED
  BY <1>2, <1>3, <1>4, <1>5, <1>6, <1>7, <1>8 DEF Dispatch

(* Nobody gets anything from the server before the password.               *)
THEOREM PasswordComesFirst == RegistrationSpec => []PasswordFirst
<1>1. RegistrationInit => PasswordFirst
  BY DEF RegistrationInit, PasswordFirst
<1>2. RegistrationTypeOK /\ PasswordFirst /\ [RegistrationNext]_serverVars => PasswordFirst'
  <2>. SUFFICES ASSUME RegistrationTypeOK, PasswordFirst, [RegistrationNext]_serverVars
                PROVE  PasswordFirst'
    OBVIOUS
  <2>1. ASSUME NEW c \in Conn, AddClient(c)
        PROVE  PasswordFirst'
    BY <2>1 DEF RegistrationTypeOK, PasswordFirst, AddClient
  <2>2. ASSUME NEW c \in Conn, NEW m \in Request, NEW sent \in BOOLEAN,
               Dispatch(c, m, sent)
        PROVE  PasswordFirst'
    BY <2>2, DispatchGuarded
  <2>3. CASE UNCHANGED serverVars
    BY <2>3 DEF PasswordFirst, serverVars
  <2>. QED
    BY <2>1, <2>2, <2>3 DEF RegistrationNext
<1>. QED
  BY <1>1, <1>2, RegistrationTyped, PTL DEF RegistrationSpec
-----------------------------------------------------------------------------

(* The smaller of two numbers. *)
LEMMA MinOfTwo ==
  ASSUME NEW a \in Nat, NEW b \in Nat
  PROVE  Min({a, b}) = IF a <= b THEN a ELSE b
<1>. DEFINE m == IF a <= b THEN a ELSE b
<1>1. m \in {a, b} /\ \A y \in {a, b} : m <= y
  OBVIOUS
<1>2. \A x \in {a, b} : (\A y \in {a, b} : x <= y) => x = m
  OBVIOUS
<1>. QED
  BY <1>1, <1>2 DEF Min

(* What the server and the other clients do is none of the bot's business. *)
LEMMA OthersLeaveBot ==
  ASSUME ServerStep \/ RivalStep
  PROVE  UNCHANGED botVars
BY DEF ServerStep, RivalStep, Accept, ServerReads, RivalArrives, RivalSends

-----------------------------------------------------------------------------
(* Where the process holds a socket, and where it does not. *)
SocketInv ==
  /\ dials \in 0 .. MaxDials
  /\ sockfd \in BotConn \cup {NoFd}
  /\ open = { c \in BotConn : c = sockfd }
  /\ pc \in {"head", "connecting", "polling", "closing", "closed", "sleeping", "done"}
  /\ pc \notin {"polling", "closing"} => sockfd = NoFd

LEMMA ShutEffect ==
  ASSUME SocketInv, Shut
  PROVE  sockfd' = NoFd /\ open' = { c \in BotConn : c = sockfd' }
BY BotSessionConstants DEF SocketInv, Shut

LEMMA SocketStep ==
  ASSUME SocketInv, [Next]_vars
  PROVE  SocketInv'
<1>1. CASE LoopHead \/ ConnectFails \/ Sleep \/ Afterwards \/ HandleMessage \/ Signal
  BY <1>1 DEF SocketInv, LoopHead, ConnectFails, Sleep, Afterwards, HandleMessage, Signal
<1>2. CASE Connects
  <2>1. dials + 1 \in BotConn
    BY <1>2, BotSessionConstants DEF SocketInv, Connects, BotConn
  <2>2. open' = {dials + 1} /\ sockfd' = dials + 1 /\ dials' = dials + 1
        /\ pc' = "polling"
    BY <1>2, BotSessionConstants DEF SocketInv, Connects
  <2>. QED
    BY <1>2, <2>1, <2>2, BotSessionConstants DEF SocketInv, Connects
<1>3. CASE LeavesPolling(LeaveLoop) \/ LeavesPolling(PollFails)
  BY <1>3 DEF SocketInv, LeavesPolling, LeaveLoop, PollFails
<1>4. CASE ServerGone
  BY <1>4, ShutEffect DEF SocketInv, ServerGone
<1>5. CASE Close
  BY <1>5, ShutEffect DEF SocketInv, Close
<1>6. CASE Restart
  BY <1>6, BotSessionConstants DEF SocketInv, Restart
<1>7. CASE UNCHANGED botVars
  BY <1>7 DEF SocketInv, botVars
<1>. QED
  BY <1>1, <1>2, <1>3, <1>4, <1>5, <1>6, <1>7, OthersLeaveBot
  DEF Next, BotStep, BotFault, vars

(* Connecting, closing, signals and crashes keep the remembered socket the *)
(* only open one.                                                          *)
THEOREM SocketInvHolds == Spec => []SocketInv
<1>1. Init => SocketInv
  BY BotSessionConstants DEF Init, SocketInv
<1>. QED
  BY <1>1, SocketStep, PTL DEF Spec

(* However a session ends, the process has the socket sockfd open and no   *)
(* other, and at the end none.                                             *)
THEOREM SocketsAreAccounted == Spec => []SocketsAccounted
<1>1. SocketInv => SocketsAccounted
  BY BotSessionConstants DEF SocketInv, SocketsAccounted
<1>. QED
  BY <1>1, SocketInvHolds, PTL
-----------------------------------------------------------------------------
(* The seconds slept, and the next pause, after k pauses in a row. *)
Slept(k) ==
  IF k = 0 THEN 0 ELSE IF k = 1 THEN 2 ELSE IF k = 2 THEN 6
  ELSE IF k = 3 THEN 14 ELSE IF k = 4 THEN 30 ELSE 60
Pause(k) ==
  IF k = 0 THEN 2 ELSE IF k = 1 THEN 4 ELSE IF k = 2 THEN 8
  ELSE IF k = 3 THEN 16 ELSE 30

(* How many pauses there have been when run is at pc and retries connects  *)
(* have failed: as many, or one more if a session came first.              *)
Paused(k) ==
  /\ waited = Slept(k) /\ backoff = Pause(k)
  /\ pc \in {"head", "connecting"} => k \in {retries, retries + 1}
  /\ pc = "sleeping" => k \in {retries - 1, retries}
  /\ pc \in {"polling", "closing", "closed"} => retries = 0 /\ k = 0
  /\ pc = "done" => retries = 5 /\ k \in {4, 5}

(* A signal or the server's end stops the counting. *)
PatienceInv ==
  /\ stop \in BOOLEAN
  /\ retries \in 0 .. 5 /\ (pc # "done" => retries < 5)
  /\ backoff \in 2 .. 30 /\ waited \in 0 .. 60
  /\ ~ stop => \E k \in 0 .. 5 : Paused(k)

LEMMA BackoffEffect ==
  ASSUME backoff \in 2 .. 30
  PROVE  NextBackoff = IF 2 * backoff >= 30 THEN 30 ELSE 2 * backoff
<1>1. 30 \in Nat /\ 2 * backoff \in Nat
  OBVIOUS
<1>. QED
  BY <1>1, MinOfTwo DEF NextBackoff, MaxBackoff

LEMMA SleepPatient ==
  ASSUME PatienceInv, Sleep
  PROVE  PatienceInv'
<1>1. /\ backoff' = IF 2 * backoff >= 30 THEN 30 ELSE 2 * backoff
      /\ pc = "sleeping" /\ pc' = "head" /\ stop' = stop /\ retries' = retries
  BY BackoffEffect DEF PatienceInv, Sleep
<1>2. waited' = IF stop THEN waited ELSE waited + backoff
  <2>1. 99 \in Nat /\ waited + backoff \in Nat /\ waited + backoff <= 99
    BY DEF PatienceInv
  <2>2. Min({99, waited + backoff}) = waited + backoff
    BY <2>1, MinOfTwo
  <2>. QED
    BY <2>2 DEF Sleep, MaxWaited
<1>3. ASSUME ~ stop
      PROVE  waited' \in 0 .. 60 /\ \E k \in 0 .. 5 : Paused(k)'
  <2>1. PICK k \in 0 .. 5 : Paused(k)
    BY <1>3 DEF PatienceInv
  <2>2. k \in {retries - 1, retries} /\ retries \in 0 .. 4
    BY <2>1, <1>1 DEF Paused, PatienceInv
  <2>3. k \in 0 .. 4 /\ k + 1 \in {retries', retries' + 1}
    BY <2>2, <1>1
  <2>4. waited' = Slept(k + 1) /\ backoff' = Pause(k + 1)
    BY <2>1, <2>3, <1>1, <1>2, <1>3 DEF Paused, Slept, Pause
  <2>5. Slept(k + 1) \in 0 .. 60 /\ k + 1 \in 0 .. 5
    BY <2>3 DEF Slept
  <2>. QED
    BY <2>3, <2>4, <2>5, <1>1 DEF Paused
<1>. QED
  BY <1>1, <1>2, <1>3 DEF PatienceInv

LEMMA ConnectFailsPatient ==
  ASSUME PatienceInv, ConnectFails
  PROVE  PatienceInv'
<1>1. /\ pc = "connecting" /\ retries' = retries + 1
      /\ pc' = IF retries' >= 5 THEN "done" ELSE "sleeping"
      /\ UNCHANGED <<stop, backoff, waited>>
  BY DEF ConnectFails, CountFailure, MAX_RETRIES
<1>2. ASSUME ~ stop
      PROVE  \E k \in 0 .. 5 : Paused(k)'
  <2>1. PICK k \in 0 .. 5 : Paused(k)
    BY <1>2 DEF PatienceInv
  <2>2. Paused(k)'
    BY <2>1, <1>1 DEF Paused, PatienceInv
  <2>. QED
    BY <2>2
<1>. QED
  BY <1>1, <1>2 DEF PatienceInv

LEMMA PatienceStep ==
  ASSUME PatienceInv, [Next]_vars
  PROVE  PatienceInv'
<1>1. CASE LoopHead
  BY <1>1 DEF PatienceInv, Paused, LoopHead
<1>2. CASE ConnectFails
  BY <1>2, ConnectFailsPatient
<1>3. CASE Connects
  <2>1. /\ retries' = 0 /\ backoff' = 2 /\ waited' = 0 /\ pc' = "polling"
        /\ stop' = stop
    BY <1>3 DEF Connects, ResetRetries
  <2>2. Paused(0)'
    BY <2>1 DEF Paused, Slept, Pause
  <2>. QED
    BY <2>1, <2>2 DEF PatienceInv
<1>4. CASE HandleMessage
  BY <1>4 DEF PatienceInv, Paused, HandleMessage
<1>5. CASE LeavesPolling(LeaveLoop) \/ LeavesPolling(PollFails)
  BY <1>5 DEF PatienceInv, Paused, LeavesPolling, LeaveLoop, PollFails
<1>6. CASE ServerGone
  BY <1>6 DEF PatienceInv, ServerGone
<1>7. CASE Close
  BY <1>7 DEF PatienceInv, Paused, Close
<1>8. CASE Afterwards
  BY <1>8 DEF PatienceInv, Paused, Afterwards
<1>9. CASE Sleep
  BY <1>9, SleepPatient
<1>10. CASE Signal
  BY <1>10 DEF PatienceInv, Signal
<1>11. CASE Restart
  <2>1. /\ retries' = 0 /\ backoff' = 2 /\ waited' = 0 /\ pc' = "head"
        /\ stop' = FALSE
    BY <1>11 DEF Restart
  <2>2. Paused(0)'
    BY <2>1 DEF Paused, Slept, Pause
  <2>3. \E k \in 0 .. 5 : Paused(k)'
    <3>1. 0 \in 0 .. 5
      OBVIOUS
    <3>. QED
      BY <2>2, <3>1, Zenon
  <2>4. /\ retries' \in 0 .. 5 /\ retries' < 5
        /\ backoff' \in 2 .. 30 /\ waited' \in 0 .. 60
    BY <2>1
  <2>5. stop' \in BOOLEAN
    BY <2>1
  <2>. QED
    BY <2>3, <2>4, <2>5 DEF PatienceInv
<1>12. CASE UNCHANGED botVars
  BY <1>12 DEF PatienceInv, Paused, botVars
<1>. QED
  BY <1>1, <1>2, <1>3, <1>4, <1>5, <1>6, <1>7, <1>8, <1>9, <1>10, <1>11, <1>12,
     OthersLeaveBot
  DEF Next, BotStep, BotFault, vars

(* Every pause of the back-off is the one its number of retries calls for. *)
THEOREM PatienceInvHolds == Spec => []PatienceInv
<1>1. Init => PatienceInv
  <2>. SUFFICES ASSUME Init PROVE PatienceInv
    OBVIOUS
  <2>1. Paused(0)
    BY DEF Init, Paused, Slept, Pause
  <2>2. \E k \in 0 .. 5 : Paused(k)
    <3>1. 0 \in 0 .. 5
      OBVIOUS
    <3>. QED
      BY <2>1, <3>1, Zenon
  <2>3. /\ retries = 0 /\ backoff = 2 /\ waited = 0
        /\ stop \in BOOLEAN
    BY DEF Init
  <2>4. /\ retries \in 0 .. 5 /\ retries < 5
        /\ backoff \in 2 .. 30 /\ waited \in 0 .. 60
    BY <2>3
  <2>. QED
    BY <2>2, <2>3, <2>4 DEF PatienceInv
<1>. QED
  BY <1>1, PatienceStep, PTL DEF Spec

(* The bot gives up after five failed connects in a row, never before, and *)
(* sleeps thirty to sixty seconds meanwhile.                               *)
THEOREM PatienceIsBounded == Spec => []PatienceBounded
<1>1. PatienceInv => PatienceBounded
  BY DEF PatienceInv, PatienceBounded, Paused, Slept, MAX_RETRIES
<1>. QED
  BY <1>1, PatienceInvHolds, PTL
-----------------------------------------------------------------------------
(* What travels on the connections, and the rest of the types. *)
Reply == {"001", "433"}

WireInv ==
  /\ toServer \in [BotConn -> Seq(Request)]
  /\ inbox \in Seq(Reply)
  /\ backlog \subseteq BotConn /\ pass \in BotPass
  /\ currentNick \in Nat /\ nick_attempt \in Nat
  /\ autoJoined \in BOOLEAN /\ initiated \in BOOLEAN
  /\ crashes \in 0 .. MaxCrashes /\ takes \in 0 .. MaxTakes

(* Everything the bot sends is a request. *)
LEMMA BotRequests ==
  /\ \A n \in Nat : Nick(n) \in Request
  /\ \A cmd \in {"USER", "CAP", "JOIN", "QUIT", "WORD"} : Command(cmd) \in Request
  /\ \A word \in BotPass : Pass(word) \in Request
BY BotSessionConstants DEF Request, Plain, Nick, Command, Pass

LEMMA LoginIsRequests ==
  ASSUME currentNick \in Nat, pass \in BotPass
  PROVE  LoginLines \in Seq(Request)
<1>. DEFINE first == IF pass = NoPass THEN <<>> ELSE <<Pass(pass)>>
            rest == <<Nick(currentNick), Command("USER")>>
<1>1. first \in Seq(Request)
  BY BotRequests
<1>2. rest \in Seq(Request)
  BY BotRequests
<1>3. first \o rest \in Seq(Request)
  <2>. HIDE DEF first, rest
  <2>. QED  BY <1>1, <1>2, ConcatProperties
<1>. QED
  BY <1>3 DEF LoginLines

LEMMA DeliveredTypes ==
  ASSUME WireInv, NEW c \in BotConn \cup {NoFd}, NEW lines \in Seq(Request)
  PROVE  Delivered(c, lines) \in [BotConn -> Seq(Request)]
<1>1. \A d \in BotConn : toServer[d] \o lines \in Seq(Request)
  BY ConcatProperties DEF WireInv
<1>. QED
  BY <1>1 DEF WireInv, Delivered

LEMMA HandleMessageWire ==
  ASSUME WireInv, SocketInv, HandleMessage
  PROVE  WireInv'
<1>1. inbox' \in Seq(Reply)
  BY HeadTailProperties DEF WireInv, HandleMessage
<1>2. ASSUME NextNick, UNCHANGED autoJoined
      PROVE  WireInv'
  <2>1. currentNick' \in Nat /\ nick_attempt' \in Nat
    BY <1>2 DEF WireInv, NextNick
  <2>2. <<Nick(currentNick')>> \in Seq(Request)
    BY <2>1, BotRequests
  <2>3. toServer' \in [BotConn -> Seq(Request)]
    BY <1>2, <2>2, DeliveredTypes DEF NextNick, SendLines, SocketInv
  <2>. QED
    BY <1>1, <1>2, <2>1, <2>3 DEF WireInv, HandleMessage
<1>3. ASSUME AutoJoin, UNCHANGED <<nick_attempt, currentNick>>
      PROVE  WireInv'
  <2>1. <<Command("JOIN")>> \in Seq(Request)
    BY BotRequests
  <2>2. toServer' \in [BotConn -> Seq(Request)]
    BY <1>3, <2>1, DeliveredTypes DEF AutoJoin, SendLines, SocketInv, WireInv
  <2>. QED
    BY <1>1, <1>3, <2>2 DEF WireInv, HandleMessage, AutoJoin
<1>. QED
  BY <1>2, <1>3 DEF HandleMessage

LEMMA CloseWire ==
  ASSUME WireInv, SocketInv, Close
  PROVE  WireInv'
<1>1. <<Command("QUIT")>> \in Seq(Request)
  BY BotRequests
<1>2. toServer' \in [BotConn -> Seq(Request)]
  BY <1>1, DeliveredTypes DEF Close, WireInv, SocketInv
<1>3. inbox' \in Seq(Reply)
  BY EmptySeq DEF Close
<1>. QED
  BY <1>2, <1>3 DEF WireInv, Close

LEMMA ConnectsWire ==
  ASSUME WireInv, SocketInv, Connects
  PROVE  WireInv'
<1>1. dials + 1 \in BotConn
  BY BotSessionConstants DEF SocketInv, Connects, BotConn
<1>2. toServer' \in [BotConn -> Seq(Request)]
  BY LoginIsRequests DEF WireInv, Connects
<1>3. inbox' \in Seq(Reply)
  BY EmptySeq DEF Connects
<1>. QED
  BY <1>1, <1>2, <1>3 DEF WireInv, Connects

LEMMA ServerReadsWire ==
  ASSUME WireInv, NEW c \in BotConn, ServerReads(c)
  PROVE  WireInv'
<1>1. Tail(toServer[c]) \in Seq(Request)
  BY HeadTailProperties DEF WireInv, ServerReads
<1>2. toServer' \in [BotConn -> Seq(Request)]
  BY <1>1, EmptySeq DEF WireInv, ServerReads
<1>3. ASSUME NEW m
      PROVE  Answer(c, m) \in Seq(Reply)
  <2>1. /\ <<>> \in Seq(Reply) /\ <<"433">> \in Seq(Reply) /\ <<"001">> \in Seq(Reply)
    BY DEF Reply
  <2>. QED
    BY <2>1, ConcatProperties DEF Answer
<1>4. inbox' \in Seq(Reply)
  BY <1>3, ConcatProperties DEF WireInv, ServerReads
<1>. QED
  BY <1>2, <1>4 DEF WireInv, ServerReads, botVars

LEMMA WireStep ==
  ASSUME WireInv, SocketInv, [Next]_vars
  PROVE  WireInv'
<1>1. CASE LoopHead \/ ConnectFails \/ Sleep \/ Signal \/ ServerGone
  BY <1>1 DEF WireInv, LoopHead, ConnectFails, Sleep, Signal, ServerGone, netVars
<1>2. CASE Afterwards
  BY <1>2 DEF WireInv, Afterwards, netVars
<1>3. CASE LeavesPolling(LeaveLoop) \/ LeavesPolling(PollFails)
  BY <1>3 DEF WireInv, LeavesPolling, netVars
<1>4. CASE Restart
  <2>1. crashes' \in 0 .. MaxCrashes
    BY <1>4, BotSessionConstants DEF WireInv, Restart
  <2>2. autoJoined' \in BOOLEAN /\ initiated' \in BOOLEAN
    BY <1>4 DEF Restart
  <2>3. inbox' \in Seq(Reply)
    BY <1>4, EmptySeq DEF Restart
  <2>. QED
    BY <1>4, <2>1, <2>2, <2>3 DEF WireInv, Restart
<1>5. ASSUME NEW c \in BotConn, Accept(c)
      PROVE  WireInv'
  BY <1>5 DEF WireInv, Accept, botVars
<1>6. ASSUME NEW c \in Rival, RivalArrives(c)
      PROVE  WireInv'
  BY <1>6 DEF WireInv, RivalArrives, botVars, netVars
<1>7. ASSUME NEW c \in Rival, RivalSends(c)
      PROVE  WireInv'
  BY <1>7, BotSessionConstants DEF WireInv, RivalSends, botVars, netVars
<1>8. CASE UNCHANGED vars
  BY <1>8 DEF WireInv, vars, botVars, netVars
<1>. QED
  BY <1>1, <1>2, <1>3, <1>4, <1>5, <1>6, <1>7, <1>8,
     HandleMessageWire, CloseWire, ConnectsWire, ServerReadsWire
  DEF Next, BotStep, BotFault, ServerStep, RivalStep

(* Only requests and replies of the right form are ever on the wires.      *)
THEOREM WireInvHolds == Spec => []WireInv
<1>1. Init => WireInv
  <2>. SUFFICES ASSUME Init PROVE WireInv
    OBVIOUS
  <2>1. toServer \in [BotConn -> Seq(Request)] /\ inbox \in Seq(Reply)
    BY EmptySeq DEF Init
  <2>2. autoJoined \in BOOLEAN /\ initiated \in BOOLEAN
    BY DEF Init
  <2>. QED
    BY <2>1, <2>2, BotSessionConstants DEF Init, WireInv
<1>. QED
  BY <1>1, WireStep, SocketInvHolds, PTL DEF Spec
-----------------------------------------------------------------------------
(* A step of the session is a step of Registration, or leaves it alone. *)
LEMMA SessionStep ==
  ASSUME WireInv, [Next]_vars
  PROVE  [RegistrationNext]_serverVars
<1>1. ASSUME NEW c \in BotConn, Accept(c)
      PROVE  RegistrationNext
  BY <1>1, BotSessionConstants DEF Accept, RegistrationNext
<1>2. ASSUME NEW c \in BotConn, ServerReads(c)
      PROVE  RegistrationNext
  <2>1. Head(toServer[c]) \in Request
    BY <1>2, HeadTailProperties DEF WireInv, ServerReads
  <2>2. PICK sent \in BOOLEAN : Dispatch(c, Head(toServer[c]), sent)
    BY <1>2 DEF ServerReads
  <2>. QED
    BY <2>1, <2>2, BotSessionConstants DEF RegistrationNext
<1>3. ASSUME NEW c \in Rival, RivalArrives(c)
      PROVE  RegistrationNext
  BY <1>3, BotSessionConstants DEF RivalArrives, RegistrationNext
<1>4. ASSUME NEW c \in Rival, RivalSends(c)
      PROVE  RegistrationNext
  BY <1>4, BotSessionConstants DEF RivalSends, RegistrationNext
<1>5. CASE BotStep \/ BotFault
  BY <1>5 DEF BotStep, BotFault, LoopHead, ConnectFails, Connects, HandleMessage,
       LeavesPolling, ServerGone, Close, Afterwards, Sleep, Signal, Restart
<1>6. CASE UNCHANGED vars
  BY <1>6 DEF vars
<1>. QED
  BY <1>1, <1>2, <1>3, <1>4, <1>5, <1>6 DEF Next, ServerStep, RivalStep

(* What the bot and its rivals do to the server, over connections with     *)
(* requests and replies under way, is what Registration allows.            *)
THEOREM ImplementsRegistration == Spec => RegistrationSpec
<1>1. Init => RegistrationInit
  BY DEF Init
<1>. QED
  BY <1>1, SessionStep, WireInvHolds, PTL DEF Spec, RegistrationSpec

(* Whatever is done to a batch of events, what is missed is a connection   *)
(* of the bot that is still open.                                          *)
MissedInv == missed \subseteq clients \cap BotConn

LEMMA MissedStep ==
  ASSUME MissedInv, [Next]_vars
  PROVE  MissedInv'
<1>1. CASE UNCHANGED clients /\ missed' \subseteq missed
  BY <1>1 DEF MissedInv
<1>2. CASE UNCHANGED missed /\ clients \subseteq clients'
  BY <1>2 DEF MissedInv
<1>3. CASE CutShort
  BY <1>3 DEF MissedInv, CutShort
<1>4. CASE BotStep
  <2>1. CASE HandleMessage
    BY <1>1, <2>1 DEF HandleMessage, NextNick, AutoJoin, SendLines, serverVars
  <2>2. CASE Connects \/ Close
    BY <1>1, <2>2 DEF Connects, Close, serverVars
  <2>3. CASE LoopHead \/ ConnectFails \/ LeavesPolling(LeaveLoop)
    BY <1>1, <2>3 DEF LoopHead, ConnectFails, LeavesPolling, serverVars, netVars
  <2>4. CASE ServerGone \/ Afterwards \/ Sleep
    BY <1>1, <2>4 DEF ServerGone, Afterwards, Sleep, serverVars, netVars
  <2>. QED
    BY <1>4, <2>1, <2>2, <2>3, <2>4 DEF BotStep
<1>5. CASE BotFault
  BY <1>1, <1>5 DEF BotFault, LeavesPolling, Signal, Restart, serverVars, netVars
<1>6. CASE ServerStep
  BY <1>2, <1>3, <1>6 DEF ServerStep, Accept, AddClient, ServerReads
<1>7. CASE RivalStep
  BY <1>2, <1>3, <1>7 DEF RivalStep, RivalArrives, AddClient, RivalSends, netVars
<1>8. CASE UNCHANGED vars
  BY <1>1, <1>8 DEF vars, serverVars, netVars
<1>. QED
  BY <1>4, <1>5, <1>6, <1>7, <1>8 DEF Next

(* Type correctness of the bot, its connections and the server. *)
THEOREM SessionTyped == Spec => []TypeOK
<1>1. RegistrationTypeOK /\ SocketInv /\ PatienceInv /\ WireInv /\ MissedInv => TypeOK
  <2>. SUFFICES ASSUME RegistrationTypeOK, SocketInv, PatienceInv, WireInv, MissedInv
                PROVE  TypeOK
    OBVIOUS
  <2>1. \A c \in BotConn : \A i \in DOMAIN toServer[c] : toServer[c][i] \in Request
    BY LenProperties, ElementOfSeq DEF WireInv
  <2>2. open \subseteq BotConn
    BY DEF SocketInv
  <2>3. waited \in 0 .. MaxWaited /\ retries \in 0 .. MAX_RETRIES /\ backoff \in 2 .. MaxBackoff
    BY DEF PatienceInv, MaxWaited, MAX_RETRIES, MaxBackoff
  <2>. QED
    BY <2>1, <2>2, <2>3 DEF TypeOK, SocketInv, PatienceInv, WireInv, MissedInv, Reply
<1>2. Init => MissedInv
  BY DEF Init, MissedInv
<1>3. Spec => []MissedInv
  BY <1>2, MissedStep, PTL DEF Spec
<1>. QED
  BY <1>1, <1>3, ImplementsRegistration, RegistrationTyped, SocketInvHolds, PatienceInvHolds,
     WireInvHolds, PTL

(* So the theorems of Registration hold of the session. *)
COROLLARY SessionWelcomes == Spec => []WelcomedWhenKnown
BY ImplementsRegistration, WelcomeExact, PTL

(* Neither the bot nor a rival gets anything before the password. *)
COROLLARY SessionGuarded == Spec => []PasswordFirst
BY ImplementsRegistration, PasswordComesFirst, PTL
-----------------------------------------------------------------------------
(* Requests other than JOIN. *)
Quiet == { m \in Request : m.cmd # "JOIN" }

(* A connection that is not registered has no JOIN under way to the server *)
(* and no welcome under way back; and connections are numbered in the      *)
(* order in which they are made.                                           *)
EntryInv ==
  /\ clients \cap BotConn \subseteq 1 .. dials
  /\ backlog \subseteq 1 .. dials
  /\ backlog \cap clients = {}
  /\ EntersRegistered
  /\ \A c \in BotConn :
       c \notin registered /\ Attended(c) => toServer[c] \in Seq(Quiet)
  /\ sockfd \in BotConn /\ sockfd \notin registered /\ Attended(sockfd)
       => inbox \in Seq({"433"})

LEMMA QuietRequests ==
  /\ \A n \in Nat : Nick(n) \in Quiet
  /\ Command("USER") \in Quiet /\ Command("QUIT") \in Quiet
  /\ \A word \in BotPass : Pass(word) \in Quiet
BY BotRequests DEF Quiet, Nick, Command, Pass

LEMMA LoginIsQuiet ==
  ASSUME WireInv
  PROVE  LoginLines \in Seq(Quiet)
<1>. DEFINE first == IF pass = NoPass THEN <<>> ELSE <<Pass(pass)>>
            rest == <<Nick(currentNick), Command("USER")>>
<1>1. first \in Seq(Quiet)
  BY QuietRequests DEF WireInv
<1>2. rest \in Seq(Quiet)
  BY QuietRequests DEF WireInv
<1>3. first \o rest \in Seq(Quiet)
  <2>. HIDE DEF first, rest
  <2>. QED  BY <1>1, <1>2, ConcatProperties
<1>. QED
  BY <1>3 DEF LoginLines

(* What a command of client c can change: c alone, which it does not make  *)
(* less registered without removing it, and serves only if it is a JOIN.   *)
LEMMA DispatchEffect ==
  ASSUME RegistrationTypeOK, NEW c \in Conn, NEW m \in Request, NEW sent \in BOOLEAN,
         Dispatch(c, m, sent)
  PROVE  /\ clients' \in {clients, clients \ {c}}
         /\ registered \ {c} = registered' \ {c}
         /\ served \ {c} = served' \ {c}
         /\ c \in clients' => registered \subseteq registered'
         /\ c \in served' => c \in clients'
         /\ c \in served' \ served => m.cmd = "JOIN"
<1>1. CASE RemoveClient(c)
  BY <1>1 DEF RegistrationTypeOK, RemoveClient
<1>2. CASE UNCHANGED serverVars
  BY <1>2 DEF RegistrationTypeOK, serverVars
<1>3. CASE DoPass(c)
  BY <1>3 DEF RegistrationTypeOK, DoPass, Welcome
<1>4. CASE DoNick(c, m.nick, sent)
  BY <1>4 DEF RegistrationTypeOK, DoNick, Welcome
<1>5. CASE DoUser(c, sent)
  BY <1>5 DEF RegistrationTypeOK, DoUser, Welcome
<1>6. CASE m.cmd = "JOIN" /\ DoJoin(c, sent)
  BY <1>6 DEF RegistrationTypeOK, DoJoin, Welcome, Dispatch
<1>7. CASE DoNothing(c, sent)
  BY <1>7 DEF RegistrationTypeOK, DoNothing, Welcome
<1>. QED
  BY <1>1, <1>2, <1>3, <1>4, <1>5, <1>6, <1>7 DEF Dispatch

(* Steps that leave the server, and what is under way, as they are.        *)
LEMMA EntryIdle ==
  ASSUME EntryInv, UNCHANGED <<clients, registered, served, backlog, dials>>,
         \A c \in BotConn : toServer'[c] = toServer[c] \/ ~ Attended(c)
                               \/ c \in registered \/ toServer'[c] \in Seq(Quiet),
         \/ UNCHANGED <<sockfd, inbox>> \/ sockfd' \notin BotConn
         \/ sockfd' = sockfd /\ (inbox \in Seq({"433"}) => inbox' \in Seq({"433"}))
  PROVE  EntryInv'
BY DEF EntryInv, EntersRegistered, Attended

LEMMA HandleMessageEntry ==
  ASSUME EntryInv, WireInv, SocketInv, HandleMessage
  PROVE  EntryInv'
<1>1. /\ UNCHANGED <<clients, registered, served, backlog, dials, sockfd>>
      /\ inbox' = Tail(inbox) /\ inbox # <<>>
  BY DEF HandleMessage, serverVars
<1>2. inbox \in Seq({"433"}) => inbox' \in Seq({"433"}) /\ Head(inbox) = "433"
  BY <1>1, HeadTailProperties
<1>3. ASSUME NEW c \in BotConn, toServer'[c] # toServer[c], Attended(c), c \notin registered
      PROVE  toServer'[c] \in Seq(Quiet)
  <2>1. toServer[c] \in Seq(Quiet)
    BY <1>3 DEF EntryInv
  <2>2. c = sockfd
    BY <1>3 DEF HandleMessage, NextNick, AutoJoin, SendLines, Delivered, WireInv
  <2>3. Head(inbox) = "433" /\ NextNick
    BY <1>2, <1>3, <2>2 DEF EntryInv, HandleMessage
  <2>4. toServer'[c] = toServer[c] \o <<Nick(nick_attempt + 1)>>
    BY <1>3, <2>2, <2>3 DEF NextNick, SendLines, Delivered, WireInv
  <2>5. <<Nick(nick_attempt + 1)>> \in Seq(Quiet)
    BY QuietRequests DEF WireInv
  <2>. QED
    BY <2>1, <2>4, <2>5, ConcatProperties
<1>. QED
  BY <1>1, <1>2, <1>3, EntryIdle

LEMMA CloseEntry ==
  ASSUME EntryInv, WireInv, SocketInv, Close
  PROVE  EntryInv'
<1>1. sockfd' \notin BotConn
  BY ShutEffect, BotSessionConstants DEF Close, SocketInv
<1>2. UNCHANGED <<clients, registered, served, backlog, dials>>
  BY DEF Close, serverVars
<1>3. ASSUME NEW c \in BotConn, toServer'[c] # toServer[c], Attended(c), c \notin registered
      PROVE  toServer'[c] \in Seq(Quiet)
  <2>1. toServer[c] \in Seq(Quiet)
    BY <1>3 DEF EntryInv
  <2>2. toServer'[c] = toServer[c] \o <<Command("QUIT")>>
    BY <1>3 DEF Close, Delivered, WireInv
  <2>3. <<Command("QUIT")>> \in Seq(Quiet)
    BY QuietRequests
  <2>. QED
    BY <2>1, <2>2, <2>3, ConcatProperties
<1>. QED
  BY <1>1, <1>2, <1>3, EntryIdle

LEMMA ConnectsEntry ==
  ASSUME EntryInv, WireInv, SocketInv, Connects
  PROVE  EntryInv'
<1>. DEFINE c == dials + 1
<1>1. /\ dials \in Nat /\ c \in BotConn /\ c \notin 1 .. dials
      /\ dials' = c /\ 1 .. dials \subseteq 1 .. c /\ c \in 1 .. c
  BY BotSessionConstants DEF SocketInv, Connects, BotConn
<1>2. /\ toServer' = [toServer EXCEPT ![c] = LoginLines]
      /\ sockfd' = c /\ backlog' = backlog \cup {c} /\ inbox' = <<>>
      /\ UNCHANGED <<clients, registered, served>>
  BY DEF Connects, serverVars
<1>3. c \notin clients
  BY <1>1 DEF EntryInv
<1>4. ASSUME NEW d \in BotConn, d \notin registered, Attended(d)'
      PROVE  toServer'[d] \in Seq(Quiet)
  <2>1. CASE d = c
    BY <1>2, <2>1, LoginIsQuiet DEF WireInv
  <2>2. CASE d # c
    BY <1>2, <1>4, <2>2 DEF EntryInv, WireInv, Attended
  <2>. QED
    BY <2>1, <2>2
<1>5. inbox' \in Seq({"433"})
  BY <1>2, EmptySeq
<1>. HIDE DEF c
<1>. QED
  BY <1>1, <1>2, <1>3, <1>4, <1>5 DEF EntryInv, EntersRegistered

LEMMA ServerReadsEntry ==
  ASSUME EntryInv, WireInv, RegistrationTypeOK, NEW c \in BotConn, ServerReads(c)
  PROVE  EntryInv'
<1>. DEFINE m == Head(toServer[c])
<1>1. /\ toServer' = [toServer EXCEPT ![c] = IF c \in clients' THEN Tail(@) ELSE <<>>]
      /\ inbox' = IF c = sockfd THEN inbox \o Answer(c, m) ELSE inbox
      /\ UNCHANGED <<sockfd, backlog, dials>>
      /\ c \in clients /\ toServer[c] # <<>>
  BY DEF ServerReads, botVars
<1>2. m \in Request /\ c \in Conn
  BY <1>1, HeadTailProperties, BotSessionConstants DEF WireInv
<1>3. PICK sent \in BOOLEAN : Dispatch(c, m, sent)
  BY DEF ServerReads
<1>4. /\ clients' \in {clients, clients \ {c}}
      /\ registered \ {c} = registered' \ {c}
      /\ served \ {c} = served' \ {c}
      /\ c \in clients' => registered \subseteq registered'
      /\ c \in served' => c \in clients'
      /\ c \in served' \ served => m.cmd = "JOIN"
  BY <1>2, <1>3, DispatchEffect
<1>5. c \notin registered => toServer[c] \in Seq(Quiet) /\ m.cmd # "JOIN"
  <2>1. c \notin registered => toServer[c] \in Seq(Quiet)
    BY <1>1 DEF EntryInv, Attended
  <2>2. toServer[c] \in Seq(Quiet) => m \in Quiet
    BY <1>1, HeadTailProperties
  <2>. QED
    BY <2>1, <2>2 DEF Quiet
<1>. HIDE DEF m
<1>6. EntersRegistered'
  BY <1>4, <1>5 DEF EntryInv, EntersRegistered
<1>7. ASSUME NEW d \in BotConn, d \notin registered', Attended(d)'
      PROVE  toServer'[d] \in Seq(Quiet)
  <2>1. CASE d = c
    <3>1. c \in clients' /\ c \notin registered
      BY <1>1, <1>4, <1>7, <2>1 DEF EntryInv, Attended
    <3>2. Tail(toServer[c]) \in Seq(Quiet)
      BY <1>1, <1>5, <3>1, HeadTailProperties
    <3>. QED
      BY <1>1, <2>1, <3>1, <3>2 DEF WireInv
  <2>2. CASE d # c
    BY <1>1, <1>4, <1>7, <2>2 DEF EntryInv, WireInv, Attended
  <2>. QED
    BY <2>1, <2>2
<1>8. ASSUME sockfd \in BotConn, sockfd \notin registered', Attended(sockfd)'
      PROVE  inbox' \in Seq({"433"})
  <2>1. CASE sockfd = c
    <3>1. c \in clients' /\ c \notin registered
      BY <1>1, <1>4, <1>8, <2>1 DEF EntryInv, Attended
    <3>2. inbox \in Seq({"433"})
      BY <1>1, <2>1, <3>1 DEF EntryInv, Attended
    <3>3. Answer(c, m) \in Seq({"433"})
      <4>1. <<>> \in Seq({"433"}) /\ <<"433">> \in Seq({"433"})
        OBVIOUS
      <4>. QED
        BY <4>1, <1>8, <2>1, ConcatProperties DEF Answer
    <3>. QED
      BY <1>1, <2>1, <3>2, <3>3, ConcatProperties
  <2>2. CASE sockfd # c
    BY <1>1, <1>4, <1>8, <2>2 DEF EntryInv, Attended
  <2>. QED
    BY <2>1, <2>2
<1>. QED
  BY <1>1, <1>4, <1>6, <1>7, <1>8 DEF EntryInv

(* Nor does a rival's command bring a connection of the bot any nearer.    *)
LEMMA RivalEntry ==
  ASSUME EntryInv, RegistrationTypeOK, NEW c \in Rival, RivalSends(c)
  PROVE  EntryInv'
<1>1. PICK m \in RivalRequest, sent \in BOOLEAN : Dispatch(c, m, sent)
  BY DEF RivalSends
<1>2. c \in Conn /\ m \in Request /\ c \notin BotConn
  BY BotSessionConstants
<1>3. /\ clients' \in {clients, clients \ {c}}
      /\ registered \ {c} = registered' \ {c}
      /\ served \ {c} = served' \ {c}
  BY <1>1, <1>2, DispatchEffect
<1>4. UNCHANGED <<sockfd, dials, backlog, toServer, inbox>>
  BY DEF RivalSends, botVars, netVars
<1>. QED
  BY <1>2, <1>3, <1>4 DEF EntryInv, EntersRegistered, Attended

LEMMA EntryStep ==
  ASSUME EntryInv, WireInv, SocketInv, RegistrationTypeOK, [Next]_vars
  PROVE  EntryInv'
<1>1. CASE LoopHead \/ ConnectFails \/ Afterwards \/ Sleep \/ Signal
           \/ LeavesPolling(LeaveLoop) \/ LeavesPolling(PollFails)
  BY <1>1, EntryIdle DEF LoopHead, ConnectFails, Afterwards, Sleep, Signal, LeavesPolling,
       serverVars, netVars
<1>2. CASE ServerGone
  BY <1>2, EntryIdle, ShutEffect, BotSessionConstants DEF ServerGone, serverVars, netVars
<1>3. CASE Restart
  BY <1>3, EntryIdle, BotSessionConstants DEF Restart, serverVars
<1>4. ASSUME NEW c \in BotConn, Accept(c)
      PROVE  EntryInv'
  BY <1>4 DEF EntryInv, EntersRegistered, Attended, Accept, AddClient, botVars
<1>5. ASSUME NEW c \in Rival, RivalArrives(c)
      PROVE  EntryInv'
  BY <1>5, BotSessionConstants
  DEF EntryInv, EntersRegistered, Attended, RivalArrives, AddClient, botVars, netVars, WireInv
<1>6. CASE UNCHANGED vars
  BY <1>6, EntryIdle DEF vars, serverVars, botVars, netVars
<1>. QED
  BY <1>1, <1>2, <1>3, <1>4, <1>5, <1>6, HandleMessageEntry, CloseEntry, ConnectsEntry,
     ServerReadsEntry, RivalEntry
  DEF Next, BotStep, BotFault, ServerStep, RivalStep

(* Nothing that is sent or answered puts a JOIN before the registration.   *)
THEOREM EntryInvHolds == Spec => []EntryInv
<1>1. Init => EntryInv
  BY BotSessionConstants DEF Init, RegistrationInit, EntryInv, EntersRegistered, Attended
<1>2. Spec => []RegistrationTypeOK
  BY ImplementsRegistration, RegistrationTyped, PTL
<1>. QED
  BY <1>1, <1>2, EntryStep, SocketInvHolds, WireInvHolds, PTL DEF Spec

(* The bot asks for its channels only when it is registered, although      *)
(* welcomes, refusals and its own requests cross on the wire.              *)
THEOREM BotEntersRegistered == Spec => []EntersRegistered
<1>1. EntryInv => EntersRegistered
  BY DEF EntryInv
<1>. QED
  BY <1>1, EntryInvHolds, PTL
-----------------------------------------------------------------------------
(* A sequence is over any set that holds its elements. *)
LEMMA SeqOfElements ==
  ASSUME NEW A, NEW B, NEW s \in Seq(A), \A i \in 1 .. Len(s) : s[i] \in B
  PROVE  s \in Seq(B)
<1>. DEFINE n == Len(s)
<1>1. n \in Nat /\ s \in [1 .. n -> A]
  BY LenProperties
<1>. HIDE DEF n
<1>2. s \in [1 .. n -> B]
  BY <1>1 DEF n
<1>3. s \in UNION {[1 .. k -> B] : k \in Nat}
  BY <1>1, <1>2
<1>. QED
  BY <1>3, SeqDef, Zenon

(* At most one element of s is in T. *)
Once(s, T) == \A i, j \in 1 .. Len(s) : s[i] \in T /\ s[j] \in T => i = j

LEMMA NoneIsOnce ==
  ASSUME NEW A, NEW T, NEW s \in Seq(A \ T)
  PROVE  s \in Seq(A) /\ Once(s, T)
<1>1. \A i \in 1 .. Len(s) : s[i] \in A \ T
  BY ElementOfSeq
<1>2. s \in Seq(A)
  BY SeqMonotonic
<1>. QED
  BY <1>1, <1>2 DEF Once

LEMMA TailOnce ==
  ASSUME NEW A, NEW T, NEW s \in Seq(A), s # <<>>, Once(s, T)
  PROVE  /\ Once(Tail(s), T)
         /\ Head(s) \in T => Tail(s) \in Seq(A \ T)
<1>1. /\ Tail(s) \in Seq(A) /\ Len(s) \in Nat \ {0}
      /\ Len(Tail(s)) = Len(s) - 1
      /\ \A i \in 1 .. Len(Tail(s)) : Tail(s)[i] = s[i + 1]
      /\ Head(s) = s[1]
  BY HeadTailProperties, EmptySeq
<1>2. Once(Tail(s), T)
  <2>. SUFFICES ASSUME NEW i \in 1 .. Len(Tail(s)), NEW j \in 1 .. Len(Tail(s)),
                       Tail(s)[i] \in T, Tail(s)[j] \in T
                PROVE  i = j
    BY DEF Once
  <2>1. i + 1 \in 1 .. Len(s) /\ j + 1 \in 1 .. Len(s)
        /\ s[i + 1] \in T /\ s[j + 1] \in T
    BY <1>1
  <2>2. i + 1 = j + 1
    BY <2>1 DEF Once
  <2>. QED  BY <2>2
<1>3. ASSUME Head(s) \in T
      PROVE  Tail(s) \in Seq(A \ T)
  <2>1. \A i \in 1 .. Len(Tail(s)) : Tail(s)[i] \in A \ T
    <3>. SUFFICES ASSUME NEW i \in 1 .. Len(Tail(s)) PROVE Tail(s)[i] \in A \ T
      OBVIOUS
    <3>1. Tail(s)[i] = s[i + 1] /\ i + 1 \in 1 .. Len(s) /\ 1 \in 1 .. Len(s) /\ i + 1 # 1
      BY <1>1
    <3>2. s[i + 1] \notin T
      BY <1>1, <1>3, <3>1 DEF Once
    <3>. QED
      BY <3>1, <3>2, ElementOfSeq
  <2>. QED
    BY <1>1, <2>1, SeqOfElements
<1>. QED
  BY <1>2, <1>3

LEMMA ConcatOnce ==
  ASSUME NEW A, NEW T, NEW s \in Seq(A), NEW t \in Seq(A), Once(s, T), Once(t, T),
         s \in Seq(A \ T) \/ t \in Seq(A \ T)
  PROVE  s \o t \in Seq(A) /\ Once(s \o t, T)
<1>1. /\ s \o t \in Seq(A) /\ Len(s) \in Nat /\ Len(t) \in Nat
      /\ Len(s \o t) = Len(s) + Len(t)
      /\ \A i \in 1 .. Len(s) + Len(t) :
           (s \o t)[i] = IF i <= Len(s) THEN s[i] ELSE t[i - Len(s)]
  BY ConcatProperties, LenProperties
<1>2. \/ \A i \in 1 .. Len(s) : s[i] \notin T
      \/ \A i \in 1 .. Len(t) : t[i] \notin T
  BY ElementOfSeq
<1>3. ASSUME NEW i \in 1 .. Len(s \o t), NEW j \in 1 .. Len(s \o t),
             (s \o t)[i] \in T, (s \o t)[j] \in T
      PROVE  i = j
  <2>1. CASE i <= Len(s) /\ j <= Len(s)
    BY <1>1, <1>3, <2>1 DEF Once
  <2>2. CASE i > Len(s) /\ j > Len(s)
    <3>1. i - Len(s) \in 1 .. Len(t) /\ j - Len(s) \in 1 .. Len(t)
          /\ t[i - Len(s)] \in T /\ t[j - Len(s)] \in T
      BY <1>1, <1>3, <2>2
    <3>2. i - Len(s) = j - Len(s)
      BY <3>1 DEF Once
    <3>. QED  BY <1>1, <3>2
  <2>3. CASE i <= Len(s) /\ j > Len(s)
    BY <1>1, <1>2, <1>3, <2>3
  <2>4. CASE i > Len(s) /\ j <= Len(s)
    BY <1>1, <1>2, <1>3, <2>4
  <2>. QED
    BY <1>1, <2>1, <2>2, <2>3, <2>4
<1>. QED
  BY <1>1, <1>3 DEF Once
-----------------------------------------------------------------------------
(* Requests for a nickname, and the others. *)
NickReq == { m \in Request : m.cmd = "NICK" }
NickFree == Request \ NickReq

(* At most one of three is true of the current connection: a request for a *)
(* nickname is under way, its refusal is, or the server has given it one;  *)
(* and it is always for the name the bot takes for its own.                *)
NameInv ==
  sockfd \in BotConn /\ Attended(sockfd) =>
    /\ toServer[sockfd] \in Seq(NickFree \cup {Nick(currentNick)})
    /\ Once(toServer[sockfd], NickReq)
    /\ Once(inbox, {"433"})
    /\ \/ toServer[sockfd] \in Seq(NickFree)
       \/ inbox \in Seq({"001"}) /\ nick[sockfd] = NoNick
    /\ inbox \in Seq({"001"}) \/ nick[sockfd] = NoNick
    /\ nick[sockfd] \in {NoNick, currentNick}

LEMMA NickFreeRequests ==
  /\ Command("USER") \in NickFree /\ Command("QUIT") \in NickFree
  /\ Command("JOIN") \in NickFree
  /\ \A word \in BotPass : Pass(word) \in NickFree
  /\ \A n \in Nat : Nick(n) \in NickReq
BY BotRequests DEF NickFree, NickReq, Nick, Command, Pass

(* A NickFree sequence is one with any request for a nickname besides. *)
LEMMA NickFreeSequences ==
  ASSUME NEW s \in Seq(NickFree), NEW n
  PROVE  s \in Seq(NickFree \cup {Nick(n)}) /\ s \in Seq(Request) /\ Once(s, NickReq)
<1>1. s \in Seq(NickFree \cup {Nick(n)})
  BY SeqMonotonic
<1>2. s \in Seq(Request \ NickReq)
  BY DEF NickFree
<1>. QED
  BY <1>1, <1>2, NoneIsOnce

(* What a request that is not for a nickname adds to those under way. *)
LEMMA NickFreeAppended ==
  ASSUME NEW n, NEW s \in Seq(NickFree \cup {Nick(n)}), s \in Seq(Request),
         Once(s, NickReq), NEW t \in Seq(NickFree)
  PROVE  /\ s \o t \in Seq(NickFree \cup {Nick(n)}) /\ Once(s \o t, NickReq)
         /\ s \in Seq(NickFree) => s \o t \in Seq(NickFree)
<1>1. /\ t \in Seq(NickFree \cup {Nick(n)}) /\ t \in Seq(Request)
      /\ Once(t, NickReq) /\ t \in Seq(Request \ NickReq)
  BY NickFreeSequences DEF NickFree
<1>2. Once(s \o t, NickReq)
  BY <1>1, ConcatOnce
<1>3. s \o t \in Seq(NickFree \cup {Nick(n)})
  BY <1>1, ConcatProperties
<1>4. s \in Seq(NickFree) => s \o t \in Seq(NickFree)
  BY ConcatProperties
<1>. QED
  BY <1>2, <1>3, <1>4

LEMMA OneRequest ==
  ASSUME NEW n \in Nat
  PROVE  /\ <<Nick(n)>> \in Seq(NickFree \cup {Nick(n)})
         /\ <<Nick(n)>> \in Seq(Request) /\ Once(<<Nick(n)>>, NickReq)
<1>1. Nick(n) \in Request
  BY BotRequests
<1>2. Len(<<Nick(n)>>) = 1 /\ <<Nick(n)>> \in Seq(Request)
      /\ <<Nick(n)>> \in Seq(NickFree \cup {Nick(n)})
  BY <1>1
<1>. QED
  BY <1>2 DEF Once

(* Login asks once, for currentNick. *)
LEMMA LoginOnce ==
  ASSUME WireInv
  PROVE  /\ LoginLines \in Seq(NickFree \cup {Nick(currentNick)})
         /\ Once(LoginLines, NickReq)
<1>. DEFINE A == NickFree \cup {Nick(currentNick)}
            first == IF pass = NoPass THEN <<>> ELSE <<Pass(pass)>>
            ask == <<Nick(currentNick)>>
            user == <<Command("USER")>>
<1>1. first \in Seq(NickFree) /\ user \in Seq(NickFree)
  BY NickFreeRequests DEF WireInv
<1>2. /\ first \in Seq(A) /\ first \in Seq(Request) /\ Once(first, NickReq)
      /\ user \in Seq(A) /\ user \in Seq(Request) /\ Once(user, NickReq)
  BY <1>1, NickFreeSequences
<1>3. ask \in Seq(A) /\ ask \in Seq(Request) /\ Once(ask, NickReq)
  BY OneRequest DEF WireInv
<1>4. <<Nick(currentNick), Command("USER")>> = ask \o user
  OBVIOUS
<1>5. LoginLines = first \o (ask \o user)
  BY <1>4 DEF LoginLines
<1>. HIDE DEF A, first, ask, user
<1>6. ask \o user \in Seq(Request) /\ Once(ask \o user, NickReq) /\ ask \o user \in Seq(A)
  BY <1>1, <1>2, <1>3, ConcatOnce, ConcatProperties DEF NickFree
<1>7. first \o (ask \o user) \in Seq(A) /\ Once(first \o (ask \o user), NickReq)
  BY <1>1, <1>2, <1>6, ConcatOnce, ConcatProperties DEF NickFree
<1>. QED
  BY <1>5, <1>7 DEF A

LEMMA AtMostOneReply ==
  /\ <<>> \in Seq({"001"}) /\ <<"001">> \in Seq({"001"})
  /\ <<>> \in Seq(Reply) /\ Once(<<>>, {"433"})
  /\ <<"433">> \in Seq(Reply) /\ Once(<<"433">>, {"433"})
<1>1. <<>> \in Seq({"001"}) /\ <<"001">> \in Seq({"001"}) /\ <<>> \in Seq(Reply)
  OBVIOUS
<1>2. <<"433">> \in Seq(Reply)
  BY DEF Reply
<1>3. Len(<<>>) = 0 /\ Len(<<"433">>) = 1
  OBVIOUS
<1>. QED
  BY <1>1, <1>2, <1>3 DEF Once

(* Replies other than a refusal. *)
LEMMA WelcomeSequences ==
  ASSUME NEW s \in Seq({"001"})
  PROVE  s \in Seq(Reply) /\ s \in Seq(Reply \ {"433"}) /\ Once(s, {"433"})
<1>1. s \in Seq(Reply \ {"433"})
  BY SeqMonotonic DEF Reply
<1>. QED
  BY <1>1, NoneIsOnce

(* A step that leaves the connection and the server's view of it alone. *)
LEMMA NameIdle ==
  ASSUME NameInv, UNCHANGED <<clients, nick, backlog, toServer>>,
         sockfd' \notin BotConn \/ UNCHANGED <<sockfd, currentNick, inbox>>
  PROVE  NameInv'
BY DEF NameInv, Attended

LEMMA HandleMessageName ==
  ASSUME NameInv, WireInv, SocketInv, HandleMessage
  PROVE  NameInv'
<1>. DEFINE old == toServer[sockfd]
<1>1. /\ UNCHANGED <<clients, nick, backlog, sockfd>>
      /\ inbox' = Tail(inbox) /\ inbox # <<>> /\ inbox \in Seq(Reply)
      /\ Head(inbox) \in Reply
  BY HeadTailProperties DEF HandleMessage, serverVars, WireInv
<1>. SUFFICES ASSUME sockfd \in BotConn, Attended(sockfd)
              PROVE  NameInv'
  BY <1>1 DEF NameInv, Attended
<1>2. /\ old \in Seq(NickFree \cup {Nick(currentNick)}) /\ Once(old, NickReq)
      /\ old \in Seq(Request) /\ Once(inbox, {"433"})
      /\ old \in Seq(NickFree) \/ (inbox \in Seq({"001"}) /\ nick[sockfd] = NoNick)
      /\ inbox \in Seq({"001"}) \/ nick[sockfd] = NoNick
      /\ nick[sockfd] \in {NoNick, currentNick}
  BY DEF NameInv, WireInv
<1>3. /\ Once(inbox', {"433"})
      /\ inbox \in Seq({"001"}) => inbox' \in Seq({"001"}) /\ Head(inbox) = "001"
  <2>1. Once(Tail(inbox), {"433"})
    BY <1>1, <1>2, TailOnce
  <2>2. ASSUME inbox \in Seq({"001"})
        PROVE  Tail(inbox) \in Seq({"001"}) /\ Head(inbox) \in {"001"}
    BY <1>1, <2>2, HeadTailProperties
  <2>. QED
    BY <1>1, <2>1, <2>2
<1>4. CASE Head(inbox) = "433" /\ NextNick
  <2>1. old \in Seq(NickFree) /\ nick[sockfd] = NoNick
    BY <1>2, <1>3, <1>4
  <2>2. inbox' \in Seq({"001"})
    <3>1. Reply \ {"433"} = {"001"}
      BY DEF Reply
    <3>. QED
      BY <1>1, <1>2, <1>4, <3>1, TailOnce
  <2>3. currentNick' \in Nat /\ toServer'[sockfd] = old \o <<Nick(currentNick')>>
    BY <1>4 DEF NextNick, SendLines, Delivered, WireInv
  <2>4. /\ old \in Seq(NickFree \cup {Nick(currentNick')})
        /\ old \in Seq(Request) /\ Once(old, NickReq)
    BY <2>1, NickFreeSequences
  <2>5. /\ <<Nick(currentNick')>> \in Seq(NickFree \cup {Nick(currentNick')})
        /\ <<Nick(currentNick')>> \in Seq(Request)
        /\ Once(<<Nick(currentNick')>>, NickReq)
    BY <2>3, OneRequest
  <2>6. toServer'[sockfd] \in Seq(NickFree \cup {Nick(currentNick')})
    BY <2>3, <2>4, <2>5, ConcatProperties
  <2>7. Once(toServer'[sockfd], NickReq)
    BY <2>1, <2>3, <2>4, <2>5, ConcatOnce DEF NickFree
  <2>. QED
    BY <1>1, <1>3, <2>1, <2>2, <2>6, <2>7 DEF NameInv
<1>5. CASE Head(inbox) = "001" /\ AutoJoin /\ UNCHANGED <<nick_attempt, currentNick>>
  <2>1. <<Command("JOIN")>> \in Seq(NickFree)
    BY NickFreeRequests
  <2>2. toServer'[sockfd] = old \/ toServer'[sockfd] = old \o <<Command("JOIN")>>
    BY <1>5 DEF AutoJoin, SendLines, Delivered, WireInv
  <2>3. /\ toServer'[sockfd] \in Seq(NickFree \cup {Nick(currentNick)})
        /\ old \in Seq(NickFree) => toServer'[sockfd] \in Seq(NickFree)
        /\ Once(toServer'[sockfd], NickReq)
    BY <1>2, <2>1, <2>2, NickFreeAppended
  <2>. QED
    BY <1>1, <1>2, <1>3, <1>5, <2>3 DEF NameInv
<1>. QED
  BY <1>4, <1>5 DEF HandleMessage

LEMMA CloseName ==
  ASSUME SocketInv, Close
  PROVE  NameInv'
<1>1. sockfd' \notin BotConn
  BY ShutEffect, BotSessionConstants DEF Close, SocketInv
<1>. QED
  BY <1>1 DEF NameInv

LEMMA ConnectsName ==
  ASSUME EntryInv, WireInv, SocketInv, RegistrationTypeOK, Connects
  PROVE  NameInv'
<1>. DEFINE c == dials + 1
<1>1. c \in BotConn /\ c \notin 1 .. dials
  BY BotSessionConstants DEF SocketInv, Connects, BotConn
<1>2. /\ sockfd' = c /\ toServer'[c] = LoginLines /\ inbox' = <<>>
      /\ UNCHANGED <<clients, nick, currentNick>>
  BY <1>1 DEF Connects, serverVars, WireInv
<1>3. nick[c] = NoNick
  BY <1>1, BotSessionConstants DEF EntryInv, RegistrationTypeOK
<1>4. inbox' \in Seq({"001"}) /\ Once(inbox', {"433"})
  BY <1>2, EmptySeq, WelcomeSequences
<1>. HIDE DEF c
<1>. QED
  BY <1>2, <1>3, <1>4, LoginOnce DEF NameInv

(* What a command of client c does to nicknames. *)
LEMMA DispatchNick ==
  ASSUME RegistrationTypeOK, NEW c \in Conn, NEW m \in Request, NEW sent \in BOOLEAN,
         Dispatch(c, m, sent)
  PROVE  /\ \A d \in Conn \ {c} : nick'[d] = nick[d]
         /\ c \in clients' =>
              \/ nick'[c] = nick[c]
              \/ m.cmd = "NICK" /\ ~ Taken(m.nick) /\ nick'[c] = m.nick
<1>1. c \in clients
  BY DEF Dispatch
<1>2. CASE RemoveClient(c)
  BY <1>2 DEF RegistrationTypeOK, RemoveClient
<1>3. CASE UNCHANGED serverVars
  BY <1>3 DEF serverVars
<1>4. CASE m.cmd = "NICK" /\ DoNick(c, m.nick, sent)
  BY <1>4 DEF RegistrationTypeOK, DoNick, NickAccepted
<1>5. CASE DoPass(c) \/ DoUser(c, sent) \/ DoJoin(c, sent) \/ DoNothing(c, sent)
  BY <1>5 DEF DoPass, DoUser, DoJoin, DoNothing
<1>. QED
  BY <1>2, <1>3, <1>4, <1>5 DEF Dispatch

LEMMA ServerReadsName ==
  ASSUME NameInv, EntryInv, WireInv, RegistrationTypeOK, NEW c \in BotConn, ServerReads(c)
  PROVE  NameInv'
<1>. DEFINE m == Head(toServer[c])
            old == toServer[c]
<1>1. /\ toServer' = [toServer EXCEPT ![c] = IF c \in clients' THEN Tail(@) ELSE <<>>]
      /\ inbox' = IF c = sockfd THEN inbox \o Answer(c, m) ELSE inbox
      /\ UNCHANGED <<sockfd, currentNick, backlog>>
      /\ c \in clients /\ old # <<>> /\ old \in Seq(Request)
  BY DEF ServerReads, botVars, WireInv
<1>2. m \in Request /\ c \in Conn
  BY <1>1, HeadTailProperties, BotSessionConstants
<1>3. PICK sent \in BOOLEAN : Dispatch(c, m, sent)
  BY DEF ServerReads
<1>4. /\ clients' \in {clients, clients \ {c}}
      /\ \A d \in Conn \ {c} : nick'[d] = nick[d]
      /\ c \in clients' =>
           \/ nick'[c] = nick[c]
           \/ m.cmd = "NICK" /\ ~ Taken(m.nick) /\ nick'[c] = m.nick
  BY <1>2, <1>3, DispatchEffect, DispatchNick
<1>5. CASE sockfd # c
  BY <1>1, <1>4, <1>5, BotSessionConstants DEF NameInv, Attended, WireInv
<1>6. CASE sockfd = c
  <2>. SUFFICES ASSUME c \in clients'
                PROVE  NameInv'
    BY <1>1, <1>4, <1>6 DEF NameInv, Attended, EntryInv
  <2>1. /\ old \in Seq(NickFree \cup {Nick(currentNick)}) /\ Once(old, NickReq)
        /\ Once(inbox, {"433"}) /\ inbox \in Seq(Reply)
        /\ old \in Seq(NickFree) \/ (inbox \in Seq({"001"}) /\ nick[c] = NoNick)
        /\ inbox \in Seq({"001"}) \/ nick[c] = NoNick
        /\ nick[c] \in {NoNick, currentNick}
    BY <1>1, <1>6 DEF NameInv, Attended, WireInv
  <2>2. /\ toServer'[c] = Tail(old)
        /\ inbox' = inbox \o Answer(c, m)
    BY <1>1, <1>6 DEF WireInv
  <2>3. /\ Tail(old) \in Seq(NickFree \cup {Nick(currentNick)}) /\ Once(Tail(old), NickReq)
        /\ old \in Seq(NickFree) => Tail(old) \in Seq(NickFree) /\ m \in NickFree
        /\ m \in NickReq => Tail(old) \in Seq(NickFree) /\ m = Nick(currentNick)
    <3>1. Once(Tail(old), NickReq) /\ (m \in NickReq => Tail(old) \in Seq(NickFree))
      BY <1>1, <2>1, TailOnce DEF NickFree
    <3>2. /\ Tail(old) \in Seq(NickFree \cup {Nick(currentNick)})
          /\ m \in NickFree \cup {Nick(currentNick)}
          /\ old \in Seq(NickFree) => Tail(old) \in Seq(NickFree) /\ m \in NickFree
      BY <1>1, <2>1, HeadTailProperties
    <3>. QED
      BY <3>1, <3>2 DEF NickFree
  <2>. HIDE DEF old
  <2>4. CASE m.cmd = "NICK"
    <3>1. m \in NickReq /\ m \notin NickFree
      BY <1>2, <2>4 DEF NickReq, NickFree
    <3>2. m = Nick(currentNick) /\ m.nick = currentNick /\ Tail(old) \in Seq(NickFree)
          /\ inbox \in Seq({"001"}) /\ nick[c] = NoNick
      BY <2>1, <2>3, <3>1 DEF Nick
    <3>3. /\ Answer(c, m) \in Seq(Reply) /\ Once(Answer(c, m), {"433"})
          /\ nick'[c] # NoNick => Answer(c, m) \in Seq({"001"})
      <4>. DEFINE refusal == IF m.cmd = "NICK" /\ ~ Refused(c, m) /\ m.nick <= LastNick /\ Taken(m.nick)
                             THEN <<"433">> ELSE <<>>
                  welcome == IF c \in registered' \ registered THEN <<"001">> ELSE <<>>
      <4>1. welcome \in Seq({"001"})
        BY AtMostOneReply
      <4>2. refusal \in Seq(Reply) /\ Once(refusal, {"433"})
        BY AtMostOneReply
      <4>3. nick'[c] # NoNick => refusal = <<>>
        BY <1>4, <3>2
      <4>4. Answer(c, m) = refusal \o welcome
        BY DEF Answer
      <4>. HIDE DEF refusal, welcome
      <4>5. /\ welcome \in Seq(Reply) /\ welcome \in Seq(Reply \ {"433"})
            /\ Once(welcome, {"433"})
        BY <4>1, WelcomeSequences
      <4>6. refusal \o welcome \in Seq(Reply) /\ Once(refusal \o welcome, {"433"})
        BY <4>2, <4>5, ConcatOnce
      <4>7. refusal = <<>> => refusal \o welcome = welcome
        BY <4>1, ConcatEmptySeq
      <4>. QED
        BY <4>1, <4>3, <4>4, <4>6, <4>7
    <3>4. inbox \in Seq(Reply \ {"433"}) /\ Once(inbox, {"433"}) /\ inbox \in Seq(Reply)
      BY <3>2, WelcomeSequences
    <3>5. Once(inbox', {"433"})
      BY <2>2, <3>3, <3>4, ConcatOnce
    <3>6. nick'[c] # NoNick => inbox' \in Seq({"001"})
      BY <2>2, <3>2, <3>3, ConcatProperties
    <3>7. nick'[c] \in {NoNick, currentNick}
      BY <1>4, <3>2
    <3>. QED
      BY <1>1, <1>6, <2>2, <2>3, <3>2, <3>5, <3>6, <3>7 DEF NameInv
  <2>5. CASE m.cmd # "NICK"
    <3>1. Answer(c, m) \in Seq({"001"})
      BY AtMostOneReply, <2>5, ConcatProperties DEF Answer
    <3>2. Once(inbox', {"433"})
      BY <2>1, <2>2, <3>1, WelcomeSequences, ConcatOnce
    <3>3. inbox \in Seq({"001"}) => inbox' \in Seq({"001"})
      BY <2>2, <3>1, ConcatProperties
    <3>4. nick'[c] = nick[c]
      BY <1>4, <2>5
    <3>. QED
      BY <1>1, <1>6, <2>1, <2>2, <2>3, <3>2, <3>3, <3>4 DEF NameInv
  <2>. QED
    BY <2>4, <2>5
<1>. QED
  BY <1>5, <1>6

LEMMA RivalName ==
  ASSUME NameInv, RegistrationTypeOK, NEW c \in Rival, RivalSends(c)
  PROVE  NameInv'
<1>1. PICK m \in RivalRequest, sent \in BOOLEAN : Dispatch(c, m, sent)
  BY DEF RivalSends
<1>2. c \in Conn /\ m \in Request /\ c \notin BotConn /\ BotConn \subseteq Conn
  BY BotSessionConstants
<1>3. /\ clients' \in {clients, clients \ {c}}
      /\ \A d \in Conn \ {c} : nick'[d] = nick[d]
  BY <1>1, <1>2, DispatchEffect, DispatchNick
<1>4. UNCHANGED <<sockfd, currentNick, backlog, toServer, inbox>>
  BY DEF RivalSends, botVars, netVars
<1>. QED
  BY <1>2, <1>3, <1>4 DEF NameInv, Attended

LEMMA NameStep ==
  ASSUME NameInv, EntryInv, WireInv, SocketInv, RegistrationTypeOK, [Next]_vars
  PROVE  NameInv'
<1>1. CASE LoopHead \/ ConnectFails \/ Sleep \/ Signal
           \/ LeavesPolling(LeaveLoop) \/ LeavesPolling(PollFails)
  BY <1>1, NameIdle DEF LoopHead, ConnectFails, Sleep, Signal, LeavesPolling,
       serverVars, netVars
<1>2. CASE ServerGone
  BY <1>2, NameIdle, ShutEffect, BotSessionConstants DEF ServerGone, serverVars, netVars
<1>3. CASE Restart \/ Afterwards
  BY <1>3, NameIdle, BotSessionConstants DEF Restart, Afterwards, SocketInv, serverVars, netVars
<1>4. ASSUME NEW c \in BotConn, Accept(c)
      PROVE  NameInv'
  BY <1>4 DEF NameInv, Attended, Accept, AddClient, botVars
<1>5. ASSUME NEW c \in Rival, RivalArrives(c)
      PROVE  NameInv'
  BY <1>5, BotSessionConstants DEF NameInv, Attended, RivalArrives, AddClient, botVars, netVars
<1>6. CASE UNCHANGED vars
  BY <1>6, NameIdle DEF vars, serverVars, botVars, netVars
<1>. QED
  BY <1>1, <1>2, <1>3, <1>4, <1>5, <1>6, HandleMessageName, CloseName, ConnectsName,
     ServerReadsName, RivalName
  DEF Next, BotStep, BotFault, ServerStep, RivalStep

(* However often it has been refused, and whoever takes names meanwhile:   *)
(* once the server knows the bot by a name, the bot goes by the same.      *)
THEOREM BotKnowsItsNick == Spec => []KnowsItsNick
<1>1. Init => NameInv
  BY BotSessionConstants DEF Init, NameInv
<1>2. NameInv /\ SocketInv /\ RegistrationTypeOK => KnowsItsNick
  <2>. SUFFICES ASSUME NameInv, SocketInv, RegistrationTypeOK, sockfd \in clients, nick[sockfd] # NoNick
                PROVE  nick[sockfd] = currentNick
    BY DEF KnowsItsNick
  <2>1. CASE sockfd \in BotConn
    BY <2>1 DEF NameInv, Attended
  <2>2. CASE sockfd = NoFd
    BY <2>2, BotSessionConstants DEF RegistrationTypeOK
  <2>. QED
    BY <2>1, <2>2 DEF SocketInv
<1>3. Spec => []RegistrationTypeOK
  BY ImplementsRegistration, RegistrationTyped, PTL
<1>. QED
  BY <1>1, <1>2, <1>3, NameStep, EntryInvHolds, SocketInvHolds, WireInvHolds, PTL DEF Spec
=============================================================================
