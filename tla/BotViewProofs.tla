--------------------------- MODULE BotViewProofs ---------------------------
(***************************************************************************)
(* What the bot believes about the operators of its channel, for any       *)
(* number of clients and nicknames and any number of messages under way.   *)
(* The invariants of BotView are about the message the bot reads next; the *)
(* inductive one is about every message under way, and about what the bot  *)
(* will believe when it comes to it.                                       *)
(***************************************************************************)
EXTENDS BotView, MembershipProofs

(* A message that makes n an operator for the bot, one that makes n none.  *)
Tells(m, n) == \/ m.type = "353" /\ n \in m.ops
               \/ m.type = "MODE" /\ n = m.name
Drops(m, n) == m.type \in {"PART", "QUIT"} /\ n = m.name

(* Does a bot that believes in ops now take n for an operator when it has  *)
(* read the first i messages of q?                                         *)
Believes(ops, q, n, i) ==
  \/ n \in ops /\ \A k \in 1 .. i : ~ Drops(q[k], n)
  \/ \E j \in 1 .. i : Tells(q[j], n) /\ \A k \in j + 1 .. i : ~ Drops(q[k], n)

(* ... and when it has read all of q? *)
Will(ops, q, n) == Believes(ops, q, n, Len(q))
Believed(n) == Will(channel_ops, toBot, n)
-----------------------------------------------------------------------------
(* Belief, message by message. *)
LEMMA HeardEffect ==
  ASSUME NEW ops, NEW m, NEW n
  PROVE  n \in Heard(ops, m) <=> (n \in ops /\ ~ Drops(m, n)) \/ Tells(m, n)
BY DEF Heard, Drops, Tells

LEMMA BelievesNow ==
  ASSUME NEW ops, NEW q, NEW n
  PROVE  Believes(ops, q, n, 0) <=> n \in ops
BY DEF Believes

LEMMA BelievesNext ==
  ASSUME NEW ops, NEW q, NEW n, NEW i \in Nat
  PROVE  Believes(ops, q, n, i + 1) <=>
           (Believes(ops, q, n, i) /\ ~ Drops(q[i + 1], n)) \/ Tells(q[i + 1], n)
<1>1. Tells(q[i + 1], n) => ~ Drops(q[i + 1], n)
  BY DEF Tells, Drops
<1>2. \A k : k \in 1 .. i + 1 <=> k \in 1 .. i \/ k = i + 1
  OBVIOUS
<1>3. \A j \in 1 .. i : \A k : k \in j + 1 .. i + 1 <=> k \in j + 1 .. i \/ k = i + 1
  OBVIOUS
<1>4. \A k : k \notin (i + 1) + 1 .. i + 1
  OBVIOUS
<1>5. ASSUME Believes(ops, q, n, i + 1)
      PROVE  (Believes(ops, q, n, i) /\ ~ Drops(q[i + 1], n)) \/ Tells(q[i + 1], n)
  BY <1>2, <1>3, <1>5 DEF Believes
<1>6. ASSUME Believes(ops, q, n, i), ~ Drops(q[i + 1], n)
      PROVE  Believes(ops, q, n, i + 1)
  BY <1>2, <1>3, <1>6 DEF Believes
<1>7. ASSUME Tells(q[i + 1], n)
      PROVE  Believes(ops, q, n, i + 1)
  BY <1>2, <1>4, <1>7 DEF Believes
<1>. QED
  BY <1>5, <1>6, <1>7

LEMMA BelievesAgree ==
  ASSUME NEW ops, NEW q, NEW r, NEW n, NEW i \in Nat, \A k \in 1 .. i : q[k] = r[k]
  PROVE  Believes(ops, q, n, i) <=> Believes(ops, r, n, i)
<1>1. \A j \in 1 .. i : \A k \in j + 1 .. i : k \in 1 .. i
  OBVIOUS
<1>. QED
  BY <1>1 DEF Believes

(* Reading a message now or later makes no difference. *)
LEMMA BelievesRead ==
  ASSUME NEW ops, NEW q \in Seq(ToBot), q # <<>>, NEW n, NEW i \in 0 .. Len(q) - 1
  PROVE  Believes(Heard(ops, Head(q)), Tail(q), n, i) <=> Believes(ops, q, n, i + 1)
<1>. DEFINE r == Tail(q)
            new == Heard(ops, Head(q))
<1>0. Len(q) \in Nat /\ i \in Nat
  BY LenProperties
<1>1. \A k \in 1 .. i : r[k] = q[k + 1]
  BY <1>0, HeadTailProperties
<1>2. Head(q) = q[1]
  BY HeadTailProperties
<1>3. n \in new <=> (n \in ops /\ ~ Drops(q[1], n)) \/ Tells(q[1], n)
  BY <1>2, HeardEffect
<1>. HIDE DEF r, new
<1>4. ASSUME Believes(new, r, n, i)
      PROVE  Believes(ops, q, n, i + 1)
  <2>1. \A k \in 1 .. i + 1 : k = 1 \/ (k - 1 \in 1 .. i /\ q[k] = r[k - 1])
    BY <1>0, <1>1
  <2>2. CASE n \in new /\ \A k \in 1 .. i : ~ Drops(r[k], n)
    <3>1. \A k \in 1 .. i + 1 : k # 1 => ~ Drops(q[k], n)
      BY <2>1, <2>2
    <3>2. CASE n \in ops /\ ~ Drops(q[1], n)
      BY <3>1, <3>2 DEF Believes
    <3>3. CASE Tells(q[1], n)
      <4>1. 1 \in 1 .. i + 1 /\ \A k \in 1 + 1 .. i + 1 : k \in 1 .. i + 1 /\ k # 1
        BY <1>0
      <4>. QED
        BY <3>1, <3>3, <4>1 DEF Believes
    <3>. QED
      BY <1>3, <2>2, <3>2, <3>3
  <2>3. ASSUME NEW j \in 1 .. i, Tells(r[j], n), \A k \in j + 1 .. i : ~ Drops(r[k], n)
        PROVE  Believes(ops, q, n, i + 1)
    <3>1. j + 1 \in 1 .. i + 1 /\ Tells(q[j + 1], n)
      BY <1>0, <1>1, <2>3
    <3>2. \A k \in (j + 1) + 1 .. i + 1 : k \in 1 .. i + 1 /\ k # 1 /\ k - 1 \in j + 1 .. i
      BY <1>0
    <3>3. \A k \in (j + 1) + 1 .. i + 1 : ~ Drops(q[k], n)
      BY <2>1, <2>3, <3>2
    <3>. QED
      BY <3>1, <3>3 DEF Believes
  <2>. QED
    BY <1>4, <2>2, <2>3 DEF Believes
<1>5. ASSUME Believes(ops, q, n, i + 1)
      PROVE  Believes(new, r, n, i)
  <2>1. \A k \in 1 .. i : k + 1 \in 1 .. i + 1 /\ r[k] = q[k + 1]
    BY <1>0, <1>1
  <2>2. 1 \in 1 .. i + 1
    BY <1>0
  <2>3. CASE n \in ops /\ \A k \in 1 .. i + 1 : ~ Drops(q[k], n)
    BY <1>3, <2>1, <2>2, <2>3 DEF Believes
  <2>4. ASSUME NEW j \in 1 .. i + 1, Tells(q[j], n), \A k \in j + 1 .. i + 1 : ~ Drops(q[k], n)
        PROVE  Believes(new, r, n, i)
    <3>1. CASE j = 1
      <4>1. \A k \in 1 .. i : k + 1 \in j + 1 .. i + 1
        BY <1>0, <3>1
      <4>. QED
        BY <1>3, <2>1, <2>4, <3>1, <4>1 DEF Believes
    <3>2. CASE j # 1
      <4>1. j - 1 \in 1 .. i /\ (j - 1) + 1 = j
        BY <1>0, <3>2
      <4>2. \A k \in (j - 1) + 1 .. i : k \in 1 .. i /\ k + 1 \in j + 1 .. i + 1
        BY <1>0, <3>2
      <4>3. Tells(r[j - 1], n) /\ \A k \in (j - 1) + 1 .. i : ~ Drops(r[k], n)
        BY <2>1, <2>4, <4>1, <4>2
      <4>. QED
        BY <4>1, <4>3 DEF Believes
    <3>. QED
      BY <3>1, <3>2
  <2>. QED
    BY <1>5, <2>3, <2>4 DEF Believes
<1>. QED
  BY <1>4, <1>5 DEF new, r
-----------------------------------------------------------------------------
(* The inductive invariant. *)

(* When the bot comes to the k-th message, it believes in whoever was a    *)
(* known operator when he said it, and not in a mere user.                 *)
Claim(ops, q, k) ==
  q[k].type = "command" =>
    /\ q[k].standing = "user" => ~ Believes(ops, q, q[k].name, k - 1)
    /\ q[k].standing = "operator" => Believes(ops, q, q[k].name, k - 1)

ClaimsOf(ops, q) == \A k \in 1 .. Len(q) : Claim(ops, q, k)
Claims == ClaimsOf(channel_ops, toBot)

(* Whoever the bot will believe in is an operator or explained ... *)
Trusts == \A n \in Name : Believed(n) => n \in misled \cup Names(ch.oper)

(* ... and a bot on the channel will believe in every announced operator   *)
(* that has a name.                                                        *)
Obeys ==
  Present => \A f \in ch.oper \ unannounced : nick[f] # NoName /\ f # Bot => Believed(nick[f])

ViewInv ==
  /\ TypeOK
  /\ ch = NewChannel \/ Sound(ch)
  /\ nick[Bot] = BotName
  /\ Claims /\ Trusts /\ Obeys

(* The names of the others. *)
LEMMA NamesOfPeople ==
  ASSUME TypeOK, nick[Bot] = BotName, NEW f \in People
  PROVE  f \in Fd /\ f # Bot /\ nick[f] \in Name \cup {NoName}
BY BotViewConstants DEF TypeOK, People

(* A bot that believes in somebody has been told. *)
LEMMA BelievedInformed ==
  ASSUME TypeOK, NEW n, Believed(n)
  PROVE  Informed
<1>1. DOMAIN toBot = 1 .. Len(toBot)
  BY LenProperties DEF TypeOK
<1>. QED
  BY <1>1 DEF Informed, Believed, Will, Believes, Tells

(* What a message at the end of a queue does to the beliefs. *)
LEMMA Appended ==
  ASSUME NEW ops, NEW q \in Seq(ToBot), ClaimsOf(ops, q), NEW m \in ToBot,
         m.type = "command" =>
           /\ m.standing = "user" => ~ Will(ops, q, m.name)
           /\ m.standing = "operator" => Will(ops, q, m.name)
  PROVE  /\ Append(q, m) \in Seq(ToBot)
         /\ ClaimsOf(ops, Append(q, m))
         /\ \A n : Will(ops, Append(q, m), n) <=> (Will(ops, q, n) /\ ~ Drops(m, n)) \/ Tells(m, n)
<1>. DEFINE len == Len(q)
            r == Append(q, m)
<1>1. len \in Nat
  BY LenProperties
<1>2. /\ r \in Seq(ToBot) /\ Len(r) = len + 1
      /\ \A k \in 1 .. len : r[k] = q[k]
      /\ r[len + 1] = m
  BY <1>1, AppendProperties
<1>. HIDE DEF len, r
<1>3. ASSUME NEW n, NEW i \in 0 .. len
      PROVE  Believes(ops, r, n, i) <=> Believes(ops, q, n, i)
  <2>1. i \in Nat /\ \A k \in 1 .. i : r[k] = q[k]
    BY <1>1, <1>2
  <2>. QED
    BY <2>1, BelievesAgree
<1>4. ASSUME NEW n
      PROVE  Will(ops, r, n) <=> (Will(ops, q, n) /\ ~ Drops(m, n)) \/ Tells(m, n)
  <2>1. Believes(ops, r, n, len) <=> Will(ops, q, n)
    BY <1>1, <1>3 DEF Will, len
  <2>2. Believes(ops, r, n, len + 1) <=> (Believes(ops, r, n, len) /\ ~ Drops(m, n)) \/ Tells(m, n)
    BY <1>1, <1>2, BelievesNext
  <2>. QED
    BY <1>2, <2>1, <2>2 DEF Will
<1>5. ASSUME NEW k \in 1 .. len + 1
      PROVE  Claim(ops, r, k)
  <2>1. CASE k = len + 1
    <3>1. Believes(ops, r, m.name, k - 1) <=> Will(ops, q, m.name)
      BY <1>1, <1>3, <2>1 DEF Will, len
    <3>. QED
      BY <1>2, <2>1, <3>1 DEF Claim
  <2>2. CASE k \in 1 .. len
    <3>1. k - 1 \in 0 .. len /\ r[k] = q[k]
      BY <1>1, <1>2, <2>2
    <3>2. Claim(ops, q, k)
      BY <2>2 DEF ClaimsOf, len
    <3>. QED
      BY <1>3, <3>1, <3>2 DEF Claim
  <2>. QED
    BY <1>1, <2>1, <2>2
<1>. QED
  BY <1>2, <1>4, <1>5 DEF ClaimsOf, r

(* The step leaves the queue and the bot's list alone. *)
LEMMA Quiet ==
  ASSUME Claims, toBot' = toBot, channel_ops' = channel_ops
  PROVE  Claims' /\ \A n : Believed(n)' <=> Believed(n)
BY DEF Claims, Believed

(* What the bot will make of an announcement it hears or does not hear. *)
LEMMA AnnouncedEffect ==
  ASSUME TypeOK, Claims, NEW type \in {"MODE", "PART", "QUIT"}, NEW name, NEW heard \in BOOLEAN,
         Announced(type, name, heard), channel_ops' = channel_ops
  PROVE  /\ toBot' \in Seq(ToBot) /\ Claims'
         /\ heard => Present /\ name \in Name
         /\ ~ heard => \A n : Believed(n)' <=> Believed(n)
         /\ heard => \A n : Believed(n)' <=>
              IF type = "MODE" THEN Believed(n) \/ n = name ELSE Believed(n) /\ n # name
<1>1. CASE heard
  <2>. DEFINE m == Announce(type, name)
  <2>0. Present /\ name \in Name
    BY <1>1 DEF Announced
  <2>1. m.type = type /\ m.name = name /\ m \in ToBot
    BY <2>0 DEF Announce, ToBot
  <2>2. toBot' = Append(toBot, m)
    BY <1>1 DEF Announced
  <2>. HIDE DEF m
  <2>3. /\ toBot' \in Seq(ToBot) /\ Claims'
        /\ \A n : Believed(n)' <=> (Believed(n) /\ ~ Drops(m, n)) \/ Tells(m, n)
    BY <2>1, <2>2, Appended DEF Claims, Believed, TypeOK
  <2>5. \A n : /\ Drops(m, n) <=> type # "MODE" /\ n = name
               /\ Tells(m, n) <=> type = "MODE" /\ n = name
    BY <2>1 DEF Drops, Tells
  <2>. QED
    BY <1>1, <2>0, <2>3, <2>5
<1>2. CASE ~ heard
  <2>1. toBot' = toBot
    BY <1>2 DEF Announced
  <2>. QED
    BY <1>2, <2>1, Quiet DEF TypeOK
<1>. QED
  BY <1>1, <1>2
-----------------------------------------------------------------------------
(* The initial states and the steps, one by one. *)
LEMMA InitView == Init => ViewInv
<1>. SUFFICES ASSUME Init PROVE ViewInv
  OBVIOUS
<1>1. /\ ch \in ChannelState /\ Members(ch) = {} /\ ch.users = {} /\ ch.oper = {}
  BY NewChannelType DEF Init, NewChannel
<1>2. toBot \in Seq(ToBot) /\ toServer \in Seq(ToServer) /\ Len(toBot) = 0
  BY DEF Init
<1>3. TypeOK /\ nick[Bot] = BotName /\ ch = NewChannel
  BY <1>1, <1>2, BotViewConstants DEF Init, TypeOK
<1>4. Claims /\ ~ Present
  BY <1>1, <1>2 DEF Claims, ClaimsOf, Present
<1>5. \A n : ~ Believed(n)
  BY <1>2 DEF Init, Believed, Will, Believes
<1>. QED
  BY <1>3, <1>4, <1>5 DEF ViewInv, Trusts, Obeys

(* A client comes: the descriptor has no name yet. *)
LEMMA ConnectView ==
  ASSUME ViewInv, NEW f \in People, Connect(f)
  PROVE  ViewInv'
<1>1. /\ f \in Fd /\ online' = online \cup {f}
      /\ UNCHANGED <<ch, inside, nick, toBot, toServer, channel_ops, filtered, joined,
                     misled, unannounced>>
  BY DEF Connect, botVars, history, People
<1>2. Claims' /\ \A n : Believed(n)' <=> Believed(n)
  BY <1>1, Quiet DEF ViewInv
<1>3. TypeOK'
  BY <1>1 DEF ViewInv, TypeOK
<1>4. Trusts' /\ Obeys'
  BY <1>1, <1>2 DEF ViewInv, Trusts, Obeys, Names, Present
<1>. QED
  BY <1>1, <1>2, <1>3, <1>4 DEF ViewInv

(* A client joins, and is an operator only of an empty channel. *)
LEMMA JoinView ==
  ASSUME ViewInv, NEW f \in People, Join(f)
  PROVE  ViewInv'
<1>1. /\ f \in Fd /\ f # Bot /\ f \in online /\ f \notin Members(ch) /\ ch' = AddUser(ch, f)
      /\ inside' = inside \cup {f}
      /\ UNCHANGED <<online, nick, toBot, toServer, channel_ops, filtered, joined, misled,
                     unannounced>>
  BY DEF Join, Admits, botVars, history, People
<1>2. Sound(ch') /\ Members(ch') = Members(ch) \cup {f}
  BY <1>1, AddUserSound DEF ViewInv
<1>3. ch.oper \subseteq ch'.oper /\ (ch'.oper \ ch.oper # {} => Members(ch) = {})
  <2>1. ch \in ChannelState
    BY NewChannelType DEF ViewInv, Sound
  <2>2. CASE IsEmpty(ch)
    BY <1>1, <2>1, <2>2 DEF AddUser, IsEmpty, Members, ChannelState
  <2>3. CASE ~ IsEmpty(ch)
    BY <1>1, <2>1, <2>3 DEF AddUser, ChannelState
  <2>. QED
    BY <2>2, <2>3
<1>4. Present' <=> Present
  BY <1>1, <1>2 DEF Present
<1>5. Claims' /\ \A n : Believed(n)' <=> Believed(n)
  BY <1>1, Quiet DEF ViewInv
<1>6. TypeOK'
  BY <1>1, <1>2, <1>3 DEF ViewInv, TypeOK, Sound
<1>7. Trusts'
  BY <1>1, <1>3, <1>5 DEF ViewInv, Trusts, Names
<1>8. Obeys'
  BY <1>1, <1>3, <1>4, <1>5 DEF ViewInv, Obeys, Present
<1>. QED
  BY <1>1, <1>2, <1>5, <1>6, <1>7, <1>8 DEF ViewInv

(* removeUser in terms of the sets. *)
LEMMA LeaveSets ==
  ASSUME ch = NewChannel \/ Sound(ch), NEW f \in Fd, f \in Members(ch),
         ch' = IF Vacated(ch, f) THEN NewChannel ELSE RemoveUser(ch, f)
  PROVE  /\ Sound(ch) /\ (ch' = NewChannel \/ Sound(ch')) /\ ch' \in ChannelState
         /\ ch'.users \cap ch'.oper = {}
         /\ Members(ch') = Members(ch) \ {f} /\ f \notin ch'.oper
         /\ ch.oper \ {f} \subseteq ch'.oper
<1>1. Sound(ch)
  BY NewChannelType
<1>2. CASE Vacated(ch, f)
  <2>1. ch' = NewChannel /\ NewChannel.oper = {} /\ NewChannel.users = {}
    BY <1>2 DEF NewChannel
  <2>. QED
    BY <1>1, <1>2, <2>1, NewChannelType DEF Vacated, Members
<1>3. CASE ~ Vacated(ch, f)
  <2>1. Sound(ch') /\ Members(ch') = Members(ch) \ {f}
    BY <1>1, <1>3, RemoveUserSound
  <2>2. ch.oper \ {f} \subseteq ch'.oper
    BY <1>1, <1>3, RemoveUserSets
  <2>. QED
    BY <1>1, <2>1, <2>2 DEF Sound, Members
<1>. QED
  BY <1>2, <1>3

(* A name that is believed in after f gave up the one it had: it was       *)
(* another operator's, or it is explained.                                 *)
LEMMA GivenUpExplains ==
  ASSUME TypeOK, Trusts, NEW f \in Fd, NEW n \in Name, Believed(n)
  PROVE  n \in misled \cup GivenUp(f) \/ \E g \in ch.oper \ {f} : n = nick[g]
<1>1. CASE n \in misled
  BY <1>1
<1>2. ASSUME NEW g \in ch.oper, n = nick[g]
      PROVE  n \in GivenUp(f) \/ g # f
  BY <1>2, BelievedInformed DEF GivenUp, Names
<1>. QED
  BY <1>1, <1>2 DEF Trusts, Names

LEMMA RemoveClientTyped ==
  ASSUME TypeOK, nick[Bot] = BotName, NEW f \in People, RemoveClient(f)
  PROVE  /\ online' \subseteq Fd /\ Bot \in online'
         /\ nick' \in [Fd -> Name \cup {BotName, NoName}]
         /\ \A g \in Fd : nick'[g] = IF g = f THEN NoName ELSE nick[g]
         /\ \A g \in Fd \ online' : nick'[g] = NoName
         /\ \A g, h \in Fd : nick'[g] = nick'[h] => g = h \/ nick'[g] = NoName
BY DEF TypeOK, RemoveClient, People

(* A client leaves the channel, heard or not, and keeps its name or not. *)
LEMMA DepartView ==
  ASSUME ViewInv, NEW f \in People, NEW cmd \in {"PART", "QUIT"}, NEW heard \in BOOLEAN,
         Depart(f, cmd, heard), UNCHANGED <<online, nick>> \/ RemoveClient(f)
  PROVE  ViewInv'
<1>1. /\ f \in inside
      /\ ch' = IF Vacated(ch, f) THEN NewChannel ELSE RemoveUser(ch, f)
      /\ inside' = inside \ {f}
      /\ Announced(cmd, nick[f], heard)
      /\ misled' = IF heard THEN misled \ {nick[f]} ELSE misled \cup GivenUp(f)
      /\ unannounced' = IF Present THEN (unannounced \cup (ch'.oper \ ch.oper)) \ {f} ELSE {}
      /\ UNCHANGED <<toServer, channel_ops, filtered, joined>>
  BY DEF Depart, botVars
<1>2. /\ TypeOK /\ nick[f] \in Name \cup {NoName} /\ nick[Bot] = BotName
      /\ f \in Fd /\ f # Bot /\ f \in Members(ch) /\ f \in online
      /\ Claims /\ Trusts /\ Obeys
  BY <1>1, NamesOfPeople DEF ViewInv, TypeOK
<1>3. /\ (ch' = NewChannel \/ Sound(ch')) /\ ch' \in ChannelState
      /\ ch'.users \cap ch'.oper = {}
      /\ Members(ch') = Members(ch) \ {f} /\ f \notin ch'.oper
      /\ ch.oper \ {f} \subseteq ch'.oper
  BY <1>1, <1>2, LeaveSets DEF ViewInv
<1>4. Present' <=> Present
  BY <1>2, <1>3 DEF Present
<1>5. /\ toBot' \in Seq(ToBot) /\ Claims'
      /\ heard => Present /\ nick[f] \in Name
      /\ ~ heard => \A n : Believed(n)' <=> Believed(n)
      /\ heard => \A n : Believed(n)' <=> Believed(n) /\ n # nick[f]
  BY <1>1, <1>2, AnnouncedEffect
<1>6. /\ online' \subseteq Fd /\ Bot \in online' /\ online \ {f} \subseteq online'
      /\ nick' \in [Fd -> Name \cup {BotName, NoName}]
      /\ \A g \in Fd : g # f => nick'[g] = nick[g]
      /\ \A g \in Fd \ online' : nick'[g] = NoName
      /\ \A g, h \in Fd : nick'[g] = nick'[h] => g = h \/ nick'[g] = NoName
  <2>1. CASE UNCHANGED <<online, nick>>
    BY <1>2, <2>1 DEF TypeOK
  <2>2. CASE RemoveClient(f)
    BY <1>2, <2>2, RemoveClientTyped DEF RemoveClient, People
  <2>. QED
    BY <2>1, <2>2
<1>7. TypeOK'
  <2>1. misled' \subseteq Name
    BY <1>1, <1>2 DEF TypeOK, GivenUp, Names
  <2>2. unannounced' \subseteq ch'.oper
    BY <1>1, <1>2, <1>3 DEF TypeOK
  <2>3. inside' \subseteq online' \cap Members(ch')
    BY <1>1, <1>2, <1>3, <1>6 DEF TypeOK
  <2>. QED
    BY <1>1, <1>2, <1>3, <1>5, <1>6, <2>1, <2>2, <2>3 DEF TypeOK
<1>8. ch.oper \subseteq Fd /\ ch'.oper \subseteq Fd
  BY <1>2, <1>3 DEF TypeOK, ChannelState
<1>9. Trusts'
  <2>. SUFFICES ASSUME NEW n \in Name, Believed(n)'
                PROVE  n \in misled' \cup Names(ch.oper)'
    BY DEF Trusts
  <2>1. Believed(n) /\ (heard => n # nick[f])
    BY <1>5
  <2>2. ASSUME NEW g \in ch.oper, g # f, n = nick[g]
        PROVE  n \in misled' \cup Names(ch.oper)'
    BY <1>3, <1>6, <1>8, <2>2 DEF Names
  <2>3. CASE heard
    BY <1>1, <1>2, <2>1, <2>2, <2>3 DEF Trusts, Names
  <2>4. CASE ~ heard
    BY <1>1, <1>2, <2>1, <2>2, <2>4, GivenUpExplains
  <2>. QED
    BY <2>3, <2>4
<1>10. Obeys'
  <2>. SUFFICES ASSUME Present', NEW g \in ch'.oper \ unannounced', nick'[g] # NoName, g # Bot
                PROVE  Believed(nick[g])'
    BY DEF Obeys
  <2>1. Present /\ g \in ch.oper \ unannounced /\ g # f /\ g \in Fd
    BY <1>1, <1>3, <1>4, <1>8
  <2>2. nick'[g] = nick[g] /\ Believed(nick[g])
    BY <1>2, <1>6, <2>1 DEF Obeys
  <2>3. nick[g] # nick[f]
    BY <1>2, <2>1, <2>2 DEF TypeOK
  <2>. QED
    BY <1>5, <2>2, <2>3
<1>11. nick'[Bot] = BotName
  BY <1>2, <1>6, BotViewConstants
<1>. QED
  BY <1>3, <1>5, <1>7, <1>9, <1>10, <1>11 DEF ViewInv

(* A client is gone without a word, and the channel may keep its           *)
(* descriptor: its name is explained, and no longer anybody's.             *)
LEMMA VanishView ==
  ASSUME ViewInv, NEW f \in People, Vanish(f)
  PROVE  ViewInv'
<1>1. /\ RemoveClient(f) /\ online' = online \ {f} /\ inside' = inside \ {f}
      /\ misled' = misled \cup GivenUp(f)
      /\ UNCHANGED <<ch, toBot, toServer, channel_ops, filtered, joined, unannounced>>
  BY DEF Vanish, RemoveClient, botVars
<1>2. /\ TypeOK /\ nick[Bot] = BotName /\ f \in Fd /\ f # Bot /\ Bot \in Fd
      /\ Claims /\ Trusts /\ Obeys
  BY BotViewConstants, NamesOfPeople DEF ViewInv
<1>3. Claims' /\ \A n : Believed(n)' <=> Believed(n)
  BY <1>1, <1>2, Quiet
<1>4. /\ online' \subseteq Fd /\ Bot \in online'
      /\ nick' \in [Fd -> Name \cup {BotName, NoName}]
      /\ \A g \in Fd : nick'[g] = IF g = f THEN NoName ELSE nick[g]
      /\ \A g \in Fd \ online' : nick'[g] = NoName
      /\ \A g, h \in Fd : nick'[g] = nick'[h] => g = h \/ nick'[g] = NoName
  BY <1>1, <1>2, RemoveClientTyped
<1>5. TypeOK'
  <2>1. misled' \subseteq Name
    BY <1>1, <1>2 DEF TypeOK, GivenUp, Names
  <2>2. inside' \subseteq online' \cap Members(ch')
    BY <1>1, <1>2 DEF TypeOK
  <2>. QED
    BY <1>1, <1>2, <1>4, <2>1, <2>2 DEF TypeOK
<1>6. ch.oper \subseteq Fd
  BY <1>2 DEF TypeOK, ChannelState
<1>7. Trusts'
  <2>. SUFFICES ASSUME NEW n \in Name, Believed(n)
                PROVE  n \in misled' \cup Names(ch.oper)'
    BY <1>3 DEF Trusts
  <2>1. ASSUME NEW g \in ch.oper, g # f, n = nick[g]
        PROVE  n \in Names(ch.oper)'
    BY <1>1, <1>4, <1>6, <2>1 DEF Names
  <2>. QED
    BY <1>1, <1>2, <2>1, GivenUpExplains
<1>8. Obeys'
  BY <1>1, <1>2, <1>3, <1>4, <1>6 DEF Obeys, Present
<1>. QED
  BY <1>1, <1>2, <1>3, <1>4, <1>5, <1>7, <1>8 DEF ViewInv

LEMMA PromoteView ==
  ASSUME ViewInv, NEW f \in People, NEW g \in Fd, NEW heard \in BOOLEAN, Promote(f, g, heard)
  PROVE  ViewInv'
<1>1. /\ g \in ch.users /\ ch' = MakeOperator(ch, g)
      /\ Announced("MODE", nick[g], heard)
      /\ misled' = IF heard THEN misled \ {nick[g]} ELSE misled
      /\ unannounced' = IF Present /\ ~ heard THEN unannounced \cup {g} ELSE unannounced
      /\ UNCHANGED <<online, inside, nick, toServer, channel_ops, filtered, joined>>
  BY DEF Promote, Designated, botVars
<1>2. TypeOK /\ nick[Bot] = BotName /\ Claims /\ Trusts /\ Obeys
  BY DEF ViewInv
<1>3. Sound(ch)
  BY <1>1 DEF ViewInv, NewChannel
<1>4. /\ Sound(ch') /\ Members(ch') = Members(ch)
      /\ ch'.oper = ch.oper \cup {g}
  BY <1>1, <1>3, MakeOperatorSound DEF MakeOperator, Sound, ChannelState
<1>5. Present' <=> Present
  BY <1>4 DEF Present
<1>6. /\ toBot' \in Seq(ToBot) /\ Claims'
      /\ heard => Present /\ nick[g] \in Name
      /\ ~ heard => \A n : Believed(n)' <=> Believed(n)
      /\ heard => \A n : Believed(n)' <=> Believed(n) \/ n = nick[g]
  BY <1>1, <1>2, AnnouncedEffect
<1>7. TypeOK'
  BY <1>1, <1>2, <1>4, <1>6 DEF TypeOK, Sound
<1>8. Trusts'
  <2>. SUFFICES ASSUME NEW n \in Name, Believed(n)'
                PROVE  n \in misled' \cup Names(ch.oper)'
    BY DEF Trusts
  <2>1. CASE Believed(n) /\ ~ (heard /\ n = nick[g])
    BY <1>1, <1>2, <1>4, <2>1 DEF Trusts, Names
  <2>2. CASE heard /\ n = nick[g]
    BY <1>1, <1>4, <2>2 DEF Names
  <2>. QED
    BY <1>6, <2>1, <2>2
<1>9. Obeys'
  <2>. SUFFICES ASSUME Present', NEW h \in ch'.oper \ unannounced', nick[h] # NoName, h # Bot
                PROVE  Believed(nick[h])'
    BY <1>1 DEF Obeys
  <2>1. CASE h = g
    BY <1>1, <1>5, <1>6, <2>1
  <2>2. CASE h # g
    <3>1. h \in ch.oper \ unannounced
      BY <1>1, <1>4, <2>2
    <3>2. Believed(nick[h])
      BY <1>2, <1>5, <3>1 DEF Obeys
    <3>. QED
      BY <1>1, <1>6, <3>2
  <2>. QED
    BY <2>1, <2>2
<1>. QED
  BY <1>1, <1>2, <1>4, <1>6, <1>7, <1>8, <1>9 DEF ViewInv

LEMMA RolledBackView ==
  ASSUME ViewInv, NEW f \in People, NEW g \in Fd, PromoteRolledBack(f, g)
  PROVE  ViewInv'
<1>1. /\ Announced("MODE", nick[g], TRUE)
      /\ misled' = misled \cup {nick[g]}
      /\ UNCHANGED <<ch, online, inside, nick, toServer, channel_ops, filtered, joined, unannounced>>
  BY DEF PromoteRolledBack, botVars, serverVars
<1>2. TypeOK /\ nick[Bot] = BotName /\ Claims /\ Trusts /\ Obeys
  BY DEF ViewInv
<1>3. /\ toBot' \in Seq(ToBot) /\ Claims' /\ nick[g] \in Name
      /\ \A n : Believed(n)' <=> Believed(n) \/ n = nick[g]
  BY <1>1, <1>2, AnnouncedEffect
<1>4. TypeOK'
  BY <1>1, <1>2, <1>3 DEF TypeOK
<1>5. Trusts'
  BY <1>1, <1>2, <1>3 DEF Trusts, Names
<1>6. Obeys'
  BY <1>1, <1>2, <1>3 DEF Obeys, Present
<1>. QED
  BY <1>1, <1>2, <1>3, <1>4, <1>5, <1>6 DEF ViewInv

LEMMA KickView ==
  ASSUME ViewInv, NEW f \in People, NEW g \in Fd, Kick(f, g)
  PROVE  ViewInv'
<1>1. /\ g \in ch.users /\ ch' = KickUser(ch, g) /\ inside' = inside \ {g}
      /\ unannounced' = IF g = Bot THEN {} ELSE unannounced
      /\ UNCHANGED <<online, nick, toBot, toServer, channel_ops, filtered, joined, misled>>
  BY DEF Kick, MayBeKicked, Designated, botVars
<1>2. Sound(ch) /\ TypeOK
  BY <1>1 DEF ViewInv, NewChannel
<1>3. Sound(ch') /\ Members(ch') = Members(ch) \ {g} /\ ch'.oper = ch.oper
  BY <1>1, <1>2, KickUserSound DEF KickUser, Sound, ChannelState
<1>4. Present' => Present /\ g # Bot
  BY <1>3 DEF Present
<1>5. Claims' /\ \A n : Believed(n)' <=> Believed(n)
  BY <1>1, Quiet DEF ViewInv
<1>6. TypeOK'
  BY <1>1, <1>2, <1>3 DEF TypeOK, Sound
<1>7. Trusts' /\ Obeys'
  BY <1>1, <1>3, <1>4, <1>5 DEF ViewInv, Trusts, Obeys, Names
<1>. QED
  BY <1>1, <1>3, <1>5, <1>6, <1>7 DEF ViewInv

LEMMA RenameView ==
  ASSUME ViewInv, NEW f \in People, NEW n \in Name, Rename(f, n)
  PROVE  ViewInv'
<1>1. /\ f \in Fd /\ f # Bot /\ f \in online /\ n \notin Names(online)
      /\ nick' = [nick EXCEPT ![f] = n]
      /\ misled' = misled \cup GivenUp(f)
      /\ unannounced' = IF Present THEN unannounced \cup (ch.oper \cap {f}) ELSE {}
      /\ UNCHANGED <<ch, online, inside, toBot, toServer, channel_ops, filtered, joined>>
  BY DEF Rename, botVars, People
<1>2. /\ TypeOK /\ nick[Bot] = BotName
      /\ Claims /\ Trusts /\ Obeys /\ Bot \in Fd /\ n # NoName /\ n # BotName
  BY BotViewConstants DEF ViewInv
<1>3. \A g \in Fd : nick[g] # n
  <2>1. \A g \in online : nick[g] # n
    BY <1>1 DEF Names
  <2>. QED
    BY <1>2, <2>1 DEF TypeOK
<1>4. Claims' /\ \A x : Believed(x)' <=> Believed(x)
  BY <1>1, <1>2, Quiet
<1>5. \A g \in Fd : nick'[g] = IF g = f THEN n ELSE nick[g]
  BY <1>1, <1>2 DEF TypeOK
<1>6. TypeOK'
  <2>1. nick' \in [Fd -> Name \cup {BotName, NoName}]
    BY <1>1, <1>2 DEF TypeOK
  <2>2. \A g, h \in Fd : nick'[g] = nick'[h] => g = h \/ nick'[g] = NoName
    BY <1>2, <1>3, <1>5 DEF TypeOK
  <2>3. \A g \in Fd \ online' : nick'[g] = NoName
    BY <1>1, <1>2, <1>5 DEF TypeOK
  <2>4. misled' \subseteq Name /\ unannounced' \subseteq ch'.oper
    BY <1>1, <1>2 DEF TypeOK, GivenUp, Names
  <2>. QED
    BY <1>1, <1>2, <2>1, <2>2, <2>3, <2>4 DEF TypeOK
<1>7. ch.oper \subseteq Fd
  BY <1>2 DEF TypeOK, ChannelState
<1>8. Trusts'
  <2>. SUFFICES ASSUME NEW x \in Name, Believed(x)
                PROVE  x \in misled' \cup Names(ch.oper)'
    BY <1>4 DEF Trusts
  <2>1. ASSUME NEW g \in ch.oper, g # f, x = nick[g]
        PROVE  x \in Names(ch.oper)'
    BY <1>1, <1>5, <1>7, <2>1 DEF Names
  <2>. QED
    BY <1>1, <1>2, <2>1, GivenUpExplains
<1>9. Obeys'
  <2>. SUFFICES ASSUME Present, NEW g \in ch.oper \ unannounced', nick'[g] # NoName, g # Bot
                PROVE  Believed(nick'[g])
    BY <1>1, <1>4 DEF Obeys, Present
  <2>1. g \in ch.oper \ unannounced /\ g # f /\ g \in Fd
    BY <1>1, <1>7
  <2>. QED
    BY <1>2, <1>5, <2>1 DEF Obeys
<1>. QED
  BY <1>1, <1>2, <1>4, <1>5, <1>6, <1>8, <1>9 DEF ViewInv

LEMMA InviteView ==
  ASSUME ViewInv, NEW f \in People, Invite(f)
  PROVE  ViewInv'
<1>. DEFINE m == [type |-> "INVITE"]
<1>1. /\ toBot' = Append(toBot, m)
      /\ UNCHANGED <<ch, online, inside, nick, toServer, channel_ops, filtered, joined, misled,
                     unannounced>>
  BY DEF Invite, botVars, serverVars, history
<1>2. m \in ToBot /\ m.type = "INVITE"
  BY DEF ToBot
<1>. HIDE DEF m
<1>3. TypeOK /\ Claims /\ Trusts /\ Obeys
  BY DEF ViewInv
<1>4. /\ toBot' \in Seq(ToBot) /\ Claims'
      /\ \A n : Believed(n)' <=> (Believed(n) /\ ~ Drops(m, n)) \/ Tells(m, n)
  BY <1>1, <1>2, <1>3, Appended DEF Claims, Believed, TypeOK
<1>5. \A n : Believed(n)' <=> Believed(n)
  BY <1>2, <1>4 DEF Drops, Tells
<1>6. TypeOK'
  BY <1>1, <1>3, <1>4 DEF TypeOK
<1>7. Trusts' /\ Obeys'
  BY <1>1, <1>3, <1>5 DEF Trusts, Obeys, Names, Present
<1>. QED
  BY <1>1, <1>4, <1>6, <1>7 DEF ViewInv

(* The standing of a speaker is what the bot will believe of him.          *)
LEMMA SayView ==
  ASSUME ViewInv, NEW f \in People, Say(f)
  PROVE  ViewInv'
<1>1. PICK m \in {Order(nick[f], Standing(f)), Word(nick[f])} : toBot' = Append(toBot, m)
  BY DEF Say
<1>2. /\ Present /\ nick[f] # NoName
      /\ UNCHANGED <<ch, online, inside, nick, toServer, channel_ops, filtered, joined, misled,
                     unannounced>>
  BY DEF Say, botVars, serverVars, history
<1>3. /\ TypeOK /\ Claims /\ Trusts /\ Obeys
      /\ f \in Fd /\ f # Bot /\ nick[f] \in Name
  BY <1>2, NamesOfPeople DEF ViewInv
<1>4. /\ m \in ToBot /\ m.name = nick[f] /\ m.type \in {"command", "word"}
      /\ m.type = "command" => m.standing = Standing(f)
  BY <1>3 DEF ToBot, Order, Word, Standing
<1>5. Standing(f) = "user" => ~ Believed(nick[f])
  <2>. SUFFICES ASSUME f \notin ch.oper, nick[f] \notin misled, Believed(nick[f])
                PROVE  FALSE
    BY DEF Standing
  <2>1. PICK g \in ch.oper : nick[f] = nick[g]
    BY <1>3 DEF Trusts, Names
  <2>. QED
    BY <1>2, <1>3, <2>1 DEF TypeOK, ChannelState
<1>6. Standing(f) = "operator" => Believed(nick[f])
  BY <1>2, <1>3 DEF Standing, Obeys
<1>7. /\ toBot' \in Seq(ToBot) /\ Claims'
      /\ \A n : Believed(n)' <=> (Believed(n) /\ ~ Drops(m, n)) \/ Tells(m, n)
  BY <1>1, <1>2, <1>3, <1>4, <1>5, <1>6, Appended DEF Claims, Believed, TypeOK
<1>8. \A n : Believed(n)' <=> Believed(n)
  BY <1>4, <1>7 DEF Drops, Tells
<1>9. TypeOK'
  BY <1>2, <1>3, <1>7 DEF TypeOK
<1>10. Trusts' /\ Obeys'
  BY <1>2, <1>3, <1>8 DEF Trusts, Obeys, Names, Present
<1>. QED
  BY <1>2, <1>7, <1>9, <1>10 DEF ViewInv

(* The bot joins: it is sent the names of the operators, or will never     *)
(* know them.                                                              *)
LEMMA ServeJoinView ==
  ASSUME ViewInv, Serve, NEW names \in BOOLEAN, NEW echo \in BOOLEAN,
         ServeJoin(names, echo), Admits(ch, Bot, NoKey)
  PROVE  ViewInv'
<1>. DEFINE list == [type |-> "353", ops |-> Names(ch'.oper)]
            join == [type |-> "JOIN"]
            q == IF names THEN Append(toBot, list) ELSE toBot
<1>1. /\ Bot \notin Members(ch) /\ ch' = AddUser(ch, Bot) /\ inside' = inside \cup {Bot}
      /\ toBot' = toBot \o (IF names THEN <<list>> ELSE <<>>) \o (IF echo THEN <<join>> ELSE <<>>)
      /\ misled' = IF names THEN misled \ Names(ch'.oper) ELSE misled
      /\ unannounced' = IF names THEN {} ELSE ch'.oper
      /\ toServer # <<>> /\ toServer' = Tail(toServer)
      /\ UNCHANGED <<online, nick, channel_ops, filtered, joined>>
  BY DEF Serve, ServeJoin, Welcomed, Admits, botVars
<1>2. /\ TypeOK /\ nick[Bot] = BotName /\ Bot \in Fd
      /\ toBot \in Seq(ToBot) /\ Claims /\ Trusts /\ Obeys
  BY BotViewConstants DEF ViewInv, TypeOK
<1>3. /\ Sound(ch') /\ ch.oper \subseteq ch'.oper /\ ch'.oper \subseteq Fd
      /\ Members(ch') = Members(ch) \cup {Bot}
  <2>1. Sound(ch') /\ ch'.oper \subseteq Fd /\ Members(ch') = Members(ch) \cup {Bot}
    BY <1>1, <1>2, AddUserSound DEF ViewInv, Sound, ChannelState
  <2>2. ch.oper \subseteq ch'.oper
    BY <1>1, <1>2 DEF AddUser, IsEmpty, Members, TypeOK, ChannelState
  <2>. QED
    BY <2>1, <2>2
<1>4. /\ list \in ToBot /\ list.type = "353" /\ list.ops = Names(ch'.oper)
      /\ join \in ToBot /\ join.type = "JOIN"
  BY DEF ToBot, Names
<1>. HIDE DEF list, join
<1>5. toBot' = IF echo THEN Append(q, join) ELSE q
  <2>1. \A r \in Seq(ToBot) : \A x \in ToBot : r \o <<>> = r /\ r \o <<x>> = Append(r, x)
    OBVIOUS
  <2>2. q \in Seq(ToBot) /\ q = toBot \o (IF names THEN <<list>> ELSE <<>>)
    <3>1. CASE names
      BY <1>2, <1>4, <2>1, <3>1, AppendProperties
    <3>2. CASE ~ names
      BY <1>2, <2>1, <3>2
    <3>. QED
      BY <3>1, <3>2
  <2>. HIDE DEF q
  <2>3. toBot' = q \o (IF echo THEN <<join>> ELSE <<>>)
    BY <1>1, <2>2
  <2>4. CASE echo
    BY <1>4, <2>1, <2>2, <2>3, <2>4
  <2>5. CASE ~ echo
    BY <2>1, <2>2, <2>3, <2>5
  <2>. QED
    BY <2>4, <2>5
<1>6. /\ q \in Seq(ToBot) /\ ClaimsOf(channel_ops, q)
      /\ \A n : Will(channel_ops, q, n) <=> Believed(n) \/ (names /\ n \in Names(ch'.oper))
  <2>1. CASE names
    <3>1. /\ Append(toBot, list) \in Seq(ToBot) /\ ClaimsOf(channel_ops, Append(toBot, list))
          /\ \A n : Will(channel_ops, Append(toBot, list), n) <=>
                      (Believed(n) /\ ~ Drops(list, n)) \/ Tells(list, n)
      BY <1>2, <1>4, Appended DEF Claims, Believed
    <3>2. \A n : ~ Drops(list, n) /\ (Tells(list, n) <=> n \in Names(ch'.oper))
      BY <1>4 DEF Drops, Tells
    <3>. QED
      BY <2>1, <3>1, <3>2
  <2>2. CASE ~ names
    BY <1>2, <2>2 DEF Claims, Believed
  <2>. QED
    BY <2>1, <2>2
<1>. HIDE DEF q
<1>7. /\ toBot' \in Seq(ToBot) /\ ClaimsOf(channel_ops, toBot')
      /\ \A n : Will(channel_ops, toBot', n) <=> Will(channel_ops, q, n)
  <2>1. CASE echo
    <3>1. /\ Append(q, join) \in Seq(ToBot) /\ ClaimsOf(channel_ops, Append(q, join))
          /\ \A n : Will(channel_ops, Append(q, join), n) <=>
                      (Will(channel_ops, q, n) /\ ~ Drops(join, n)) \/ Tells(join, n)
      BY <1>4, <1>6, Appended
    <3>2. \A n : ~ Drops(join, n) /\ ~ Tells(join, n)
      BY <1>4 DEF Drops, Tells
    <3>. QED
      BY <1>5, <2>1, <3>1, <3>2
  <2>2. CASE ~ echo
    BY <1>5, <1>6, <2>2
  <2>. QED
    BY <2>1, <2>2
<1>8. Claims' /\ \A n : Believed(n)' <=> Believed(n) \/ (names /\ n \in Names(ch'.oper))
  BY <1>1, <1>6, <1>7 DEF Claims, Believed
<1>9. TypeOK'
  <2>1. toServer' \in Seq(ToServer)
    BY <1>1, <1>2 DEF TypeOK
  <2>2. inside' \subseteq online' \cap Members(ch')
    BY <1>1, <1>2, <1>3 DEF TypeOK
  <2>. QED
    BY <1>1, <1>2, <1>3, <1>7, <2>1, <2>2 DEF TypeOK, Sound
<1>10. Trusts'
  BY <1>1, <1>2, <1>3, <1>8 DEF Trusts, Names
<1>11. Obeys'
  <2>. SUFFICES ASSUME NEW f \in ch'.oper \ unannounced', nick[f] # NoName, f # Bot
                PROVE  Believed(nick[f])'
    BY <1>1 DEF Obeys
  <2>1. names /\ f \in Fd
    BY <1>1, <1>3
  <2>2. nick[f] \in Name
    BY <1>2, <2>1, NamesOfPeople DEF People
  <2>. QED
    BY <1>1, <1>8, <2>1, <2>2 DEF Names
<1>. QED
  BY <1>1, <1>2, <1>3, <1>8, <1>9, <1>10, <1>11 DEF ViewInv

(* The bot kicks a user, whose departure concerns no operator.             *)
LEMMA ServeKickView ==
  ASSUME ViewInv, Serve, ServeKick
  PROVE  ViewInv'
<1>1. PICK gone \in SUBSET ch.users :
        /\ gone = { g \in ch.users : /\ Bot \in ch.oper /\ MayBeKicked(g)
                                     /\ nick[g] = Head(toServer).name }
        /\ ch' = [ch EXCEPT !.users = @ \ gone]
        /\ inside' = inside \ gone
  BY DEF ServeKick
<1>2. /\ toServer # <<>> /\ toServer' = Tail(toServer)
      /\ UNCHANGED <<online, nick, toBot, channel_ops, filtered, joined, misled, unannounced>>
  BY DEF Serve, ServeKick, botVars, history
<1>3. TypeOK /\ Claims /\ Trusts /\ Obeys
  BY DEF ViewInv
<1>4. toServer' \in Seq(ToServer)
  BY <1>2, <1>3 DEF TypeOK
<1>5. /\ ch' \in ChannelState /\ ch'.oper = ch.oper /\ ch'.users = ch.users \ gone
      /\ ch'.mode = ch.mode /\ ch'.limit = ch.limit
  BY <1>1, <1>3 DEF TypeOK, ChannelState
<1>6. ch' = NewChannel \/ Sound(ch')
  <2>1. CASE gone = {}
    <3>1. ch' = ch
      BY <1>1, <1>3, <2>1 DEF TypeOK, ChannelState
    <3>. QED
      BY <3>1 DEF ViewInv
  <2>2. CASE gone # {}
    <3>1. Bot \in ch.oper
      BY <1>1, <2>2
    <3>. QED
      BY <1>5, <3>1 DEF ViewInv, Sound, NewChannel
  <2>. QED
    BY <2>1, <2>2
<1>7. Present' <=> Present
  <2>1. CASE gone = {}
    BY <1>5, <2>1 DEF Present, Members
  <2>2. CASE gone # {}
    <3>1. Bot \in ch.oper
      BY <1>1, <2>2
    <3>. QED
      BY <1>5, <3>1 DEF Present, Members
  <2>. QED
    BY <2>1, <2>2
<1>8. Claims' /\ \A n : Believed(n)' <=> Believed(n)
  BY <1>2, <1>3, Quiet
<1>9. TypeOK'
  <2>1. inside' \subseteq online' \cap Members(ch')
    BY <1>1, <1>2, <1>3, <1>5 DEF TypeOK, Members
  <2>. QED
    BY <1>2, <1>3, <1>4, <1>5, <2>1 DEF TypeOK
<1>10. Trusts' /\ Obeys'
  BY <1>2, <1>3, <1>5, <1>7, <1>8 DEF Trusts, Obeys, Names
<1>. QED
  BY <1>2, <1>6, <1>8, <1>9, <1>10 DEF ViewInv

LEMMA ServeView ==
  ASSUME ViewInv, Serve
  PROVE  ViewInv'
<1>1. ASSUME NEW names \in BOOLEAN, NEW echo \in BOOLEAN, ServeJoin(names, echo)
      PROVE  ViewInv'
  <2>1. CASE Admits(ch, Bot, NoKey)
    BY <1>1, <2>1, ServeJoinView
  <2>2. CASE ~ Admits(ch, Bot, NoKey)
    <3>1. /\ toServer # <<>> /\ toServer' = Tail(toServer)
          /\ UNCHANGED <<ch, online, inside, nick, toBot, channel_ops, filtered, joined, misled,
                         unannounced>>
      BY <1>1, <2>2 DEF Serve, ServeJoin, botVars, history
    <3>2. TypeOK /\ Claims /\ Trusts /\ Obeys
      BY DEF ViewInv
    <3>3. Present' <=> Present
      BY <3>1 DEF Present
    <3>4. Claims' /\ \A n : Believed(n)' <=> Believed(n)
      BY <3>1, <3>2, Quiet
    <3>5. TypeOK'
      BY <3>1, <3>2 DEF TypeOK
    <3>6. Trusts' /\ Obeys'
      BY <3>1, <3>2, <3>3, <3>4 DEF Trusts, Obeys, Names
    <3>. QED
      BY <3>1, <3>4, <3>5, <3>6 DEF ViewInv
  <2>. QED
    BY <2>1, <2>2
<1>2. CASE ServeKick
  BY <1>2, ServeKickView
<1>. QED
  BY <1>1, <1>2 DEF Serve

(* The bot reads a message: what it will believe stays the same. *)
LEMMA HandleView ==
  ASSUME ViewInv, Handle
  PROVE  ViewInv'
<1>. DEFINE m == Head(toBot)
            len == Len(toBot)
<1>1. /\ toBot # <<>> /\ toBot' = Tail(toBot)
      /\ channel_ops' = Heard(channel_ops, m)
      /\ FilterAfter(m)
      /\ joined' = (joined \/ m.type = "JOIN")
      /\ \E w \in Wants(m) : toServer' = toServer \o w
      /\ UNCHANGED <<ch, online, inside, nick, misled, unannounced>>
  BY DEF Handle, serverVars, history
<1>2. TypeOK /\ Claims /\ Trusts /\ Obeys
  BY DEF ViewInv
<1>3. /\ toBot \in Seq(ToBot) /\ len \in Nat \ {0} /\ m = toBot[1] /\ m \in ToBot
      /\ toBot' \in Seq(ToBot) /\ Len(toBot') = len - 1
      /\ \A k \in 1 .. len - 1 : toBot'[k] = toBot[k + 1]
  <2>1. toBot \in Seq(ToBot)
    BY <1>2 DEF TypeOK
  <2>2. len \in Nat \ {0} /\ m = toBot[1] /\ m \in ToBot
    BY <1>1, <2>1, EmptySeq, LenProperties, HeadTailProperties
  <2>. QED
    BY <1>1, <2>1, <2>2, HeadTailProperties
<1>4. ASSUME NEW n, NEW i \in 0 .. len - 1
      PROVE  Believes(channel_ops', toBot', n, i) <=> Believes(channel_ops, toBot, n, i + 1)
  BY <1>1, <1>3, BelievesRead
<1>. HIDE DEF m, len
<1>5. ASSUME NEW n
      PROVE  Believed(n)' <=> Believed(n)
  <2>1. len - 1 \in 0 .. len - 1 /\ (len - 1) + 1 = len
    BY <1>3
  <2>2. Believes(channel_ops', toBot', n, len - 1) <=> Believes(channel_ops, toBot, n, (len - 1) + 1)
    BY <1>4, <2>1
  <2>. QED
    BY <1>3, <2>1, <2>2 DEF Believed, Will, len
<1>6. Claims'
  <2>. SUFFICES ASSUME NEW k \in 1 .. len - 1
                PROVE  Claim(channel_ops', toBot', k)
    BY <1>3 DEF Claims, ClaimsOf
  <2>1. /\ k - 1 \in 0 .. len - 1 /\ (k - 1) + 1 = k /\ (k + 1) - 1 = k
        /\ k + 1 \in 1 .. len /\ toBot'[k] = toBot[k + 1]
    BY <1>3
  <2>2. \A n : Believes(channel_ops', toBot', n, k - 1) <=> Believes(channel_ops, toBot, n, (k + 1) - 1)
    BY <1>4, <2>1
  <2>3. Claim(channel_ops, toBot, k + 1)
    BY <1>2, <2>1 DEF Claims, ClaimsOf, len
  <2>. QED
    BY <2>1, <2>2, <2>3 DEF Claim
<1>7. TypeOK'
  <2>1. PICK w \in Wants(m) : toServer' = toServer \o w
    BY <1>1
  <2>2. w \in Seq(ToServer)
    <3>1. m.type = "word" => m.name \in Name
      BY <1>3 DEF ToBot
    <3>2. m.type = "word" => [cmd |-> "KICK", name |-> m.name] \in ToServer
      BY <3>1 DEF ToServer
    <3>3. [cmd |-> "JOIN"] \in ToServer
      BY DEF ToServer
    <3>4. \A r \in ToServer : <<r>> \in Seq(ToServer) /\ <<r, r>> \in Seq(ToServer)
      OBVIOUS
    <3>5. <<>> \in Seq(ToServer)
      OBVIOUS
    <3>. QED
      BY <3>2, <3>3, <3>4, <3>5 DEF Wants
  <2>3. toServer' \in Seq(ToServer)
    BY <1>2, <2>1, <2>2, ConcatProperties DEF TypeOK
  <2>4. channel_ops' \subseteq Name
    <3>1. /\ m.type = "353" => m.ops \subseteq Name
          /\ m.type = "MODE" => m.name \in Name
      BY <1>3 DEF ToBot
    <3>2. channel_ops \subseteq Name
      BY <1>2 DEF TypeOK
    <3>. QED
      BY <1>1, <3>1, <3>2 DEF Heard
  <2>5. filtered' \in BOOLEAN /\ joined' \in BOOLEAN
    BY <1>1, <1>2 DEF FilterAfter, TypeOK
  <2>. QED
    BY <1>1, <1>2, <1>3, <2>3, <2>4, <2>5 DEF TypeOK
<1>8. Trusts' /\ Obeys'
  BY <1>1, <1>2, <1>5 DEF Trusts, Obeys, Names, Present
<1>. QED
  BY <1>1, <1>6, <1>7, <1>8 DEF ViewInv

LEMMA NextView == ViewInv /\ [Next]_vars => ViewInv'
<1>. SUFFICES ASSUME ViewInv, [Next]_vars PROVE ViewInv'
  OBVIOUS
<1>1. ASSUME NEW f \in People, Connect(f) PROVE ViewInv'
  BY <1>1, ConnectView
<1>2. ASSUME NEW f \in People, Join(f) PROVE ViewInv'
  BY <1>2, JoinView
<1>3. ASSUME NEW f \in People, NEW heard \in BOOLEAN, Leave(f, heard) PROVE ViewInv'
  BY <1>3, DepartView DEF Leave
<1>4. ASSUME NEW f \in People, NEW heard \in BOOLEAN, Quit(f, heard) PROVE ViewInv'
  BY <1>4, DepartView DEF Quit
<1>5. ASSUME NEW f \in People, Vanish(f) PROVE ViewInv'
  BY <1>5, VanishView
<1>6. ASSUME NEW f \in People, NEW g \in Fd, NEW heard \in BOOLEAN, Promote(f, g, heard)
      PROVE  ViewInv'
  BY <1>6, PromoteView
<1>7. ASSUME NEW f \in People, NEW g \in Fd, PromoteRolledBack(f, g) PROVE ViewInv'
  BY <1>7, RolledBackView
<1>8. ASSUME NEW f \in People, NEW g \in Fd, Kick(f, g) PROVE ViewInv'
  BY <1>8, KickView
<1>9. ASSUME NEW f \in People, NEW n \in Name, Rename(f, n) PROVE ViewInv'
  BY <1>9, RenameView
<1>10. ASSUME NEW f \in People, Invite(f) PROVE ViewInv'
  BY <1>10, InviteView
<1>11. ASSUME NEW f \in People, Say(f) PROVE ViewInv'
  BY <1>11, SayView
<1>12. CASE Others
  BY <1>1, <1>2, <1>3, <1>4, <1>5, <1>6, <1>7, <1>8, <1>9, <1>10, <1>11, <1>12 DEF Others
<1>13. ASSUME UNCHANGED vars PROVE ViewInv'
  <2>1. UNCHANGED <<ch, online, inside, nick, toBot, toServer, channel_ops, filtered, joined,
                    misled, unannounced>>
    BY <1>13 DEF vars, serverVars, botVars, history
  <2>2. Present' <=> Present
    BY <2>1 DEF Present
  <2>3. Claims' /\ \A n : Believed(n)' <=> Believed(n)
    BY <2>1, Quiet DEF ViewInv
  <2>. QED
    BY <2>1, <2>2, <2>3 DEF ViewInv, TypeOK, Trusts, Obeys, Names
<1>. QED
  BY <1>12, <1>13, ServeView, HandleView DEF Next
-----------------------------------------------------------------------------
(* Come, join, depart, vanish, promote, kick, rename, invite, say, and the *)
(* bot itself, in any order and with any announcement lost: whoever the    *)
(* bot will believe in is an operator or explained by `misled', and it     *)
(* will believe in every operator but those of `unannounced'.              *)
THEOREM ViewInvHolds == Spec => []ViewInv
BY InitView, NextView, PTL DEF Spec

(* The announcements, the requests and the bot's list stay well-formed, no *)
(* nickname is two clients', a descriptor that is closed has none, and the *)
(* operators the bot was not told of are operators.                        *)
THEOREM ViewTyped == Spec => []TypeOK
<1>1. ViewInv => TypeOK
  BY DEF ViewInv
<1>. QED
  BY <1>1, ViewInvHolds, PTL

(* What the claims say of the message at the head of the queue. *)
LEMMA JudgedByClaim ==
  ASSUME ViewInv, Judging
  PROVE  /\ Head(toBot).standing = "user" => ~ Authorised(Head(toBot))
         /\ Head(toBot).standing = "operator" => Authorised(Head(toBot))
<1>1. toBot \in Seq(ToBot) /\ toBot # <<>> /\ Head(toBot).type = "command"
  BY DEF ViewInv, TypeOK, Judging
<1>2. 1 \in 1 .. Len(toBot) /\ toBot[1] = Head(toBot)
  BY <1>1, EmptySeq, LenProperties, HeadTailProperties
<1>3. Claim(channel_ops, toBot, 1)
  BY <1>2 DEF ViewInv, Claims, ClaimsOf
<1>4. Believes(channel_ops, toBot, Head(toBot).name, 1 - 1) <=> Authorised(Head(toBot))
  BY BelievesNow DEF Authorised
<1>. QED
  BY <1>1, <1>2, <1>3, <1>4 DEF Claim

(* The bot takes a command (!filter, !unfilter) from nobody who was a mere *)
(* user when he gave it, however many announcements were under way and     *)
(* however many were lost, unless the name had been an operator's and was  *)
(* given up, or had been announced and was taken back, without a word that *)
(* reached the bot (Bot::handle_message, channel_ops).                     *)
THEOREM TrustIsExplained == Spec => []TrustExplained
<1>1. ViewInv => TrustExplained
  BY JudgedByClaim DEF TrustExplained
<1>. QED
  BY <1>1, ViewInvHolds, PTL

(* And it refuses none from an operator whose office and present name      *)
(* reached it, although it may read the announcement only just before.     *)
THEOREM OperatorsAreObeyed == Spec => []OperatorsObeyed
<1>1. ViewInv => OperatorsObeyed
  BY JudgedByClaim DEF OperatorsObeyed
<1>. QED
  BY <1>1, ViewInvHolds, PTL
=============================================================================
