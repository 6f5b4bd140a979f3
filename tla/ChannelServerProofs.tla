------------------------ MODULE ChannelServerProofs ------------------------
(***************************************************************************)
(* Theorems about ChannelServer for any number of descriptors, channels,   *)
(* nicknames, passwords and mode strings.                                  *)
(*                                                                         *)
(*  - For every behaviour of the server, with ghosts in its channels or    *)
(*    without: typing, OperatorPresent, NoDanglingChannel, LimitDefined,   *)
(*    NickUnique, and that nobody is demoted (OperatorsStay).              *)
(*  - For orderly clients: MembershipConsistent and StaysUp.               *)
(***************************************************************************)
EXTENDS ChannelServer, MembershipProofs

(* The inductive invariant of Spec.  OperatorPresent and LimitDefined are  *)
(* about the channels alone; that nobody but a client has a list is what   *)
(* makes a new client start with an empty one.                             *)
StructInv ==
  /\ TypeOK
  /\ \A c \in Chan : IF c \in channels THEN Sound(chan[c]) ELSE chan[c] = NewChannel
  /\ NoDanglingChannel
  /\ \A f \in Fd \ clients : joined[f] = <<>>
-----------------------------------------------------------------------------
(* The letters of a mode string come with a parameter each. *)
LEMMA WithArgsSound ==
  ASSUME NEW ch, NEW req \in ModeReqs, NEW letters \in SUBSET req.on,
         NEW key \in KeyArgs(req), NEW lim \in LimitArgs(req), Sound(ch)
  PROVE  LET new == WithArgs(ch, letters, key, lim) IN
           /\ Sound(new)
           /\ new.users = ch.users /\ new.oper = ch.oper /\ new.mode = ch.mode
           /\ "l" \in letters => new.limit # Unset
<1>1. key \in Key
  BY ChannelConstants DEF KeyArgs
<1>2. "l" \in letters => lim \in Limit /\ lim # Unset
  BY ChannelConstants DEF LimitArgs
<1>. QED
  BY <1>1, <1>2 DEF WithArgs, Sound, ChannelState

LEMMA WithFlagsSound ==
  ASSUME NEW ch, NEW req \in ModeReqs, Sound(ch),
         "l" \in req.on => ch.limit # Unset
  PROVE  LET new == WithFlags(ch, req.on, req.off) IN
           Sound(new) /\ Members(new) = Members(ch) /\ new.oper = ch.oper
<1>1. req.on \subseteq Letters
  BY ChannelServerConstants
<1>2. (ch.mode \cup (req.on \ {"o"})) \ req.off \in SUBSET Flags
  BY <1>1 DEF Sound, ChannelState, Letters
<1>3. (IF "i" \in req.off THEN {} ELSE ch.invite) \in SUBSET Fd
  BY DEF Sound, ChannelState
<1>. QED
  BY <1>2, <1>3 DEF WithFlags, Sound, ChannelState, Members
-----------------------------------------------------------------------------
(* The two ways commands change channels: one sound channel takes the      *)
(* place of another, or a client leaves some of the channels it lists.     *)

LEMMA OneChannelStep ==
  ASSUME StructInv, NEW c \in Chan, NEW new, Sound(new),
         chan' = [chan EXCEPT ![c] = new],
         channels' = channels \cup {c},
         status' \in {"running", "crashed"},
         clients' = clients, nick' = nick,
         joined' \in [Fd -> Seq(Chan)],
         \A f \in Fd : IsInjective(joined'[f]),
         \A f \in Fd \ clients : joined'[f] = <<>>,
         \A f \in Fd : \A d \in Listed(joined'[f]) :
           (d # c /\ d \in Listed(joined[f])) \/ (d = c /\ f \in Members(new))
  PROVE  StructInv'
<1>1. TypeOK'
  BY DEF StructInv, TypeOK, Sound
<1>2. chan'[c] = new /\ \A d \in Chan \ {c} : chan'[d] = chan[d]
  BY DEF StructInv, TypeOK
<1>3. \A d \in Chan : IF d \in channels' THEN Sound(chan'[d]) ELSE chan'[d] = NewChannel
  BY <1>2 DEF StructInv
<1>4. ASSUME NEW f \in Fd, NEW d \in Listed(joined'[f])
      PROVE  d \in channels' /\ f \in Members(chan'[d])
  <2>1. CASE d = c /\ f \in Members(new)
    BY <2>1, <1>2
  <2>2. CASE d # c /\ d \in Listed(joined[f])
    <3>1. d \in channels /\ f \in Members(chan[d])
      BY <2>2 DEF StructInv, NoDanglingChannel
    <3>. QED  BY <2>2, <3>1, <1>2 DEF StructInv, TypeOK
  <2>. QED  BY <1>4, <2>1, <2>2
<1>. QED
  BY <1>1, <1>3, <1>4 DEF StructInv, NoDanglingChannel

LEMMA LeaveAllStep ==
  ASSUME StructInv, NEW f \in Fd, NEW cs \in SUBSET Listed(joined[f]),
         LeaveAll(f, cs),
         status' \in {"running", "crashed"},
         clients' \in {clients, clients \ {f}},
         nick' \in [Fd -> Nick \cup {NoNick}],
         NEW list \in Seq(Chan),
         joined' = [joined EXCEPT ![f] = list],
         IsInjective(list),
         Listed(list) \subseteq Listed(joined[f]) \ cs,
         f \notin clients' => list = <<>>
  PROVE  /\ StructInv'
         /\ \A c \in Chan : Members(chan'[c]) =
              IF c \in cs THEN Members(chan[c]) \ {f} ELSE Members(chan[c])
<1>1. cs \subseteq channels /\ cs \subseteq Chan
  BY DEF StructInv, NoDanglingChannel, TypeOK
<1>2. ASSUME NEW c \in Chan
      PROVE  /\ IF c \in channels' THEN Sound(chan'[c]) ELSE chan'[c] = NewChannel
             /\ chan'[c] \in ChannelState
             /\ Members(chan'[c]) = IF c \in cs THEN Members(chan[c]) \ {f} ELSE Members(chan[c])
  <2>1. CASE c \notin cs
    <3>1. chan'[c] = chan[c] /\ (c \in channels' <=> c \in channels)
      BY <2>1 DEF LeaveAll
    <3>. QED  BY <2>1, <3>1 DEF StructInv, TypeOK
  <2>2. CASE c \in cs /\ Vacated(chan[c], f)
    <3>1. chan'[c] = NewChannel /\ c \notin channels'
      BY <2>2 DEF LeaveAll
    <3>2. Members(chan[c]) \ {f} = {}
      BY <2>2 DEF Vacated, Members
    <3>. QED  BY <2>2, <3>1, <3>2, NewChannelType
  <2>3. CASE c \in cs /\ ~ Vacated(chan[c], f)
    <3>1. chan'[c] = RemoveUser(chan[c], f) /\ c \in channels'
      BY <2>3, <1>1 DEF LeaveAll
    <3>2. Sound(chan[c])
      BY <2>3, <1>1 DEF StructInv
    <3>. QED  BY <2>3, <3>1, <3>2, RemoveUserSound DEF Sound
  <2>. QED  BY <2>1, <2>2, <2>3
<1>3. TypeOK'
  <2>1. chan' \in [Chan -> ChannelState]
    BY <1>2 DEF LeaveAll
  <2>2. channels' \subseteq Chan
    BY DEF LeaveAll, StructInv, TypeOK
  <2>. QED  BY <2>1, <2>2 DEF StructInv, TypeOK
<1>4. joined'[f] = list /\ \A g \in Fd \ {f} : joined'[g] = joined[g]
  BY DEF StructInv, TypeOK
<1>5. ASSUME NEW g \in Fd, NEW d \in Listed(joined'[g])
      PROVE  d \in channels' /\ g \in Members(chan'[d])
  <2>1. d \in Listed(joined[g]) /\ (d \in cs => g # f)
    BY <1>4, <1>5
  <2>2. d \in channels /\ d \in Chan /\ g \in Members(chan[d])
    BY <2>1 DEF StructInv, NoDanglingChannel, TypeOK
  <2>3. g \in Members(chan'[d])
    BY <1>2, <2>1, <2>2
  <2>4. d \in channels'
    BY <1>2, <2>2, <2>3, NewChannelType
  <2>. QED  BY <2>3, <2>4
<1>6. \A g \in Fd : IsInjective(joined'[g])
  BY <1>4 DEF StructInv, NoDanglingChannel
<1>7. \A g \in Fd \ clients' : joined'[g] = <<>>
  BY <1>4 DEF StructInv
<1>. QED
  BY <1>2, <1>3, <1>5, <1>6, <1>7 DEF StructInv, NoDanglingChannel
-----------------------------------------------------------------------------
(* The initial state, and every action, one lemma each.                    *)

LEMMA EmptyList ==
  <<>> \in Seq(Chan) /\ Listed(<<>>) = {} /\ IsInjective(<<>>)
BY DEF Listed, ToSet, IsInjective

LEMMA InitStruct == Init => StructInv
<1>. SUFFICES ASSUME Init PROVE StructInv
  OBVIOUS
<1>1. TypeOK
  BY NewChannelType, EmptyList DEF Init, TypeOK
<1>2. NoDanglingChannel
  BY EmptyList DEF Init, NoDanglingChannel
<1>. QED
  BY <1>1, <1>2 DEF Init, StructInv

(* The conditions of OneChannelStep on lists, where lists do not change. *)
LEMMA ListsUnchanged ==
  ASSUME StructInv, NEW c \in channels, NEW new, Members(new) = Members(chan[c]),
         joined' = joined
  PROVE  /\ joined' \in [Fd -> Seq(Chan)]
         /\ \A f \in Fd : IsInjective(joined'[f])
         /\ \A f \in Fd \ clients : joined'[f] = <<>>
         /\ \A f \in Fd : \A d \in Listed(joined'[f]) :
              (d # c /\ d \in Listed(joined[f])) \/ (d = c /\ f \in Members(new))
BY DEF StructInv, TypeOK, NoDanglingChannel

LEMMA AcceptStruct ==
  ASSUME StructInv, NEW f \in Fd, Accept(f)
  PROVE  StructInv'
BY DEF StructInv, TypeOK, NoDanglingChannel, Accept

LEMMA NickStruct ==
  ASSUME StructInv, NEW f \in Fd, NickCommand(f)
  PROVE  StructInv'
BY DEF StructInv, TypeOK, NoDanglingChannel, NickCommand

LEMMA JoinStruct ==
  ASSUME StructInv, NEW f \in Fd, JoinCommand(f)
  PROVE  /\ StructInv'
         /\ \E c \in Chan :
              /\ \A d \in Chan : Members(chan'[d]) =
                   IF d = c THEN Members(chan[d]) \cup {f} ELSE Members(chan[d])
              /\ Listed(joined'[f]) = Listed(joined[f]) \cup {c}
<1>1. PICK c \in Chan, key \in Key :
        /\ f \in clients /\ f \notin Members(chan[c])
        /\ chan' = [chan EXCEPT ![c] = AddUser(chan[c], f)]
        /\ channels' = channels \cup {c}
        /\ joined' = [joined EXCEPT ![f] = JoinList(joined[f], c)]
        /\ UNCHANGED <<status, clients, nick>>
  BY DEF JoinCommand, Served, Admits
<1>. DEFINE new == AddUser(chan[c], f)
            list == JoinList(joined[f], c)
<1>2. Sound(new) /\ Members(new) = Members(chan[c]) \cup {f}
  <2>1. chan[c] = NewChannel \/ Sound(chan[c])
    BY DEF StructInv
  <2>. QED  BY <1>1, <2>1, AddUserSound
<1>3. joined[f] \in Seq(Chan)
  BY DEF StructInv, TypeOK
<1>4. c \notin Listed(joined[f])
  BY <1>1 DEF StructInv, NoDanglingChannel
<1>5. /\ list \in Seq(Chan)
      /\ Listed(list) = Listed(joined[f]) \cup {c}
      /\ IsInjective(list)
  BY <1>3, <1>4, JoinListEffect DEF StructInv, NoDanglingChannel
<1>. HIDE DEF new, list
<1>6. joined'[f] = list /\ \A g \in Fd \ {f} : joined'[g] = joined[g]
  BY <1>1 DEF StructInv, TypeOK, list
<1>7. joined' \in [Fd -> Seq(Chan)]
  BY <1>1, <1>5 DEF StructInv, TypeOK, list
<1>8. /\ \A g \in Fd : IsInjective(joined'[g])
      /\ \A g \in Fd \ clients : joined'[g] = <<>>
  BY <1>1, <1>5, <1>6 DEF StructInv, NoDanglingChannel
<1>9. ASSUME NEW g \in Fd, NEW d \in Listed(joined'[g])
      PROVE  (d # c /\ d \in Listed(joined[g])) \/ (d = c /\ g \in Members(new))
  <2>1. CASE g = f
    BY <1>2, <1>5, <1>6, <1>9, <2>1
  <2>2. CASE g # f
    <3>1. d \in Listed(joined[g]) /\ g \in Members(chan[d])
      BY <1>6, <1>9, <2>2 DEF StructInv, NoDanglingChannel
    <3>. QED  BY <1>2, <3>1
  <2>. QED  BY <2>1, <2>2
<1>10. status' \in {"running", "crashed"} /\ clients' = clients /\ nick' = nick
  BY <1>1 DEF StructInv, TypeOK
<1>11. StructInv'
  BY <1>1, <1>2, <1>7, <1>8, <1>9, <1>10, OneChannelStep DEF new
<1>12. \A d \in Chan : Members(chan'[d]) =
         IF d = c THEN Members(chan[d]) \cup {f} ELSE Members(chan[d])
  BY <1>1, <1>2 DEF StructInv, TypeOK, new
<1>. QED
  BY <1>5, <1>6, <1>11, <1>12

LEMMA PartStruct ==
  ASSUME StructInv, NEW f \in Fd, PartCommand(f)
  PROVE  /\ StructInv'
         /\ \E c \in Chan :
              /\ \A d \in Chan : Members(chan'[d]) =
                   IF d = c THEN Members(chan[d]) \ {f} ELSE Members(chan[d])
              /\ Listed(joined'[f]) = Listed(joined[f]) \ {c}
<1>1. PICK c \in Chan :
        /\ f \in clients /\ c \in Listed(joined[f])
        /\ LeaveAll(f, {c})
        /\ joined' = [joined EXCEPT ![f] = ExitChannel(joined[f], c)]
        /\ UNCHANGED <<status, clients, nick>>
  BY DEF PartCommand, Served, OnChannel
<1>. DEFINE list == ExitChannel(joined[f], c)
<1>2. joined[f] \in Seq(Chan) /\ IsInjective(joined[f])
  BY DEF StructInv, TypeOK, NoDanglingChannel
<1>3. list \in Seq(Chan) /\ IsInjective(list) /\ Listed(list) = Listed(joined[f]) \ {c}
  BY <1>2, ExitChannelEffect
<1>. HIDE DEF list
<1>4. /\ status' \in {"running", "crashed"}
      /\ clients' \in {clients, clients \ {f}}
      /\ nick' \in [Fd -> Nick \cup {NoNick}]
      /\ f \in clients'
  BY <1>1 DEF StructInv, TypeOK
<1>5. {c} \in SUBSET Listed(joined[f]) /\ joined' = [joined EXCEPT ![f] = list]
  BY <1>1 DEF list
<1>6. /\ StructInv'
      /\ \A d \in Chan : Members(chan'[d]) =
           IF d \in {c} THEN Members(chan[d]) \ {f} ELSE Members(chan[d])
  BY <1>1, <1>3, <1>4, <1>5, LeaveAllStep
<1>7. joined'[f] = list
  BY <1>5 DEF StructInv, TypeOK
<1>. QED
  BY <1>3, <1>6, <1>7

LEMMA KickStruct ==
  ASSUME StructInv, NEW f \in Fd, KickCommand(f)
  PROVE  /\ StructInv'
         /\ \E c \in channels, g \in Fd :
              /\ g \in Members(chan[c])
              /\ \A d \in Chan : Members(chan'[d]) =
                   IF d = c THEN Members(chan[d]) \ {g} ELSE Members(chan[d])
              /\ \A h \in Fd \ {g} : joined'[h] = joined[h]
              /\ OnChannel(g, c) => /\ Listed(joined'[g]) = Listed(joined[g]) \ {c}
                                    /\ status' = status
<1>1. PICK c \in channels, g \in clients :
        /\ g \in chan[c].users
        /\ chan' = [chan EXCEPT ![c] = KickUser(chan[c], g)]
        /\ \/ /\ OnChannel(g, c)
              /\ joined' = [joined EXCEPT ![g] = ExitChannel(joined[g], c)]
              /\ status' = status
           \/ /\ ~ OnChannel(g, c)
              /\ \E list \in StrayExits(joined[g]) : joined' = [joined EXCEPT ![g] = list]
              /\ status' \in {"running", "crashed"}
        /\ clients' = clients /\ nick' = nick /\ channels' = channels
  BY DEF KickCommand, Designated
<1>. DEFINE new == KickUser(chan[c], g)
<1>2. c \in Chan /\ g \in Fd /\ Sound(chan[c])
  BY <1>1 DEF StructInv, TypeOK, Sound, ChannelState
<1>3. Sound(new) /\ Members(new) = Members(chan[c]) \ {g}
  BY <1>1, <1>2, KickUserSound
<1>. HIDE DEF new
<1>4. joined[g] \in Seq(Chan) /\ IsInjective(joined[g])
  BY <1>2 DEF StructInv, TypeOK, NoDanglingChannel
<1>5. PICK list :
        /\ joined' = [joined EXCEPT ![g] = list]
        /\ list \in Seq(Chan) /\ IsInjective(list)
        /\ Listed(list) \subseteq Listed(joined[g]) \ {c}
        /\ OnChannel(g, c) => Listed(list) = Listed(joined[g]) \ {c} /\ status' = status
  <2>1. CASE OnChannel(g, c)
    <3>1. /\ ExitChannel(joined[g], c) \in Seq(Chan)
          /\ IsInjective(ExitChannel(joined[g], c))
          /\ Listed(ExitChannel(joined[g], c)) = Listed(joined[g]) \ {c}
      BY <1>4, ExitChannelEffect
    <3>2. joined' = [joined EXCEPT ![g] = ExitChannel(joined[g], c)] /\ status' = status
      BY <1>1, <2>1
    <3>. QED  BY <3>1, <3>2
  <2>2. CASE ~ OnChannel(g, c)
    <3>1. PICK list \in StrayExits(joined[g]) : joined' = [joined EXCEPT ![g] = list]
      BY <1>1, <2>2
    <3>2. /\ list \in Seq(Chan) /\ IsInjective(list)
          /\ Listed(list) \subseteq Listed(joined[g])
      BY <1>4, StrayExitsEffect
    <3>. QED  BY <2>2, <3>1, <3>2 DEF OnChannel
  <2>. QED  BY <2>1, <2>2
<1>6. joined'[g] = list /\ \A h \in Fd \ {g} : joined'[h] = joined[h]
  BY <1>2, <1>5 DEF StructInv, TypeOK
<1>7. /\ joined' \in [Fd -> Seq(Chan)]
      /\ \A h \in Fd : IsInjective(joined'[h])
      /\ \A h \in Fd \ clients : joined'[h] = <<>>
  BY <1>1, <1>5, <1>6 DEF StructInv, TypeOK, NoDanglingChannel
<1>8. ASSUME NEW h \in Fd, NEW d \in Listed(joined'[h])
      PROVE  (d # c /\ d \in Listed(joined[h])) \/ (d = c /\ h \in Members(new))
  <2>1. CASE h = g
    BY <1>5, <1>6, <1>8, <2>1
  <2>2. CASE h # g
    <3>1. d \in Listed(joined[h]) /\ h \in Members(chan[d])
      BY <1>6, <1>8, <2>2 DEF StructInv, NoDanglingChannel
    <3>. QED  BY <1>3, <2>2, <3>1
  <2>. QED  BY <2>1, <2>2
<1>9. status' \in {"running", "crashed"} /\ channels' = channels \cup {c}
  BY <1>1 DEF StructInv, TypeOK
<1>10. StructInv'
  BY <1>1, <1>2, <1>3, <1>7, <1>8, <1>9, OneChannelStep DEF new
<1>11. \A d \in Chan : Members(chan'[d]) =
         IF d = c THEN Members(chan[d]) \ {g} ELSE Members(chan[d])
  BY <1>1, <1>2, <1>3 DEF StructInv, TypeOK, new
<1>12. g \in Members(chan[c])
  BY <1>1 DEF Members
<1>. QED
  BY <1>2, <1>5, <1>6, <1>10, <1>11, <1>12

(* INVITE, TOPIC and MODE replace one channel by a sound one with the same *)
(* members.                                                                *)
LEMMA SameMembersStep ==
  ASSUME StructInv, NEW c \in channels, NEW new,
         Sound(new), Members(new) = Members(chan[c]),
         chan' = [chan EXCEPT ![c] = new],
         UNCHANGED <<status, clients, nick, joined, channels>>
  PROVE  StructInv' /\ \A d \in Chan : Members(chan'[d]) = Members(chan[d])
<1>1. c \in Chan /\ status' \in {"running", "crashed"} /\ channels' = channels \cup {c}
  BY DEF StructInv, TypeOK
<1>2. StructInv'
  BY <1>1, ListsUnchanged, OneChannelStep
<1>3. \A d \in Chan : Members(chan'[d]) = Members(chan[d])
  BY <1>1 DEF StructInv, TypeOK
<1>. QED
  BY <1>2, <1>3

LEMMA InviteStruct ==
  ASSUME StructInv, NEW f \in Fd, InviteCommand(f)
  PROVE  StructInv' /\ \A d \in Chan : Members(chan'[d]) = Members(chan[d])
<1>1. PICK c \in channels, g \in Fd :
        /\ chan' = [chan EXCEPT ![c] = InviteUser(chan[c], g)]
        /\ UNCHANGED <<status, clients, nick, joined, channels>>
  BY DEF InviteCommand, StructInv, TypeOK
<1>2. Sound(chan[c])
  BY DEF StructInv, TypeOK
<1>. QED
  BY <1>1, <1>2, InviteUserSound, SameMembersStep

LEMMA TopicStruct ==
  ASSUME StructInv, NEW f \in Fd, TopicCommand(f)
  PROVE  StructInv' /\ \A d \in Chan : Members(chan'[d]) = Members(chan[d])
<1>1. PICK c \in channels, topic \in Topic :
        /\ chan' = [chan EXCEPT ![c] = SetTopic(chan[c], topic)]
        /\ UNCHANGED <<status, clients, nick, joined, channels>>
  BY DEF TopicCommand
<1>2. Sound(chan[c])
  BY DEF StructInv, TypeOK
<1>. QED
  BY <1>1, <1>2, SetTopicSound, SameMembersStep

(* A mode string that runs to its end. *)
LEMMA ModeStruct ==
  ASSUME StructInv, NEW f \in Fd, ModeCommand(f)
  PROVE  /\ StructInv' /\ \A d \in Chan : Members(chan'[d]) = Members(chan[d])
         /\ \A d \in Chan : chan[d].oper \subseteq chan'[d].oper
<1>1. PICK c \in Chan, req \in ModeReqs, key \in Key, lim \in Limit \cup {Unset} :
        /\ key \in KeyArgs(req) /\ lim \in LimitArgs(req)
        /\ MayOperate(f, c)
        /\ LET ch == WithArgs(chan[c], req.on, key, lim) IN
             \/ chan' = [chan EXCEPT ![c] = WithFlags(ch, req.on, req.off)]
             \/ \E g \in Designated(ch.users) :
                  chan' = [chan EXCEPT ![c] =
                             WithFlags(MakeOperator(ch, g), req.on, req.off)]
        /\ UNCHANGED <<status, clients, nick, joined, channels>>
  <2>1. \A req \in ModeReqs : KeyArgs(req) \subseteq Key /\ LimitArgs(req) \subseteq Limit \cup {Unset}
    BY ChannelConstants DEF KeyArgs, LimitArgs
  <2>. QED  BY <2>1 DEF ModeCommand
<1>. DEFINE ch == WithArgs(chan[c], req.on, key, lim)
<1>2. c \in channels /\ Sound(chan[c])
  BY <1>1 DEF MayOperate, OnChannel, StructInv, NoDanglingChannel
<1>3. /\ Sound(ch) /\ Members(ch) = Members(chan[c]) /\ ch.oper = chan[c].oper
      /\ ("l" \in req.on => ch.limit # Unset)
  BY <1>1, <1>2, WithArgsSound DEF Members
<1>. HIDE DEF ch
<1>4. PICK mid : /\ Sound(mid) /\ Members(mid) = Members(chan[c])
                 /\ chan[c].oper \subseteq mid.oper
                 /\ "l" \in req.on => mid.limit # Unset
                 /\ chan' = [chan EXCEPT ![c] = WithFlags(mid, req.on, req.off)]
  <2>1. CASE chan' = [chan EXCEPT ![c] = WithFlags(ch, req.on, req.off)]
    BY <1>3, <2>1
  <2>2. ASSUME NEW g \in Designated(ch.users),
               chan' = [chan EXCEPT ![c] = WithFlags(MakeOperator(ch, g), req.on, req.off)]
        PROVE  \E mid : /\ Sound(mid) /\ Members(mid) = Members(chan[c])
                        /\ chan[c].oper \subseteq mid.oper
                        /\ "l" \in req.on => mid.limit # Unset
                        /\ chan' = [chan EXCEPT ![c] = WithFlags(mid, req.on, req.off)]
    <3>1. g \in ch.users
      BY DEF Designated
    <3>2. /\ Sound(MakeOperator(ch, g)) /\ Members(MakeOperator(ch, g)) = Members(ch)
          /\ ch.oper \subseteq MakeOperator(ch, g).oper
          /\ MakeOperator(ch, g).limit = ch.limit
      BY <1>3, <3>1, MakeOperatorSound DEF MakeOperator, Sound, ChannelState
    <3>. QED  BY <1>3, <2>2, <3>2
  <2>. QED  BY <1>1, <2>1, <2>2 DEF ch
<1>5. Sound(WithFlags(mid, req.on, req.off))
      /\ Members(WithFlags(mid, req.on, req.off)) = Members(mid)
      /\ WithFlags(mid, req.on, req.off).oper = mid.oper
  BY <1>4, WithFlagsSound
<1>6. \A d \in Chan : chan[d].oper \subseteq chan'[d].oper
  BY <1>2, <1>4, <1>5 DEF StructInv, TypeOK
<1>. QED
  BY <1>1, <1>2, <1>4, <1>5, <1>6, SameMembersStep

(* A mode string abandoned half way. *)
LEMMA ModeThrowsStruct ==
  ASSUME StructInv, NEW f \in Fd, ModeCommandThrows(f)
  PROVE  /\ StructInv' /\ \A d \in Chan : Members(chan'[d]) = Members(chan[d])
         /\ \A d \in Chan : chan[d].oper \subseteq chan'[d].oper
<1>1. PICK c \in Chan, req \in ModeReqs, key \in Key, lim \in Limit \cup {Unset} :
        /\ key \in KeyArgs(req) /\ lim \in LimitArgs(req)
        /\ MayOperate(f, c)
        /\ LET ch == WithArgs(chan[c], req.early, key, lim) IN
             \E after \in {ch} \cup { MakeOperator(ch, g) : g \in Designated(ch.users) } :
               chan' = [chan EXCEPT ![c] = after]
        /\ UNCHANGED <<status, clients, nick, joined, channels>>
  <2>1. \A req \in ModeReqs : KeyArgs(req) \subseteq Key /\ LimitArgs(req) \subseteq Limit \cup {Unset}
    BY ChannelConstants DEF KeyArgs, LimitArgs
  <2>. QED  BY <2>1 DEF ModeCommandThrows
<1>. DEFINE ch == WithArgs(chan[c], req.early, key, lim)
<1>2. c \in channels /\ Sound(chan[c])
  BY <1>1 DEF MayOperate, OnChannel, StructInv, NoDanglingChannel
<1>3. Sound(ch) /\ Members(ch) = Members(chan[c]) /\ ch.oper = chan[c].oper
  <2>1. req.early \in SUBSET req.on
    BY ChannelServerConstants
  <2>. QED  BY <1>1, <1>2, <2>1, WithArgsSound DEF Members
<1>. HIDE DEF ch
<1>4. PICK after \in {ch} \cup { MakeOperator(ch, g) : g \in Designated(ch.users) } :
        chan' = [chan EXCEPT ![c] = after]
  BY <1>1 DEF ch
<1>5. Sound(after) /\ Members(after) = Members(chan[c]) /\ chan[c].oper \subseteq after.oper
  <2>1. CASE after = ch
    BY <1>3, <2>1
  <2>2. ASSUME NEW g \in Designated(ch.users), after = MakeOperator(ch, g)
        PROVE  Sound(after) /\ Members(after) = Members(chan[c]) /\ chan[c].oper \subseteq after.oper
    <3>1. g \in ch.users
      BY DEF Designated
    <3>. QED  BY <1>3, <2>2, <3>1, MakeOperatorSound
  <2>. QED  BY <2>1, <2>2
<1>6. \A d \in Chan : chan[d].oper \subseteq chan'[d].oper
  BY <1>2, <1>4, <1>5 DEF StructInv, TypeOK
<1>. QED
  BY <1>1, <1>2, <1>4, <1>5, <1>6, SameMembersStep

(* QUIT, whatever the walk skipped. *)
LEMMA QuitStruct ==
  ASSUME StructInv, NEW f \in Fd, QuitCommand(f)
  PROVE  /\ StructInv'
         /\ \A c \in Chan : Members(chan'[c]) =
              IF c \in QuitVisited(joined[f]) THEN Members(chan[c]) \ {f}
                                              ELSE Members(chan[c])
<1>1. /\ LeaveAll(f, QuitVisited(joined[f]))
      /\ clients' = clients \ {f}
      /\ nick' = [nick EXCEPT ![f] = NoNick]
      /\ joined' = [joined EXCEPT ![f] = <<>>]
      /\ status' \in {"running", "crashed"}
  BY DEF QuitCommand, RemoveClient
<1>2. nick' \in [Fd -> Nick \cup {NoNick}]
  BY <1>1 DEF StructInv, TypeOK
<1>3. QuitVisited(joined[f]) \in SUBSET Listed(joined[f])
  BY QuitVisitsListed
<1>. QED
  BY <1>1, <1>2, <1>3, EmptyList, LeaveAllStep

(* A rejected client is forgotten, but not by its channels. *)
LEMMA RejectStruct ==
  ASSUME StructInv, NEW f \in Fd, Reject(f)
  PROVE  StructInv'
<1>1. /\ clients' = clients \ {f}
      /\ nick' = [nick EXCEPT ![f] = NoNick]
      /\ joined' = [joined EXCEPT ![f] = <<>>]
      /\ status' = status /\ channels' = channels /\ chan' = chan
  BY DEF Reject, RemoveClient
<1>2. TypeOK'
  BY <1>1, EmptyList DEF StructInv, TypeOK
<1>3. joined'[f] = <<>> /\ \A g \in Fd \ {f} : joined'[g] = joined[g]
  BY <1>1 DEF StructInv, TypeOK
<1>4. NoDanglingChannel'
  BY <1>1, <1>3, EmptyList DEF StructInv, NoDanglingChannel
<1>. QED
  BY <1>1, <1>2, <1>3, <1>4 DEF StructInv

LEMMA WhoStruct ==
  ASSUME StructInv, NEW f \in Fd, WhoCommandBare(f)
  PROVE  StructInv'
BY DEF StructInv, TypeOK, NoDanglingChannel, WhoCommandBare
-----------------------------------------------------------------------------
(* The server as it is: every client, every command.                       *)

LEMMA NextStruct == StructInv /\ [Next]_vars => StructInv'
<1>. SUFFICES ASSUME StructInv, [Next]_vars PROVE StructInv'
  OBVIOUS
<1>1. ASSUME NEW f \in Fd, Accept(f) PROVE StructInv'
  BY <1>1, AcceptStruct
<1>2. ASSUME NEW f \in Fd, NickCommand(f) PROVE StructInv'
  BY <1>2, NickStruct
<1>3. ASSUME NEW f \in Fd, JoinCommand(f) PROVE StructInv'
  BY <1>3, JoinStruct
<1>4. ASSUME NEW f \in Fd, PartCommand(f) PROVE StructInv'
  BY <1>4, PartStruct
<1>5. ASSUME NEW f \in Fd, KickCommand(f) PROVE StructInv'
  BY <1>5, KickStruct
<1>6. ASSUME NEW f \in Fd, InviteCommand(f) PROVE StructInv'
  BY <1>6, InviteStruct
<1>7. ASSUME NEW f \in Fd, TopicCommand(f) PROVE StructInv'
  BY <1>7, TopicStruct
<1>8. ASSUME NEW f \in Fd, ModeCommand(f) PROVE StructInv'
  BY <1>8, ModeStruct
<1>9. ASSUME NEW f \in Fd, ModeCommandThrows(f) PROVE StructInv'
  BY <1>9, ModeThrowsStruct
<1>10. ASSUME NEW f \in Fd, QuitCommand(f) PROVE StructInv'
  BY <1>10, QuitStruct
<1>11. ASSUME NEW f \in Fd, Reject(f) PROVE StructInv'
  BY <1>11, RejectStruct
<1>12. ASSUME NEW f \in Fd, WhoCommandBare(f) PROVE StructInv'
  BY <1>12, WhoStruct
<1>13. CASE UNCHANGED vars
  BY <1>13 DEF vars, StructInv, TypeOK, NoDanglingChannel
<1>. QED
  BY <1>1, <1>2, <1>3, <1>4, <1>5, <1>6, <1>7, <1>8, <1>9, <1>10, <1>11,
     <1>12, <1>13 DEF Next, CommonNext

(* The inductive invariant of everything clients can do to the rooms. *)
THEOREM StructInvHolds == Spec => []StructInv
<1>1. Init => StructInv
  BY InitStruct
<1>2. StructInv /\ [Next]_vars => StructInv'
  BY NextStruct
<1>. QED
  BY <1>1, <1>2, PTL DEF Spec

(* Typing: the variables stay within the program's types. *)
THEOREM TypeCorrect == Spec => []TypeOK
<1>1. StructInv => TypeOK
  BY DEF StructInv
<1>. QED
  BY <1>1, StructInvHolds, PTL

(* No command sequence, disconnection or half-applied mode string leaves a *)
(* channel on the map without an operator, or one descriptor in both sets. *)
THEOREM OperatorsPresent == Spec => []OperatorPresent
<1>1. NewChannel.users \cap NewChannel.oper = {}
  BY DEF NewChannel
<1>2. StructInv => OperatorPresent
  BY <1>1 DEF StructInv, OperatorPresent, Sound
<1>. QED
  BY <1>2, StructInvHolds, PTL

(* No client ever lists a channel that was destroyed, so User::getChannel  *)
(* and the handlers that use its result read only live memory.             *)
THEOREM NoDanglingPointer == Spec => []NoDanglingChannel
<1>1. StructInv => NoDanglingChannel
  BY DEF StructInv
<1>. QED
  BY <1>1, StructInvHolds, PTL

(* Channel::addUser never compares with an indeterminate _limit. *)
THEOREM LimitIsDefined == Spec => []LimitDefined
<1>1. StructInv => LimitDefined
  BY DEF StructInv, LimitDefined, Sound, TypeOK
<1>. QED
  BY <1>1, StructInvHolds, PTL
-----------------------------------------------------------------------------
(* Nicknames.  A new client starts without one because nobody who is not   *)
(* a client has one: removeClient destroys the User with the Client.       *)
NickInv ==
  /\ nick \in [Fd -> Nick \cup {NoNick}] /\ clients \subseteq Fd
  /\ NickUnique
  /\ \A f \in Fd \ clients : nick[f] = NoNick

(* Only three kinds of command touch nicknames or clients. *)
LEMMA NickStep == NickInv /\ [Next]_vars => NickInv'
<1>. SUFFICES ASSUME NickInv, [Next]_vars PROVE NickInv'
  OBVIOUS
<1>. USE DEF NickInv, NickUnique
<1>1. ASSUME NEW f \in Fd, Accept(f) PROVE NickInv'
  BY <1>1 DEF Accept
<1>2. ASSUME NEW f \in Fd, NickCommand(f) PROVE NickInv'
  BY <1>2 DEF NickCommand, NickFree, Served
<1>3. ASSUME NEW f \in Fd, RemoveClient(f) PROVE NickInv'
  BY <1>3 DEF RemoveClient
<1>4. CASE UNCHANGED <<clients, nick>>
  BY <1>4
<1>5. ASSUME NEW f \in Fd, ~ Accept(f), ~ NickCommand(f), ~ RemoveClient(f),
             \/ JoinCommand(f) \/ PartCommand(f) \/ KickCommand(f) \/ InviteCommand(f)
             \/ TopicCommand(f) \/ ModeCommand(f) \/ ModeCommandThrows(f)
             \/ QuitCommand(f) \/ Reject(f) \/ WhoCommandBare(f)
      PROVE  UNCHANGED <<clients, nick>>
  BY <1>5 DEF JoinCommand, PartCommand, KickCommand, InviteCommand, TopicCommand,
              ModeCommand, ModeCommandThrows, QuitCommand, Reject, WhoCommandBare
<1>6. CASE UNCHANGED vars
  BY <1>6 DEF vars
<1>. QED
  BY <1>1, <1>2, <1>3, <1>4, <1>5, <1>6 DEF Next, CommonNext

(* No two clients ever have one nickname, however NICK commands, quits,    *)
(* rejections and reused descriptors alternate.                            *)
THEOREM NicknamesUnique == Spec => []NickUnique
<1>1. Init => NickInv
  BY DEF Init, NickInv, NickUnique
<1>2. NickInv /\ [Next]_vars => NickInv'
  BY NickStep
<1>3. NickInv => NickUnique
  BY DEF NickInv
<1>. QED
  BY <1>1, <1>2, <1>3, PTL DEF Spec
-----------------------------------------------------------------------------
(* Office.  Most commands leave the operators of every channel in office,  *)
(* so it remains to look at those that take somebody out of a channel.     *)
AllStay == \A c \in channels : chan[c].oper \subseteq chan'[c].oper

Stay ==
  \A f \in clients \cap clients', c \in channels :
    f \in chan[c].oper /\ c \in Listed(joined'[f]) => f \in chan'[c].oper

LEMMA OneChannelStays ==
  ASSUME StructInv, NEW c \in Chan, NEW new, chan' = [chan EXCEPT ![c] = new],
         c \in channels => chan[c].oper \subseteq new.oper
  PROVE  AllStay
BY DEF AllStay, StructInv, TypeOK

(* Of the channels f leaves it takes no other operator along. *)
LEMMA LeaveAllStays ==
  ASSUME StructInv, NEW f \in Fd, NEW cs, LeaveAll(f, cs)
  PROVE  \A c \in channels : chan[c].oper \ {f} \subseteq chan'[c].oper
<1>. SUFFICES ASSUME NEW c \in channels PROVE chan[c].oper \ {f} \subseteq chan'[c].oper
  OBVIOUS
<1>1. c \in Chan /\ chan[c] \in ChannelState
  BY DEF StructInv, TypeOK
<1>2. CASE c \notin cs \/ Vacated(chan[c], f)
  BY <1>1, <1>2 DEF LeaveAll, Vacated
<1>3. CASE c \in cs /\ ~ Vacated(chan[c], f)
  <2>1. chan'[c] = RemoveUser(chan[c], f)
    BY <1>1, <1>3 DEF LeaveAll
  <2>2. chan[c].oper \ {f} \subseteq RemoveUser(chan[c], f).oper
    BY <1>1 DEF RemoveUser, ChannelState
  <2>. QED  BY <2>1, <2>2
<1>. QED
  BY <1>2, <1>3

(* JOIN of a channel that exists adds a plain user. *)
LEMMA JoinStays == ASSUME StructInv, NEW f \in Fd, JoinCommand(f) PROVE AllStay
<1>1. PICK c \in Chan : chan' = [chan EXCEPT ![c] = AddUser(chan[c], f)]
  BY DEF JoinCommand
<1>2. c \in channels => chan[c].oper \subseteq AddUser(chan[c], f).oper
  BY DEF StructInv, Sound, ChannelState, AddUser, IsEmpty
<1>. QED
  BY <1>1, <1>2, OneChannelStays

(* KICK removes plain users only. *)
LEMMA KickStays == ASSUME StructInv, NEW f \in Fd, KickCommand(f) PROVE AllStay
<1>1. PICK c \in channels, g \in clients : chan' = [chan EXCEPT ![c] = KickUser(chan[c], g)]
  BY DEF KickCommand, Designated
<1>2. c \in Chan /\ chan[c] \in ChannelState
  BY DEF StructInv, TypeOK
<1>3. chan[c].oper \subseteq KickUser(chan[c], g).oper
  BY <1>2 DEF KickUser, ChannelState
<1>. QED
  BY <1>1, <1>2, <1>3, OneChannelStays

(* INVITE and TOPIC do not touch the sets of members. *)
LEMMA InviteStays == ASSUME StructInv, NEW f \in Fd, InviteCommand(f) PROVE AllStay
<1>1. PICK c \in channels, g \in clients : chan' = [chan EXCEPT ![c] = InviteUser(chan[c], g)]
  BY DEF InviteCommand
<1>2. c \in Chan /\ chan[c] \in ChannelState
  BY DEF StructInv, TypeOK
<1>3. chan[c].oper \subseteq InviteUser(chan[c], g).oper
  BY <1>2 DEF InviteUser, ChannelState
<1>. QED
  BY <1>1, <1>2, <1>3, OneChannelStays

LEMMA TopicStays == ASSUME StructInv, NEW f \in Fd, TopicCommand(f) PROVE AllStay
<1>1. PICK c \in channels, topic \in Topic : chan' = [chan EXCEPT ![c] = SetTopic(chan[c], topic)]
  BY DEF TopicCommand
<1>2. c \in Chan /\ chan[c] \in ChannelState
  BY DEF StructInv, TypeOK
<1>3. chan[c].oper \subseteq SetTopic(chan[c], topic).oper
  BY <1>2 DEF SetTopic, ChannelState
<1>. QED
  BY <1>1, <1>2, <1>3, OneChannelStays

(* A mode string adds operators at most. *)
LEMMA ModeStays ==
  ASSUME StructInv, NEW f \in Fd, ModeCommand(f) \/ ModeCommandThrows(f)
  PROVE  AllStay
BY ModeStruct, ModeThrowsStruct DEF AllStay, StructInv, TypeOK

(* PART takes f out of one channel, which f does not list any more. *)
LEMMA PartStays == ASSUME StructInv, NEW f \in Fd, PartCommand(f) PROVE Stay
<1>1. PICK c \in Chan :
        /\ LeaveAll(f, {c})
        /\ joined' = [joined EXCEPT ![f] = ExitChannel(joined[f], c)]
  BY DEF PartCommand
<1>2. joined[f] \in Seq(Chan) /\ IsInjective(joined[f]) /\ joined \in [Fd -> Seq(Chan)]
  BY DEF StructInv, TypeOK, NoDanglingChannel
<1>3. c \notin Listed(joined'[f])
  BY <1>1, <1>2, ExitChannelEffect
<1>4. \A d \in channels : chan[d].oper \ {f} \subseteq chan'[d].oper
  BY <1>1, LeaveAllStays
<1>5. \A d \in Chan : d # c => chan'[d] = chan[d]
  BY <1>1 DEF LeaveAll
<1>. QED
  BY <1>3, <1>4, <1>5 DEF Stay, StructInv, TypeOK

(* QUIT: f is not connected any more. *)
LEMMA QuitStays == ASSUME StructInv, NEW f \in Fd, QuitCommand(f) PROVE Stay
<1>1. LeaveAll(f, QuitVisited(joined[f])) /\ f \notin clients'
  BY DEF QuitCommand, RemoveClient
<1>2. \A d \in channels : chan[d].oper \ {f} \subseteq chan'[d].oper
  BY <1>1, LeaveAllStays
<1>. QED
  BY <1>1, <1>2 DEF Stay

LEMMA StayStep == StructInv /\ [Next]_vars => Stay
<1>. SUFFICES ASSUME StructInv, [Next]_vars PROVE Stay
  OBVIOUS
<1>1. AllStay => Stay
  BY DEF AllStay, Stay
<1>2. ASSUME chan' = chan PROVE AllStay
  BY <1>2 DEF AllStay
<1>3. ASSUME NEW f \in Fd,
             Accept(f) \/ NickCommand(f) \/ Reject(f) \/ WhoCommandBare(f) \/ UNCHANGED vars
      PROVE  AllStay
  BY <1>2, <1>3 DEF Accept, NickCommand, Reject, WhoCommandBare, vars
<1>4. CASE UNCHANGED vars
  BY <1>1, <1>2, <1>4 DEF vars
<1>5. ASSUME NEW f \in Fd,
             \/ JoinCommand(f) \/ KickCommand(f) \/ InviteCommand(f) \/ TopicCommand(f)
             \/ ModeCommand(f) \/ ModeCommandThrows(f)
      PROVE  AllStay
  BY <1>5, JoinStays, KickStays, InviteStays, TopicStays, ModeStays
<1>. QED
  BY <1>1, <1>3, <1>4, <1>5, PartStays, QuitStays DEF Next, CommonNext

(* Nobody is demoted: an operator who stays connected and on the channel   *)
(* stays operator, in every step, with ghosts in the channel or without.   *)
THEOREM NobodyDemoted == Spec => OperatorsStay
<1>1. StructInv /\ [Next]_vars => [Stay]_vars
  BY StayStep
<1>. QED
  BY <1>1, StructInvHolds, PTL DEF Spec, OperatorsStay, Stay
-----------------------------------------------------------------------------
(* Orderly clients: the two views of membership agree, and nothing the     *)
(* server does is undefined.                                               *)
OrderlyInv == StructInv /\ MembershipConsistent /\ StaysUp

(* Orderly steps are steps. *)
LEMMA OrderlyIsNext == [OrderlyNext]_vars => [Next]_vars
BY DEF OrderlyNext, OrderlyQuit, OrderlyReject, Next

(* How a change of the member sets has to be mirrored in the lists. *)
LEMMA MirroredStep ==
  ASSUME OrderlyInv, StructInv',
         NEW f \in Fd, NEW cs,
         \/ clients' = clients
         \/ clients' = clients \ {f} /\ \A c \in Chan : f \notin Members(chan'[c]),
         \A g \in Fd \ {f} : joined'[g] = joined[g],
         \/ /\ \A c \in Chan : Members(chan'[c]) =
                IF c \in cs THEN Members(chan[c]) \cup {f} ELSE Members(chan[c])
            /\ Listed(joined'[f]) = Listed(joined[f]) \cup cs
         \/ /\ \A c \in Chan : Members(chan'[c]) =
                IF c \in cs THEN Members(chan[c]) \ {f} ELSE Members(chan[c])
            /\ Listed(joined'[f]) = Listed(joined[f]) \ cs,
         f \in clients
  PROVE  MembershipConsistent'
<1>. SUFFICES ASSUME NEW c \in Chan
              PROVE  Members(chan'[c]) = { g \in clients' : c \in Listed(joined'[g]) }
  BY DEF MembershipConsistent, OnChannel
<1>1. Members(chan[c]) = { g \in clients : c \in Listed(joined[g]) } /\ clients \subseteq Fd
  BY DEF OrderlyInv, MembershipConsistent, OnChannel, StructInv, TypeOK
<1>2. ASSUME NEW g
      PROVE  g \in Members(chan'[c]) <=> g \in clients' /\ c \in Listed(joined'[g])
  <2>1. CASE g = f
    BY <1>1, <2>1
  <2>2. CASE g # f
    <3>1. g \in Members(chan'[c]) <=> g \in Members(chan[c])
      BY <2>2
    <3>2. g \in clients' <=> g \in clients
      BY <2>2
    <3>3. g \in Fd => joined'[g] = joined[g]
      BY <2>2
    <3>. QED  BY <1>1, <3>1, <3>2, <3>3
  <2>. QED  BY <2>1, <2>2
<1>. QED
  BY <1>2

(* No member set, list or client changes. *)
LEMMA UnmirroredStep ==
  ASSUME OrderlyInv, clients' = clients, joined' = joined, status' = status,
         \A c \in Chan : Members(chan'[c]) = Members(chan[c])
  PROVE  MembershipConsistent' /\ StaysUp'
BY DEF OrderlyInv, MembershipConsistent, StaysUp, OnChannel

LEMMA OrderlyStep == OrderlyInv /\ [OrderlyNext]_vars => OrderlyInv'
<1>. SUFFICES ASSUME OrderlyInv, [OrderlyNext]_vars PROVE OrderlyInv'
  OBVIOUS
<1>0. StructInv /\ StructInv'
  BY OrderlyIsNext, NextStruct DEF OrderlyInv
<1>. SUFFICES MembershipConsistent' /\ StaysUp'
  BY <1>0 DEF OrderlyInv
<1>1. ASSUME NEW f \in Fd, Accept(f)
      PROVE  MembershipConsistent' /\ StaysUp'
  <2>1. Listed(joined[f]) = {}
    BY <1>0, <1>1, EmptyList DEF Accept, StructInv
  <2>. QED
    BY <1>1, <2>1 DEF Accept, OrderlyInv, MembershipConsistent, StaysUp, OnChannel
<1>2. ASSUME NEW f \in Fd, NickCommand(f)
      PROVE  MembershipConsistent' /\ StaysUp'
  BY <1>2, UnmirroredStep DEF NickCommand
<1>3. ASSUME NEW f \in Fd, JoinCommand(f)
      PROVE  MembershipConsistent' /\ StaysUp'
  <2>1. PICK c \in Chan :
          /\ \A d \in Chan : Members(chan'[d]) =
               IF d = c THEN Members(chan[d]) \cup {f} ELSE Members(chan[d])
          /\ Listed(joined'[f]) = Listed(joined[f]) \cup {c}
    BY <1>0, <1>3, JoinStruct
  <2>2. /\ f \in clients /\ clients' = clients /\ status' = status
        /\ \A g \in Fd \ {f} : joined'[g] = joined[g]
    BY <1>0, <1>3 DEF JoinCommand, Served, StructInv, TypeOK
  <2>3. MembershipConsistent'
    BY <1>0, <2>1, <2>2, MirroredStep
  <2>. QED  BY <2>2, <2>3 DEF OrderlyInv, StaysUp
<1>4. ASSUME NEW f \in Fd, PartCommand(f)
      PROVE  MembershipConsistent' /\ StaysUp'
  <2>1. PICK c \in Chan :
          /\ \A d \in Chan : Members(chan'[d]) =
               IF d = c THEN Members(chan[d]) \ {f} ELSE Members(chan[d])
          /\ Listed(joined'[f]) = Listed(joined[f]) \ {c}
    BY <1>0, <1>4, PartStruct
  <2>2. /\ f \in clients /\ clients' = clients /\ status' = status
        /\ \A g \in Fd \ {f} : joined'[g] = joined[g]
    BY <1>0, <1>4 DEF PartCommand, Served, StructInv, TypeOK
  <2>3. MembershipConsistent'
    BY <1>0, <2>1, <2>2, MirroredStep
  <2>. QED  BY <2>2, <2>3 DEF OrderlyInv, StaysUp
<1>5. ASSUME NEW f \in Fd, KickCommand(f)
      PROVE  MembershipConsistent' /\ StaysUp'
  <2>1. PICK c \in channels, g \in Fd :
          /\ g \in Members(chan[c])
          /\ \A d \in Chan : Members(chan'[d]) =
               IF d = c THEN Members(chan[d]) \ {g} ELSE Members(chan[d])
          /\ \A h \in Fd \ {g} : joined'[h] = joined[h]
          /\ OnChannel(g, c) => /\ Listed(joined'[g]) = Listed(joined[g]) \ {c}
                                /\ status' = status
    BY <1>0, <1>5, KickStruct
  <2>2. g \in clients /\ OnChannel(g, c)
    BY <1>0, <2>1 DEF OrderlyInv, MembershipConsistent, StructInv, TypeOK
  <2>3. clients' = clients
    BY <1>5 DEF KickCommand
  <2>4. MembershipConsistent'
    BY <1>0, <2>1, <2>2, <2>3, MirroredStep
  <2>. QED  BY <2>1, <2>2, <2>4 DEF OrderlyInv, StaysUp
<1>6. ASSUME NEW f \in Fd, InviteCommand(f)
      PROVE  MembershipConsistent' /\ StaysUp'
  BY <1>0, <1>6, InviteStruct, UnmirroredStep DEF InviteCommand
<1>7. ASSUME NEW f \in Fd, TopicCommand(f)
      PROVE  MembershipConsistent' /\ StaysUp'
  BY <1>0, <1>7, TopicStruct, UnmirroredStep DEF TopicCommand
<1>8. ASSUME NEW f \in Fd, ModeCommand(f)
      PROVE  MembershipConsistent' /\ StaysUp'
  BY <1>0, <1>8, ModeStruct, UnmirroredStep DEF ModeCommand
<1>9. ASSUME NEW f \in Fd, ModeCommandThrows(f)
      PROVE  MembershipConsistent' /\ StaysUp'
  BY <1>0, <1>9, ModeThrowsStruct, UnmirroredStep DEF ModeCommandThrows
<1>10. ASSUME NEW f \in Fd, Len(joined[f]) <= 2, QuitCommand(f)
       PROVE  MembershipConsistent' /\ StaysUp'
  <2>1. joined[f] \in Seq(Chan)
    BY <1>0 DEF StructInv, TypeOK
  <2>2. QuitVisited(joined[f]) = Listed(joined[f])
    BY <1>10, <2>1, ShortQuitVisitsAll
  <2>3. \A c \in Chan : Members(chan'[c]) =
          IF c \in Listed(joined[f]) THEN Members(chan[c]) \ {f} ELSE Members(chan[c])
    BY <1>0, <1>10, <2>2, QuitStruct
  <2>4. /\ f \in clients /\ clients' = clients \ {f}
        /\ joined'[f] = <<>>
        /\ \A g \in Fd \ {f} : joined'[g] = joined[g]
    BY <1>0, <1>10 DEF QuitCommand, RemoveClient, Served, StructInv, TypeOK
  <2>5. \A c \in Chan : f \notin Members(chan'[c])
    BY <2>3 DEF OrderlyInv, MembershipConsistent, OnChannel
  <2>6. Listed(joined'[f]) = Listed(joined[f]) \ Listed(joined[f])
    BY <2>4, EmptyList
  <2>7. MembershipConsistent'
    BY <1>0, <2>3, <2>4, <2>5, <2>6, MirroredStep
  <2>8. ~ QuitRereads(joined[f])
    BY <1>10, <2>1, LenProperties DEF QuitRereads
  <2>. QED  BY <1>10, <2>7, <2>8 DEF QuitCommand, StaysUp
<1>11. ASSUME NEW f \in Fd, joined[f] = <<>>, Reject(f)
       PROVE  MembershipConsistent' /\ StaysUp'
  <2>1. /\ f \in clients /\ clients' = clients \ {f}
        /\ joined'[f] = <<>>
        /\ \A g \in Fd \ {f} : joined'[g] = joined[g]
        /\ status' = status /\ chan' = chan
    BY <1>0, <1>11 DEF Reject, RemoveClient, Served, StructInv, TypeOK
  <2>2. \A c \in Chan : f \notin Members(chan'[c])
    BY <1>11, <2>1, EmptyList DEF OrderlyInv, MembershipConsistent, OnChannel
  <2>3. /\ \A c \in Chan : Members(chan'[c]) =
             IF c \in {} THEN Members(chan[c]) \ {f} ELSE Members(chan[c])
        /\ Listed(joined'[f]) = Listed(joined[f]) \ {}
    BY <1>11, <2>1
  <2>4. MembershipConsistent'
    BY <1>0, <2>1, <2>2, <2>3, MirroredStep
  <2>. QED  BY <2>1, <2>4 DEF OrderlyInv, StaysUp
<1>12. CASE UNCHANGED vars
  BY <1>12, UnmirroredStep DEF vars
<1>. QED
  BY <1>1, <1>2, <1>3, <1>4, <1>5, <1>6, <1>7, <1>8, <1>9, <1>10, <1>11, <1>12
  DEF OrderlyNext, CommonNext, OrderlyQuit, OrderlyReject

LEMMA OrderlyInit == Init => OrderlyInv
<1>1. Init => MembershipConsistent /\ StaysUp
  BY NewChannelType DEF Init, MembershipConsistent, StaysUp
<1>. QED
  BY <1>1, InitStruct DEF OrderlyInv

(* The inductive invariant of the clients that spare the server the three  *)
(* situations it does not survive well.                                    *)
THEOREM OrderlyInvHolds == OrderlySpec => []OrderlyInv
<1>1. Init => OrderlyInv
  BY OrderlyInit
<1>2. OrderlyInv /\ [OrderlyNext]_vars => OrderlyInv'
  BY OrderlyStep
<1>. QED
  BY <1>1, <1>2, PTL DEF OrderlySpec

(* As long as clients are orderly, the sets of every channel are the open  *)
(* sockets of the clients that list it.                                    *)
THEOREM OrderlyMembership == OrderlySpec => []MembershipConsistent
<1>1. OrderlyInv => MembershipConsistent
  BY DEF OrderlyInv
<1>. QED
  BY <1>1, OrderlyInvHolds, PTL

(* As long as clients are orderly, no command reaches undefined behaviour: *)
(* the calls of exitChannel and the walk of quit stay inside the vector.   *)
THEOREM OrderlyStaysUp == OrderlySpec => []StaysUp
<1>1. OrderlyInv => StaysUp
  BY DEF OrderlyInv
<1>. QED
  BY <1>1, OrderlyInvHolds, PTL
=============================================================================
