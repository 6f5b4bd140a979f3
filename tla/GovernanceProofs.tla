-------------------------- MODULE GovernanceProofs --------------------------
(***************************************************************************)
(* Who changes a channel, for any number of descriptors, channels and mode *)
(* strings: the action properties of ChannelServer, ghosts or no ghosts.   *)
(* Every command does one of seven things to a channel that is there       *)
(* before and after it (StepKinds); each property is a case distinction.   *)
(* The second part shows that the server implements Rooms.                 *)
(***************************************************************************)
EXTENDS ChannelServerProofs, FiniteSetTheorems

Untouched(c) == chan'[c] = chan[c]

Joins(c) ==
  \E f \in clients, key \in Key :
    Admits(chan[c], f, key) /\ chan'[c] = AddUser(chan[c], f)

Leaves(c) ==
  \E f \in clients :
    OnChannel(f, c) /\ ~ Vacated(chan[c], f) /\ chan'[c] = RemoveUser(chan[c], f)

Kicks(c) ==
  Governor(c) # {} /\ \E g \in chan[c].users : chan'[c] = KickUser(chan[c], g)

Invites(c) == \E g \in Fd : chan'[c] = InviteUser(chan[c], g)

SetsTopic(c) ==
  /\ "t" \in chan[c].mode => Governor(c) # {}
  /\ \E topic \in Topic : chan'[c] = SetTopic(chan[c], topic)

(* A mode string promotes one user at most. *)
Modes(c) ==
  /\ Governor(c) # {}
  /\ \/ chan'[c].users = chan[c].users /\ chan'[c].oper = chan[c].oper
     \/ \E g \in chan[c].users :
          /\ chan'[c].users = chan[c].users \ {g}
          /\ chan'[c].oper = chan[c].oper \cup {g}

Kind(c) ==
  \/ Untouched(c) \/ Joins(c) \/ Leaves(c) \/ Kicks(c)
  \/ Invites(c) \/ SetsTopic(c) \/ Modes(c)

(* The channels that are on the map before and after a step. *)
Kept == channels \cap channels'

(* Whoever may operate a channel governs it. *)
LEMMA OperatorGoverns ==
  ASSUME NEW f, NEW c, MayOperate(f, c)
  PROVE  f \in Governor(c)
BY DEF MayOperate, Governor, Served

(* Only the channel a command is about is touched. *)
LEMMA OneChannelTouched ==
  ASSUME StructInv, NEW c \in Chan, NEW new, chan' = [chan EXCEPT ![c] = new]
  PROVE  chan'[c] = new /\ \A d \in Chan : d # c => Untouched(d)
BY DEF StructInv, TypeOK, Untouched

LEMMA LeaveAllKinds ==
  ASSUME StructInv, NEW f \in clients, NEW cs \in SUBSET Listed(joined[f]), LeaveAll(f, cs)
  PROVE  \A c \in Kept : Untouched(c) \/ Leaves(c)
<1>. SUFFICES ASSUME NEW c \in Kept PROVE Untouched(c) \/ Leaves(c)
  OBVIOUS
<1>1. c \in Chan /\ ~ (c \in cs /\ Vacated(chan[c], f))
  BY DEF Kept, StructInv, TypeOK, LeaveAll
<1>2. CASE c \notin cs
  BY <1>1, <1>2 DEF LeaveAll, Untouched
<1>3. CASE c \in cs
  BY <1>1, <1>3 DEF LeaveAll, Leaves, OnChannel
<1>. QED
  BY <1>2, <1>3

LEMMA JoinKinds ==
  ASSUME StructInv, NEW f \in Fd, JoinCommand(f)
  PROVE  \A c \in Kept : Kind(c)
<1>1. PICK c \in Chan, key \in Key :
        /\ f \in clients /\ Admits(chan[c], f, key)
        /\ chan' = [chan EXCEPT ![c] = AddUser(chan[c], f)]
  BY DEF JoinCommand, Served
<1>2. Joins(c) /\ \A d \in Chan : d # c => Untouched(d)
  BY <1>1, OneChannelTouched DEF Joins
<1>. QED
  BY <1>2 DEF Kept, Kind, StructInv, TypeOK

LEMMA KickKinds ==
  ASSUME StructInv, NEW f \in Fd, KickCommand(f)
  PROVE  \A c \in Kept : Kind(c)
<1>1. PICK c \in channels, g \in clients :
        /\ MayOperate(f, c) /\ g \in chan[c].users
        /\ chan' = [chan EXCEPT ![c] = KickUser(chan[c], g)]
  BY DEF KickCommand, Designated
<1>2. c \in Chan
  BY DEF StructInv, TypeOK
<1>3. Kicks(c) /\ \A d \in Chan : d # c => Untouched(d)
  BY <1>1, <1>2, OneChannelTouched, OperatorGoverns DEF Kicks
<1>. QED
  BY <1>3 DEF Kept, Kind, StructInv, TypeOK

LEMMA InviteKinds ==
  ASSUME StructInv, NEW f \in Fd, InviteCommand(f)
  PROVE  \A c \in Kept : Kind(c)
<1>1. PICK c \in channels, g \in clients : chan' = [chan EXCEPT ![c] = InviteUser(chan[c], g)]
  BY DEF InviteCommand
<1>2. c \in Chan /\ g \in Fd
  BY DEF StructInv, TypeOK
<1>3. Invites(c) /\ \A d \in Chan : d # c => Untouched(d)
  BY <1>1, <1>2, OneChannelTouched DEF Invites
<1>. QED
  BY <1>3 DEF Kept, Kind, StructInv, TypeOK

LEMMA TopicKinds ==
  ASSUME StructInv, NEW f \in Fd, TopicCommand(f)
  PROVE  \A c \in Kept : Kind(c)
<1>1. PICK c \in channels, topic \in Topic :
        MaySetTopic(f, c) /\ chan' = [chan EXCEPT ![c] = SetTopic(chan[c], topic)]
  BY DEF TopicCommand
<1>2. c \in Chan /\ ("t" \in chan[c].mode => f \in Governor(c))
  BY <1>1 DEF StructInv, TypeOK, MaySetTopic, Governor, Served
<1>3. SetsTopic(c) /\ \A d \in Chan : d # c => Untouched(d)
  BY <1>1, <1>2, OneChannelTouched DEF SetsTopic
<1>. QED
  BY <1>3 DEF Kept, Kind, StructInv, TypeOK

(* What the parts of a mode string do to the two sets. *)
LEMMA WithArgsSets ==
  ASSUME NEW ch \in ChannelState, NEW letters, NEW key, NEW lim
  PROVE  /\ WithArgs(ch, letters, key, lim).users = ch.users
         /\ WithArgs(ch, letters, key, lim).oper = ch.oper
BY DEF WithArgs, ChannelState

LEMMA WithFlagsSets ==
  ASSUME NEW ch \in ChannelState, NEW on, NEW off
  PROVE  /\ WithFlags(ch, on, off).users = ch.users
         /\ WithFlags(ch, on, off).oper = ch.oper
BY DEF WithFlags, ChannelState

LEMMA MakeOperatorSets ==
  ASSUME NEW ch \in ChannelState, NEW g
  PROVE  /\ MakeOperator(ch, g).users = ch.users \ {g}
         /\ MakeOperator(ch, g).oper = ch.oper \cup {g}
BY DEF MakeOperator, ChannelState

(* A mode string, run to its end or not, is of kind Modes on one channel.   *)
ModesOne(f) ==
  \E c \in Chan :
    MayOperate(f, c) /\ Modes(c) /\ \A d \in Chan : d # c => Untouched(d)

LEMMA ModeRuns ==
  ASSUME StructInv, NEW f \in Fd, ModeCommand(f)
  PROVE  ModesOne(f)
<1>0. PICK c \in Chan, req \in ModeReqs :
        \E key \in KeyArgs(req), lim \in LimitArgs(req) :
          /\ MayOperate(f, c)
          /\ LET ch == WithArgs(chan[c], req.on, key, lim) IN
               \/ chan' = [chan EXCEPT ![c] = WithFlags(ch, req.on, req.off)]
               \/ \E g \in Designated(ch.users) :
                    chan' = [chan EXCEPT ![c] =
                               WithFlags(MakeOperator(ch, g), req.on, req.off)]
  BY DEF ModeCommand
<1>1. PICK key \in KeyArgs(req), lim \in LimitArgs(req) :
        /\ MayOperate(f, c)
        /\ LET ch == WithArgs(chan[c], req.on, key, lim) IN
             \/ chan' = [chan EXCEPT ![c] = WithFlags(ch, req.on, req.off)]
             \/ \E g \in Designated(ch.users) :
                  chan' = [chan EXCEPT ![c] =
                             WithFlags(MakeOperator(ch, g), req.on, req.off)]
  BY <1>0
<1>. DEFINE ch == WithArgs(chan[c], req.on, key, lim)
<1>2. Sound(chan[c]) /\ f \in Governor(c)
  BY <1>1, OperatorGoverns DEF MayOperate, OnChannel, StructInv, NoDanglingChannel
<1>3. Sound(ch) /\ ch.users = chan[c].users /\ ch.oper = chan[c].oper
  <2>1. req.on \in SUBSET req.on
    OBVIOUS
  <2>. QED
    BY <1>2, <2>1, WithArgsSound
<1>. HIDE DEF ch
<1>4. Modes(c) /\ \A d \in Chan : d # c => Untouched(d)
  <2>1. CASE chan' = [chan EXCEPT ![c] = WithFlags(ch, req.on, req.off)]
    <3>1. WithFlags(ch, req.on, req.off).users = ch.users /\ WithFlags(ch, req.on, req.off).oper = ch.oper
      BY <1>3, WithFlagsSets DEF Sound
    <3>. QED
      BY <1>2, <1>3, <2>1, <3>1, OneChannelTouched DEF Modes
  <2>2. ASSUME NEW g \in Designated(ch.users),
               chan' = [chan EXCEPT ![c] = WithFlags(MakeOperator(ch, g), req.on, req.off)]
        PROVE  Modes(c) /\ \A d \in Chan : d # c => Untouched(d)
    <3>1. g \in ch.users
      BY DEF Designated
    <3>2. MakeOperator(ch, g) \in ChannelState
      BY <1>3, <3>1, MakeOperatorSound DEF Sound
    <3>3. /\ WithFlags(MakeOperator(ch, g), req.on, req.off).users = ch.users \ {g}
          /\ WithFlags(MakeOperator(ch, g), req.on, req.off).oper = ch.oper \cup {g}
      BY <1>3, <3>2, WithFlagsSets, MakeOperatorSets DEF Sound
    <3>. QED
      BY <1>2, <1>3, <2>2, <3>1, <3>3, OneChannelTouched DEF Modes
  <2>. QED
    BY <1>1, <2>1, <2>2 DEF ch
<1>. QED
  BY <1>1, <1>4 DEF ModesOne

LEMMA ModeThrows ==
  ASSUME StructInv, NEW f \in Fd, ModeCommandThrows(f)
  PROVE  ModesOne(f)
<1>1. PICK c \in Chan, req \in ModeReqs, key \in Key, lim \in Limit \cup {Unset} :
        /\ key \in KeyArgs(req) /\ lim \in LimitArgs(req)
        /\ MayOperate(f, c)
        /\ LET ch == WithArgs(chan[c], req.early, key, lim) IN
             \E after \in {ch} \cup { MakeOperator(ch, g) : g \in Designated(ch.users) } :
               chan' = [chan EXCEPT ![c] = after]
        /\ UNCHANGED <<status, clients, nick, joined, channels>>
  <2>1. \A req \in ModeReqs :
          KeyArgs(req) \subseteq Key /\ LimitArgs(req) \subseteq Limit \cup {Unset}
    BY ChannelConstants DEF KeyArgs, LimitArgs
  <2>. QED
    BY <2>1 DEF ModeCommandThrows
<1>. DEFINE ch == WithArgs(chan[c], req.early, key, lim)
<1>2. Sound(chan[c]) /\ f \in Governor(c)
  BY <1>1, OperatorGoverns DEF MayOperate, OnChannel, StructInv, NoDanglingChannel
<1>3. Sound(ch) /\ ch.users = chan[c].users /\ ch.oper = chan[c].oper
  <2>1. req.early \in SUBSET req.on
    BY ChannelServerConstants
  <2>. QED
    BY <1>1, <1>2, <2>1, WithArgsSound
<1>. HIDE DEF ch
<1>4. Modes(c) /\ \A d \in Chan : d # c => Untouched(d)
  <2>1. CASE chan' = [chan EXCEPT ![c] = ch]
    BY <1>2, <1>3, <2>1, OneChannelTouched DEF Modes
  <2>2. ASSUME NEW g \in Designated(ch.users), chan' = [chan EXCEPT ![c] = MakeOperator(ch, g)]
        PROVE  Modes(c) /\ \A d \in Chan : d # c => Untouched(d)
    <3>1. g \in ch.users
      BY DEF Designated
    <3>2. /\ MakeOperator(ch, g).users = ch.users \ {g}
          /\ MakeOperator(ch, g).oper = ch.oper \cup {g}
      BY <1>3, MakeOperatorSets DEF Sound
    <3>. QED
      BY <1>2, <1>3, <2>2, <3>1, <3>2, OneChannelTouched DEF Modes
  <2>. QED
    BY <1>1, <2>1, <2>2 DEF ch
<1>. QED
  BY <1>1, <1>4 DEF ModesOne

LEMMA ModeKinds ==
  ASSUME StructInv, NEW f \in Fd, ModeCommand(f) \/ ModeCommandThrows(f)
  PROVE  \A c \in Kept : Kind(c)
BY ModeRuns, ModeThrows DEF ModesOne, Kept, Kind, StructInv, TypeOK

LEMMA StepKinds ==
  ASSUME StructInv, [Next]_vars
  PROVE  \A c \in Kept : Kind(c)
<1>1. ASSUME chan' = chan
      PROVE  \A c \in Kept : Kind(c)
  BY <1>1 DEF Kind, Untouched
<1>2. ASSUME NEW f \in Fd,
             Accept(f) \/ NickCommand(f) \/ Reject(f) \/ WhoCommandBare(f)
      PROVE  \A c \in Kept : Kind(c)
  BY <1>1, <1>2 DEF Accept, NickCommand, Reject, WhoCommandBare
<1>3. CASE UNCHANGED vars
  BY <1>1, <1>3 DEF vars
<1>4. ASSUME NEW f \in Fd, PartCommand(f)
      PROVE  \A c \in Kept : Kind(c)
  <2>1. PICK c \in Chan : f \in clients /\ OnChannel(f, c) /\ LeaveAll(f, {c})
    BY <1>4 DEF PartCommand, Served
  <2>. QED
    BY <2>1, LeaveAllKinds DEF OnChannel, Kind
<1>5. ASSUME NEW f \in Fd, QuitCommand(f)
      PROVE  \A c \in Kept : Kind(c)
  <2>1. f \in clients /\ LeaveAll(f, QuitVisited(joined[f]))
    BY <1>5 DEF QuitCommand, Served
  <2>2. QuitVisited(joined[f]) \in SUBSET Listed(joined[f])
    BY QuitVisitsListed
  <2>. QED
    BY <2>1, <2>2, LeaveAllKinds DEF Kind
<1>. QED
  BY <1>2, <1>3, <1>4, <1>5, JoinKinds, KickKinds, InviteKinds, TopicKinds,
     ModeKinds
  DEF Next, CommonNext
-----------------------------------------------------------------------------
(* The kinds, one by one, against the properties. *)
LEMMA KeptIsSound ==
  ASSUME StructInv, NEW c \in Kept
  PROVE  Sound(chan[c]) /\ chan[c] \in ChannelState /\ c \in Chan
BY DEF Kept, StructInv, TypeOK, Sound

LEMMA LeaverIsMember ==
  ASSUME StructInv, NEW f \in clients, NEW c, OnChannel(f, c)
  PROVE  f \in Members(chan[c]) /\ f \in Fd
BY DEF StructInv, TypeOK, NoDanglingChannel, OnChannel

(* A channel whose modes, key, limit or protected topic has changed. *)
Governed(c) ==
  \/ chan'[c].mode # chan[c].mode
  \/ chan'[c].limit # chan[c].limit
  \/ chan'[c].passwd # chan[c].passwd
  \/ "t" \in chan[c].mode /\ chan'[c].topic # chan[c].topic

LEMMA GovernedKinds ==
  ASSUME StructInv, NEW c \in Kept, Kind(c), Governed(c)
  PROVE  Governor(c) # {}
<1>1. Sound(chan[c]) /\ chan[c] \in ChannelState
  BY KeptIsSound
<1>2. CASE Untouched(c)
  BY <1>2 DEF Untouched, Governed
<1>3. ASSUME NEW f \in clients, chan'[c] = AddUser(chan[c], f)
      PROVE  FALSE
  <2>1. f \in Fd
    BY DEF StructInv, TypeOK
  <2>. QED
    BY <1>1, <1>3, <2>1, JoinSets DEF Governed
<1>4. ASSUME NEW f \in clients, OnChannel(f, c), ~ Vacated(chan[c], f),
             chan'[c] = RemoveUser(chan[c], f)
      PROVE  FALSE
  BY <1>1, <1>4, LeaverIsMember, RemoveUserSets DEF Governed
<1>5. ASSUME NEW g \in Fd, chan'[c] = InviteUser(chan[c], g)
      PROVE  FALSE
  BY <1>1, <1>5 DEF InviteUser, ChannelState, Governed
<1>6. ASSUME NEW topic \in Topic, chan'[c] = SetTopic(chan[c], topic)
      PROVE  "t" \in chan[c].mode
  BY <1>1, <1>6 DEF SetTopic, ChannelState, Governed
<1>. QED
  BY <1>2, <1>3, <1>4, <1>5, <1>6 DEF Kind, Joins, Leaves, Kicks, Invites, SetsTopic, Modes

(* With ghosts in its channels or without, only somebody who holds office  *)
(* and is there changes the modes, the key, the limit or a protected topic.*)
THEOREM OperatorsGovern == Spec => GovernedByOperator
<1>1. StructInv /\ [Next]_vars => \A c \in Kept : Governed(c) => Governor(c) # {}
  BY StepKinds, GovernedKinds
<1>2. StructInv /\ [Next]_vars =>
        [\A c \in channels \cap channels' :
           \/ chan'[c].mode # chan[c].mode
           \/ chan'[c].limit # chan[c].limit
           \/ chan'[c].passwd # chan[c].passwd
           \/ "t" \in chan[c].mode /\ chan'[c].topic # chan[c].topic
           => Governor(c) # {}]_vars
  BY <1>1 DEF Kept, Governed
<1>. QED
  BY <1>2, StructInvHolds, PTL DEF Spec, GovernedByOperator
-----------------------------------------------------------------------------
(* Who becomes an operator. *)
Succession(c) ==
  LET new == chan'[c].oper \ chan[c].oper IN
    new # {} =>
      /\ \E f \in chan[c].users : new = {f}
      /\ \E op \in Governor(c) :
           \/ chan[c].oper \subseteq chan'[c].oper
           \/ chan[c].oper = {op} /\ op \notin Members(chan'[c])

LEMMA SuccessionKinds ==
  ASSUME StructInv, NEW c \in Kept, Kind(c)
  PROVE  Succession(c)
<1>1. Sound(chan[c]) /\ chan[c] \in ChannelState
  BY KeptIsSound
<1>2. ASSUME chan'[c].oper = chan[c].oper
      PROVE  Succession(c)
  BY <1>2 DEF Succession
<1>3. CASE Untouched(c) \/ Invites(c) \/ SetsTopic(c) \/ Kicks(c)
  <2>1. chan'[c].oper = chan[c].oper
    BY <1>1, <1>3 DEF Untouched, Invites, SetsTopic, Kicks, InviteUser, SetTopic, KickUser,
         ChannelState
  <2>. QED
    BY <1>2, <2>1
<1>4. ASSUME NEW f \in clients, chan'[c] = AddUser(chan[c], f)
      PROVE  Succession(c)
  <2>1. f \in Fd
    BY DEF StructInv, TypeOK
  <2>. QED
    BY <1>1, <1>2, <1>4, <2>1, JoinSets
<1>5. ASSUME NEW f \in clients, OnChannel(f, c), ~ Vacated(chan[c], f),
             chan'[c] = RemoveUser(chan[c], f)
      PROVE  Succession(c)
  <2>1. f \in Members(chan[c])
    BY <1>5, LeaverIsMember
  <2>2. CASE chan'[c].oper = chan[c].oper \ {f}
    BY <2>2 DEF Succession
  <2>3. ASSUME NEW heir \in chan[c].users, chan[c].oper = {f}, chan'[c].oper = {heir}
        PROVE  Succession(c)
    <3>1. heir # f
      BY <1>1, <2>3 DEF Sound
    <3>2. f \in Governor(c) /\ f \notin Members(chan'[c])
      BY <1>1, <1>5, <2>1, <2>3, RemoveUserSets DEF Governor
    <3>. QED
      BY <2>3, <3>1, <3>2 DEF Succession
  <2>. QED
    BY <1>1, <1>5, <2>1, <2>2, <2>3, RemoveUserSets
<1>6. CASE Modes(c)
  <2>1. ASSUME NEW g \in chan[c].users, chan'[c].oper = chan[c].oper \cup {g}
        PROVE  Succession(c)
    <3>1. chan'[c].oper \ chan[c].oper = {g} /\ chan[c].oper \subseteq chan'[c].oper
      BY <1>1, <2>1 DEF Sound
    <3>. QED
      BY <1>6, <3>1 DEF Modes, Succession
  <2>. QED
    BY <1>2, <1>6, <2>1 DEF Modes
<1>. QED
  BY <1>3, <1>4, <1>5, <1>6 DEF Kind, Joins, Leaves

(* One becomes an operator only by a promotion that a present operator     *)
(* grants, or by succeeding the only one, who leaves.                      *)
THEOREM OperatorsFollow == Spec => OperatorsSucceed
<1>1. StructInv /\ [Next]_vars =>
        [\A c \in channels \cap channels' :
           LET new == chan'[c].oper \ chan[c].oper IN
             new # {} =>
               /\ \E f \in chan[c].users : new = {f}
               /\ \E op \in Governor(c) :
                    \/ chan[c].oper \subseteq chan'[c].oper
                    \/ chan[c].oper = {op} /\ op \notin Members(chan'[c])]_vars
  BY StepKinds, SuccessionKinds DEF Kept, Succession
<1>. QED
  BY <1>1, StructInvHolds, PTL DEF Spec, OperatorsSucceed
-----------------------------------------------------------------------------
(* Who gets into a channel that is there already. *)
Admission(c) ==
  LET new == Members(chan'[c]) \ Members(chan[c]) IN
    new # {} =>
      /\ \E f \in clients : new = {f}
      /\ "i" \in chan[c].mode => new \subseteq chan[c].invite
      /\ "l" \in chan[c].mode => Cardinality(Members(chan'[c])) <= chan[c].limit

(* The two sets are disjoint, so addUser compares with their sum. *)
LEMMA MembersCounted ==
  ASSUME NEW ch, Sound(ch), NEW f \in Fd, f \notin Members(ch)
  PROVE  /\ Cardinality(ch.users) \in Nat /\ Cardinality(ch.oper) \in Nat
         /\ Cardinality(Members(ch) \cup {f}) = Cardinality(ch.users) + Cardinality(ch.oper) + 1
<1>1. IsFiniteSet(ch.users) /\ IsFiniteSet(ch.oper)
  <2>1. ch.users \in SUBSET Fd /\ ch.oper \in SUBSET Fd
    BY DEF Sound, ChannelState
  <2>2. ASSUME NEW T \in SUBSET Fd
        PROVE  IsFiniteSet(T)
    BY DescriptorsFinite, FS_Subset
  <2>. QED
    BY <2>1, <2>2
<1>2. Cardinality(ch.users) \in Nat /\ Cardinality(ch.oper) \in Nat
  BY <1>1, FS_CardinalityType
<1>3. Cardinality(ch.users \cap ch.oper) = 0
  <2>1. ch.users \cap ch.oper = {}
    BY DEF Sound
  <2>. QED
    BY <2>1, FS_EmptySet, Zenon
<1>4. /\ IsFiniteSet(ch.users \cup ch.oper)
      /\ Cardinality(ch.users \cup ch.oper) =
           Cardinality(ch.users) + Cardinality(ch.oper) - Cardinality(ch.users \cap ch.oper)
  BY <1>1, FS_Union
<1>5. Cardinality(ch.users \cup ch.oper) = Cardinality(ch.users) + Cardinality(ch.oper)
  BY <1>2, <1>3, <1>4
<1>6. Cardinality((ch.users \cup ch.oper) \cup {f}) = Cardinality(ch.users \cup ch.oper) + 1
  BY <1>4, FS_AddElement DEF Members
<1>. QED
  BY <1>2, <1>5, <1>6 DEF Members

LEMMA AdmissionKinds ==
  ASSUME StructInv, NEW c \in Kept, Kind(c)
  PROVE  Admission(c)
<1>1. Sound(chan[c]) /\ chan[c] \in ChannelState
  BY KeptIsSound
<1>2. ASSUME Members(chan'[c]) \subseteq Members(chan[c])
      PROVE  Admission(c)
  BY <1>2 DEF Admission
<1>3. CASE Untouched(c) \/ Invites(c) \/ SetsTopic(c) \/ Kicks(c) \/ Modes(c)
  <2>1. Members(chan'[c]) \subseteq Members(chan[c])
    BY <1>1, <1>3 DEF Untouched, Invites, SetsTopic, Kicks, Modes, InviteUser, SetTopic,
         KickUser, ChannelState, Members
  <2>. QED
    BY <1>2, <2>1
<1>4. ASSUME NEW f \in clients, OnChannel(f, c), ~ Vacated(chan[c], f),
             chan'[c] = RemoveUser(chan[c], f)
      PROVE  Admission(c)
  BY <1>1, <1>2, <1>4, LeaverIsMember, RemoveUserSets
<1>5. ASSUME NEW f \in clients, NEW key \in Key, Admits(chan[c], f, key),
             chan'[c] = AddUser(chan[c], f)
      PROVE  Admission(c)
  <2>1. f \in Fd /\ f \notin Members(chan[c])
    BY <1>5 DEF StructInv, TypeOK, Admits
  <2>2. Members(chan'[c]) = Members(chan[c]) \cup {f}
    BY <1>1, <1>5, <2>1, AddUserSound
  <2>3. Members(chan'[c]) \ Members(chan[c]) = {f}
    BY <2>1, <2>2
  <2>4. "i" \in chan[c].mode => f \in chan[c].invite
    BY <1>5 DEF Admits
  <2>5. ASSUME "l" \in chan[c].mode
        PROVE  Cardinality(Members(chan'[c])) <= chan[c].limit
    <3>1. chan[c].limit \in Nat
      BY <1>1, <2>5, ChannelConstants DEF Sound, ChannelState
    <3>2. Cardinality(chan[c].users) + Cardinality(chan[c].oper) < chan[c].limit
      BY <1>5, <2>5 DEF Admits
    <3>. QED
      BY <1>1, <2>1, <2>2, <3>1, <3>2, MembersCounted
  <2>. QED
    BY <2>3, <2>4, <2>5 DEF Admission
<1>. QED
  BY <1>3, <1>4, <1>5 DEF Kind, Joins, Leaves

(* Nobody gets into a channel past its limit or its invitations, and no    *)
(* two at once, whatever ghosts are counted among its members.             *)
THEOREM AdmissionHolds == Spec => AdmissionRespected
<1>1. StructInv /\ [Next]_vars =>
        [\A c \in channels \cap channels' :
           LET new == Members(chan'[c]) \ Members(chan[c]) IN
             new # {} =>
               /\ \E f \in clients : new = {f}
               /\ "i" \in chan[c].mode => new \subseteq chan[c].invite
               /\ "l" \in chan[c].mode =>
                    Cardinality(Members(chan'[c])) <= chan[c].limit]_vars
  BY StepKinds, AdmissionKinds DEF Kept, Admission
<1>. QED
  BY <1>1, StructInvHolds, PTL DEF Spec, AdmissionRespected
-----------------------------------------------------------------------------
(* Orderly clients get the rooms the server promises: the detailed server  *)
(* implements Rooms.  A step maps to the step of Rooms that changes the    *)
(* same sets of members and operators, and to a stutter when none of them  *)
(* changes.                                                                *)

SameSets == \A c \in Chan : Members(chan'[c]) = Members(chan[c]) /\ chan'[c].oper = chan[c].oper

OthersSame(c) ==
  \A d \in Chan : d # c => Members(chan'[d]) = Members(chan[d]) /\ chan'[d].oper = chan[d].oper
-----------------------------------------------------------------------------
(* Rooms, step by step, in terms of the sets of the channels. *)
LEMMA MapsConnect ==
  ASSUME NEW f \in Fd, f \notin clients, clients' = clients \cup {f}, SameSets
  PROVE  Promise!Connect(f)
BY DEF Promise!Connect, SameSets, Members

LEMMA MapsStutter ==
  ASSUME clients' = clients, SameSets
  PROVE  UNCHANGED Promise!vars
BY DEF Promise!vars, SameSets, Members

LEMMA MapsEnter ==
  ASSUME NEW f \in clients, NEW c \in Chan, f \notin Members(chan[c]), clients' = clients,
         OthersSame(c), Members(chan'[c]) = Members(chan[c]) \cup {f},
         chan'[c].oper = IF Members(chan[c]) = {} THEN {f} ELSE chan[c].oper
  PROVE  Promise!Enter(f, c)
BY DEF Promise!Enter, OthersSame, Members

(* The operators of channel c once f is gone. *)
Inherits(f, c, ops) ==
  IF chan[c].oper \ {f} # {} \/ Members(chan[c]) \ {f} = {}
  THEN ops = chan[c].oper \ {f}
  ELSE \E heir \in Members(chan[c]) \ {f} : ops = {heir}

LEMMA MapsLeave ==
  ASSUME NEW f \in clients, NEW c \in Chan, f \in Members(chan[c]), clients' = clients,
         OthersSame(c), Members(chan'[c]) = Members(chan[c]) \ {f},
         Inherits(f, c, chan'[c].oper)
  PROVE  Promise!Leave(f, c)
<1>1. chan'[c].oper \in Promise!Heirs(f, c)
  BY DEF Promise!Heirs, Inherits, Members
<1>. QED
  BY <1>1 DEF Promise!Leave, OthersSame, Members

LEMMA MapsEvict ==
  ASSUME NEW f \in clients, NEW c \in Chan, NEW g,
         g \in Members(chan[c]) \ chan[c].oper, f \in chan[c].oper, clients' = clients,
         OthersSame(c), Members(chan'[c]) = Members(chan[c]) \ {g},
         chan'[c].oper = chan[c].oper
  PROVE  Promise!Evict(g, c)
BY DEF Promise!Evict, Promise!Staffed, OthersSame, Members

LEMMA MapsPromote ==
  ASSUME NEW f \in clients, NEW c \in Chan, NEW g,
         g \in Members(chan[c]) \ chan[c].oper, f \in chan[c].oper, clients' = clients,
         OthersSame(c), Members(chan'[c]) = Members(chan[c]),
         chan'[c].oper = chan[c].oper \cup {g}
  PROVE  Promise!Promote(g, c)
BY DEF Promise!Promote, Promise!Staffed, OthersSame, Members

LEMMA MapsDisconnect ==
  ASSUME NEW f \in clients, clients' = clients \ {f},
         \A c \in Chan : chan'[c].oper \in SUBSET Fd,
         \A c \in Chan : Members(chan'[c]) = Members(chan[c]) \ {f},
         \A c \in Chan : IF f \in Members(chan[c]) THEN Inherits(f, c, chan'[c].oper)
                                                   ELSE chan'[c].oper = chan[c].oper
  PROVE  Promise!Disconnect(f)
<1>1. ASSUME NEW c \in Chan, f \in Members(chan[c])
      PROVE  chan'[c].oper \in Promise!Heirs(f, c)
  BY <1>1 DEF Promise!Heirs, Inherits, Members
<1>2. [c \in Chan |-> Members(chan'[c])] = [c \in Chan |-> Members(chan[c]) \ {f}]
  OBVIOUS
<1>3. [c \in Chan |-> chan'[c].oper] \in [Chan -> SUBSET Fd]
  OBVIOUS
<1>. QED
  BY <1>1, <1>2, <1>3 DEF Promise!Disconnect, Members
-----------------------------------------------------------------------------
(* The commands, one by one. *)
LEMMA OneChannelSets ==
  ASSUME StructInv, NEW c \in Chan, NEW new, chan' = [chan EXCEPT ![c] = new]
  PROVE  chan'[c] = new /\ OthersSame(c)
BY OneChannelTouched DEF OthersSame, Untouched

LEMMA NothingNew ==
  ASSUME NEW c \in Chan, OthersSame(c), Members(chan'[c]) = Members(chan[c]),
         chan'[c].oper = chan[c].oper
  PROVE  SameSets
BY DEF OthersSame, SameSets

LEMMA ListedIsSound ==
  ASSUME StructInv, NEW f \in Fd, NEW c, OnChannel(f, c)
  PROVE  Sound(chan[c]) /\ c \in channels /\ c \in Chan /\ f \in Members(chan[c])
BY DEF StructInv, TypeOK, NoDanglingChannel, OnChannel

(* removeUser on a channel f lists: who is left, and who operates it. *)
LEMMA LeaveSets ==
  ASSUME StructInv, NEW f \in Fd, NEW c, OnChannel(f, c),
         chan'[c] = IF Vacated(chan[c], f) THEN NewChannel ELSE RemoveUser(chan[c], f)
  PROVE  Members(chan'[c]) = Members(chan[c]) \ {f} /\ Inherits(f, c, chan'[c].oper)
<1>1. Sound(chan[c]) /\ f \in Members(chan[c])
  BY ListedIsSound
<1>2. CASE Vacated(chan[c], f)
  BY <1>2 DEF Vacated, NewChannel, Members, Inherits
<1>3. CASE ~ Vacated(chan[c], f)
  <2>1. chan'[c] = RemoveUser(chan[c], f)
    BY <1>3
  <2>2. Members(chan'[c]) = Members(chan[c]) \ {f} /\ chan'[c].oper # {}
    BY <1>1, <1>3, <2>1, RemoveUserSound DEF Sound
  <2>3. CASE chan'[c].oper = chan[c].oper \ {f}
    BY <2>2, <2>3 DEF Inherits
  <2>4. ASSUME chan[c].oper = {f}, NEW heir \in chan[c].users, chan'[c].oper = {heir}
        PROVE  Inherits(f, c, chan'[c].oper)
    <3>1. heir \in Members(chan[c]) \ {f}
      BY <1>1, <2>4 DEF Sound, Members
    <3>. QED
      BY <2>4, <3>1 DEF Inherits
  <2>. QED
    BY <1>1, <1>3, <2>1, <2>2, <2>3, <2>4, RemoveUserSets
<1>. QED
  BY <1>2, <1>3

LEMMA JoinMaps ==
  ASSUME OrderlyInv, NEW f \in Fd, JoinCommand(f)
  PROVE  \E c \in Chan : Promise!Enter(f, c)
<1>0. StructInv
  BY DEF OrderlyInv
<1>1. PICK c \in Chan, key \in Key :
        /\ f \in clients /\ clients' = clients /\ Admits(chan[c], f, key)
        /\ chan' = [chan EXCEPT ![c] = AddUser(chan[c], f)]
  BY DEF JoinCommand, Served
<1>2. chan'[c] = AddUser(chan[c], f) /\ OthersSame(c) /\ f \notin Members(chan[c])
  BY <1>0, <1>1, OneChannelSets DEF Admits
<1>3. chan[c] = NewChannel \/ Sound(chan[c])
  BY <1>0 DEF StructInv
<1>4. Members(chan'[c]) = Members(chan[c]) \cup {f}
  BY <1>2, <1>3, AddUserSound
<1>5. chan'[c].oper = IF Members(chan[c]) = {} THEN {f} ELSE chan[c].oper
  <2>1. chan[c] \in ChannelState
    BY <1>3, NewChannelType DEF Sound
  <2>. QED
    BY <1>2, <2>1 DEF AddUser, IsEmpty, Members, ChannelState
<1>. QED
  BY <1>1, <1>2, <1>4, <1>5, MapsEnter

LEMMA PartMaps ==
  ASSUME OrderlyInv, NEW f \in Fd, PartCommand(f)
  PROVE  \E c \in Chan : Promise!Leave(f, c)
<1>0. StructInv
  BY DEF OrderlyInv
<1>1. PICK c \in Chan :
        f \in clients /\ clients' = clients /\ OnChannel(f, c) /\ LeaveAll(f, {c})
  BY DEF PartCommand, Served
<1>2. /\ chan'[c] = IF Vacated(chan[c], f) THEN NewChannel ELSE RemoveUser(chan[c], f)
      /\ OthersSame(c)
  BY <1>1 DEF LeaveAll, OthersSame
<1>3. Members(chan'[c]) = Members(chan[c]) \ {f} /\ Inherits(f, c, chan'[c].oper)
  BY <1>0, <1>1, <1>2, LeaveSets
<1>4. f \in Members(chan[c])
  BY <1>0, <1>1, ListedIsSound
<1>. QED
  BY <1>1, <1>2, <1>3, <1>4, MapsLeave

LEMMA KickMaps ==
  ASSUME OrderlyInv, NEW f \in Fd, KickCommand(f)
  PROVE  \E c \in Chan, g \in Fd : Promise!Evict(g, c)
<1>0. StructInv
  BY DEF OrderlyInv
<1>1. PICK c \in channels, g \in clients :
        /\ f \in clients /\ clients' = clients
        /\ f \in chan[c].oper /\ OnChannel(f, c) /\ g \in chan[c].users
        /\ chan' = [chan EXCEPT ![c] = KickUser(chan[c], g)]
  BY DEF KickCommand, Designated, MayOperate, Served
<1>2. Sound(chan[c]) /\ c \in Chan /\ g \in Fd
  BY <1>0, <1>1, ListedIsSound DEF StructInv, TypeOK
<1>3. chan'[c] = KickUser(chan[c], g) /\ OthersSame(c)
  BY <1>0, <1>1, <1>2, OneChannelSets
<1>4. Members(chan'[c]) = Members(chan[c]) \ {g}
  BY <1>1, <1>2, <1>3, KickUserSound
<1>5. chan'[c].oper = chan[c].oper
  BY <1>2, <1>3 DEF KickUser, Sound, ChannelState
<1>6. g \in Members(chan[c]) \ chan[c].oper
  BY <1>1, <1>2 DEF Sound, Members
<1>. QED
  BY <1>1, <1>2, <1>3, <1>4, <1>5, <1>6, MapsEvict

(* Invitations, topics and most mode strings leave the sets alone. *)
LEMMA InviteMaps ==
  ASSUME OrderlyInv, NEW f \in Fd, InviteCommand(f)
  PROVE  SameSets /\ clients' = clients
<1>0. StructInv
  BY DEF OrderlyInv
<1>1. PICK c \in channels, g \in clients : chan' = [chan EXCEPT ![c] = InviteUser(chan[c], g)]
  BY DEF InviteCommand
<1>2. c \in Chan /\ chan[c] \in ChannelState
  BY <1>0 DEF StructInv, TypeOK
<1>3. chan'[c] = InviteUser(chan[c], g) /\ OthersSame(c)
  BY <1>0, <1>1, <1>2, OneChannelSets
<1>4. Members(chan'[c]) = Members(chan[c]) /\ chan'[c].oper = chan[c].oper
  BY <1>2, <1>3 DEF InviteUser, ChannelState, Members
<1>5. clients' = clients
  BY DEF InviteCommand
<1>. QED
  BY <1>2, <1>3, <1>4, <1>5, NothingNew

LEMMA TopicMaps ==
  ASSUME OrderlyInv, NEW f \in Fd, TopicCommand(f)
  PROVE  SameSets /\ clients' = clients
<1>0. StructInv
  BY DEF OrderlyInv
<1>1. PICK c \in channels, topic \in Topic : chan' = [chan EXCEPT ![c] = SetTopic(chan[c], topic)]
  BY DEF TopicCommand
<1>2. c \in Chan /\ chan[c] \in ChannelState
  BY <1>0 DEF StructInv, TypeOK
<1>3. chan'[c] = SetTopic(chan[c], topic) /\ OthersSame(c)
  BY <1>0, <1>1, <1>2, OneChannelSets
<1>4. Members(chan'[c]) = Members(chan[c]) /\ chan'[c].oper = chan[c].oper
  BY <1>2, <1>3 DEF SetTopic, ChannelState, Members
<1>5. clients' = clients
  BY DEF TopicCommand
<1>. QED
  BY <1>2, <1>3, <1>4, <1>5, NothingNew

(* +o promotes, also when what comes after it fails. *)
LEMMA ModeMaps ==
  ASSUME OrderlyInv, NEW f \in Fd, ModeCommand(f) \/ ModeCommandThrows(f)
  PROVE  \/ SameSets /\ clients' = clients
         \/ \E c \in Chan, g \in Fd : Promise!Promote(g, c)
<1>0. StructInv
  BY DEF OrderlyInv
<1>1. clients' = clients
  BY DEF ModeCommand, ModeCommandThrows
<1>2. PICK c \in Chan :
        MayOperate(f, c) /\ Modes(c) /\ \A d \in Chan : d # c => Untouched(d)
  BY <1>0, ModeRuns, ModeThrows DEF ModesOne
<1>3. OthersSame(c)
  BY <1>2 DEF OthersSame, Untouched
<1>4. f \in clients /\ f \in chan[c].oper /\ Sound(chan[c])
  BY <1>0, <1>2, ListedIsSound DEF MayOperate, Served
<1>5. CASE chan'[c].users = chan[c].users /\ chan'[c].oper = chan[c].oper
  <2>1. Members(chan'[c]) = Members(chan[c])
    BY <1>5 DEF Members
  <2>. QED
    BY <1>1, <1>3, <1>5, <2>1, NothingNew
<1>6. ASSUME NEW g \in chan[c].users, chan'[c].users = chan[c].users \ {g},
             chan'[c].oper = chan[c].oper \cup {g}
      PROVE  \E d \in Chan, h \in Fd : Promise!Promote(h, d)
  <2>1. g \in Fd /\ g \in Members(chan[c]) \ chan[c].oper
    BY <1>4 DEF Sound, ChannelState, Members
  <2>2. Members(chan'[c]) = Members(chan[c])
    BY <1>6 DEF Members
  <2>3. Promise!Promote(g, c)
    BY <1>1, <1>3, <1>4, <1>6, <2>1, <2>2, MapsPromote
  <2>. QED
    BY <2>1, <2>3
<1>. QED
  BY <1>2, <1>5, <1>6 DEF Modes

(* An orderly quit leaves every channel the client is a member of. *)
LEMMA QuitMaps ==
  ASSUME OrderlyInv, StructInv', NEW f \in Fd, Len(joined[f]) <= 2, QuitCommand(f)
  PROVE  Promise!Disconnect(f)
<1>0. StructInv
  BY DEF OrderlyInv
<1>1. joined[f] \in Seq(Chan)
  BY <1>0 DEF StructInv, TypeOK
<1>2. QuitVisited(joined[f]) = Listed(joined[f])
  BY <1>1, ShortQuitVisitsAll
<1>3. f \in clients /\ clients' = clients \ {f} /\ LeaveAll(f, Listed(joined[f]))
  BY <1>2 DEF QuitCommand, Served, RemoveClient
<1>4. ASSUME NEW c \in Chan
      PROVE  f \in Members(chan[c]) <=> c \in Listed(joined[f])
  BY <1>3 DEF OrderlyInv, MembershipConsistent, OnChannel
<1>5. ASSUME NEW c \in Chan, f \in Members(chan[c])
      PROVE  Members(chan'[c]) = Members(chan[c]) \ {f} /\ Inherits(f, c, chan'[c].oper)
  <2>1. OnChannel(f, c)
    BY <1>4, <1>5 DEF OnChannel
  <2>2. chan'[c] = IF Vacated(chan[c], f) THEN NewChannel ELSE RemoveUser(chan[c], f)
    BY <1>3, <2>1 DEF LeaveAll, OnChannel
  <2>. QED
    BY <1>0, <2>1, <2>2, LeaveSets
<1>6. ASSUME NEW c \in Chan, f \notin Members(chan[c])
      PROVE  chan'[c] = chan[c] /\ Members(chan'[c]) = Members(chan[c]) \ {f}
  BY <1>3, <1>4, <1>6 DEF LeaveAll
<1>7. \A c \in Chan : chan'[c].oper \in SUBSET Fd
  BY DEF StructInv, TypeOK, ChannelState
<1>. QED
  BY <1>3, <1>5, <1>6, <1>7, MapsDisconnect

(* A client that fails the password outside every channel. *)
LEMMA RejectMaps ==
  ASSUME OrderlyInv, StructInv', NEW f \in Fd, joined[f] = <<>>, Reject(f)
  PROVE  Promise!Disconnect(f)
<1>1. f \in clients /\ clients' = clients \ {f} /\ chan' = chan
  BY DEF Reject, Served, RemoveClient
<1>2. \A c \in Chan : f \notin Members(chan[c])
  BY EmptyList DEF OrderlyInv, MembershipConsistent, OnChannel
<1>3. \A c \in Chan : chan'[c].oper \in SUBSET Fd
  BY DEF StructInv, TypeOK, ChannelState
<1>. QED
  BY <1>1, <1>2, <1>3, MapsDisconnect
-----------------------------------------------------------------------------
LEMMA InitMaps == Init => Promise!Init
<1>1. Members(NewChannel) = {} /\ NewChannel.oper = {}
  BY NewChannelType DEF NewChannel
<1>2. Init => \A c \in Chan : chan[c] = NewChannel
  BY DEF Init
<1>3. Init => \A c \in Chan : Members(chan[c]) = {} /\ chan[c].oper = {}
  BY <1>1, <1>2
<1>. QED
  BY <1>3 DEF Init, Promise!Init

LEMMA StepMaps == OrderlyInv /\ [OrderlyNext]_vars => [Promise!Next]_Promise!vars
<1>. SUFFICES ASSUME OrderlyInv, [OrderlyNext]_vars
              PROVE  Promise!Next \/ UNCHANGED Promise!vars
  OBVIOUS
<1>0. StructInv'
  BY OrderlyStep DEF OrderlyInv
<1>1. ASSUME NEW f \in Fd, Accept(f)
      PROVE  Promise!Next
  <2>1. f \notin clients /\ clients' = clients \cup {f} /\ SameSets
    BY <1>1 DEF Accept, SameSets
  <2>2. Promise!Connect(f)
    BY <2>1, MapsConnect
  <2>. QED
    BY <2>2 DEF Promise!Next
<1>2. ASSUME clients' = clients, SameSets
      PROVE  UNCHANGED Promise!vars
  BY <1>2, MapsStutter
<1>3. ASSUME NEW f \in Fd, NickCommand(f)
      PROVE  UNCHANGED Promise!vars
  BY <1>2, <1>3 DEF NickCommand, SameSets
<1>4. ASSUME NEW f \in Fd, JoinCommand(f) \/ PartCommand(f) \/ KickCommand(f)
      PROVE  Promise!Next
  BY <1>4, JoinMaps, PartMaps, KickMaps DEF Promise!Next
<1>5. ASSUME NEW f \in Fd, InviteCommand(f) \/ TopicCommand(f)
      PROVE  UNCHANGED Promise!vars
  BY <1>2, <1>5, InviteMaps, TopicMaps
<1>6. ASSUME NEW f \in Fd, ModeCommand(f) \/ ModeCommandThrows(f)
      PROVE  Promise!Next \/ UNCHANGED Promise!vars
  BY <1>2, <1>6, ModeMaps DEF Promise!Next
<1>7. CASE OrderlyQuit \/ OrderlyReject
  BY <1>0, <1>7, QuitMaps, RejectMaps DEF OrderlyQuit, OrderlyReject, Promise!Next
<1>8. CASE UNCHANGED vars
  BY <1>2, <1>8 DEF vars, SameSets
<1>. QED
  BY <1>1, <1>3, <1>4, <1>5, <1>6, <1>7, <1>8 DEF OrderlyNext, CommonNext

(* Descriptors, lists, modes and half-applied mode strings refine the      *)
(* rooms of Rooms: as long as clients are orderly, the sets the commands   *)
(* keep change only as people connect, enter, leave, are evicted, are      *)
(* promoted or disconnect there.                                           *)
THEOREM RoomsImplemented == OrderlySpec => RoomsPromise
<1>1. Init => Promise!Init
  BY InitMaps
<1>2. OrderlyInv /\ [OrderlyNext]_vars => [Promise!Next]_Promise!vars
  BY StepMaps
<1>. QED
  BY <1>1, <1>2, OrderlyInvHolds, PTL DEF OrderlySpec, RoomsPromise, Promise!Spec
=============================================================================
