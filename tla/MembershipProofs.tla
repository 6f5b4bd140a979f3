-------------------------- MODULE MembershipProofs --------------------------
(***************************************************************************)
(* The two places where membership is kept, each by itself: what the       *)
(* operators of module Channel do to the sets of a channel, and what those *)
(* of module User do to the list of a client.                              *)
(***************************************************************************)
EXTENDS Channel, User, SequenceTheorems, WellFoundedInduction, TLAPS

(* Min of module FiniteSetsExt is defined on every non-empty set of        *)
(* naturals, finite or not.                                                *)
LEMMA MinElement ==
  ASSUME NEW S, S \subseteq Nat, S # {}
  PROVE  Min(S) \in S /\ \A y \in S : Min(S) <= y
<1>1. PICK x \in S : \A y \in S : ~ (<<y, x>> \in OpToRel(<, Nat))
  BY WFMin, NatLessThanWellFounded
<1>2. ASSUME NEW y \in S
      PROVE  x <= y
  <2>1. x \in Nat /\ y \in Nat
    OBVIOUS
  <2>2. ~ (y < x)
    <3>1. y < x => <<y, x>> \in OpToRel(<, Nat)
      BY <2>1 DEF OpToRel
    <3>. QED  BY <3>1, <1>1, Zenon
  <2>. QED  BY <2>1, <2>2
<1>. QED
  BY <1>2 DEF Min

(* A channel on the map: one operator at least, nobody in both sets, and a *)
(* limit whenever there is to be one.                                      *)
Sound(ch) ==
  /\ ch \in ChannelState
  /\ ch.users \cap ch.oper = {}
  /\ ch.oper # {}
  /\ "l" \in ch.mode => ch.limit # Unset
-----------------------------------------------------------------------------
(* The operations of class Channel, one lemma each: they keep a channel    *)
(* sound, and what they do to the set of its members.                      *)

LEMMA NewChannelType ==
  /\ NewChannel \in ChannelState
  /\ Members(NewChannel) = {}
  /\ IsEmpty(NewChannel)
BY ChannelConstants DEF NewChannel, ChannelState, Members, IsEmpty

(* addUser: the founder is an operator, and the others find one there. *)
LEMMA AddUserSound ==
  ASSUME NEW ch, NEW f \in Fd, ch = NewChannel \/ Sound(ch), f \notin Members(ch)
  PROVE  Sound(AddUser(ch, f)) /\ Members(AddUser(ch, f)) = Members(ch) \cup {f}
<1>1. CASE ch = NewChannel
  <2>1. AddUser(ch, f) = [ch EXCEPT !.oper = {f}]
    BY <1>1, NewChannelType DEF AddUser
  <2>2. ch \in ChannelState /\ ch.users = {} /\ ch.mode = {}
    BY <1>1, NewChannelType DEF NewChannel
  <2>3. {f} \in SUBSET Fd
    OBVIOUS
  <2>4. /\ AddUser(ch, f) \in ChannelState
        /\ AddUser(ch, f).oper = {f}
        /\ AddUser(ch, f).users = {} /\ AddUser(ch, f).mode = {}
    BY <2>1, <2>2, <2>3 DEF ChannelState
  <2>. QED
    BY <1>1, <2>4, NewChannelType DEF Sound, Members
<1>2. CASE Sound(ch)
  <2>1. AddUser(ch, f) = [ch EXCEPT !.users = ch.users \cup {f}]
    BY <1>2 DEF AddUser, IsEmpty, Sound
  <2>. QED
    BY <1>2, <2>1 DEF Sound, ChannelState, Members
<1>. QED
  BY <1>1, <1>2

(* removeUser: when the last operator leaves, a user takes over. *)
LEMMA RemoveUserSound ==
  ASSUME NEW ch, NEW f \in Fd, Sound(ch), ~ Vacated(ch, f)
  PROVE  Sound(RemoveUser(ch, f)) /\ Members(RemoveUser(ch, f)) = Members(ch) \ {f}
<1>1. CASE f \in ch.users
  <2>1. RemoveUser(ch, f) = [ch EXCEPT !.users = ch.users \ {f}]
    BY <1>1 DEF RemoveUser
  <2>. QED
    BY <1>1, <2>1 DEF Sound, ChannelState, Members
<1>2. CASE f \notin ch.users /\ ch.oper = {f}
  <2>. DEFINE heir == Min(ch.users)
  <2>1. ch.users # {} /\ ch.users \subseteq Nat
    BY <1>2, ChannelConstants DEF Vacated, Sound, ChannelState
  <2>2. heir \in ch.users
    BY <2>1, MinElement
  <2>3. RemoveUser(ch, f) = [ch EXCEPT !.oper = {heir}, !.users = ch.users \ {heir}]
    BY <1>2, <2>1 DEF RemoveUser
  <2>. HIDE DEF heir
  <2>4. {heir} \in SUBSET Fd /\ ch.users \ {heir} \in SUBSET Fd
    BY <2>2 DEF Sound, ChannelState
  <2>5. /\ RemoveUser(ch, f) \in ChannelState
        /\ RemoveUser(ch, f).oper = {heir}
        /\ RemoveUser(ch, f).users = ch.users \ {heir}
        /\ RemoveUser(ch, f).mode = ch.mode
        /\ RemoveUser(ch, f).limit = ch.limit
    BY <2>3, <2>4 DEF Sound, ChannelState
  <2>. QED
    BY <1>2, <2>2, <2>5 DEF Sound, Members
<1>3. CASE f \notin ch.users /\ ch.oper # {f}
  <2>1. RemoveUser(ch, f) = [ch EXCEPT !.oper = ch.oper \ {f}]
    BY <1>3 DEF RemoveUser
  <2>2. ch.oper \ {f} # {}
    BY <1>3 DEF Sound
  <2>. QED
    BY <1>3, <2>1, <2>2 DEF Sound, ChannelState, Members
<1>. QED
  BY <1>1, <1>2, <1>3

LEMMA KickUserSound ==
  ASSUME NEW ch, NEW g \in ch.users, Sound(ch)
  PROVE  Sound(KickUser(ch, g)) /\ Members(KickUser(ch, g)) = Members(ch) \ {g}
BY DEF KickUser, Sound, ChannelState, Members

LEMMA InviteUserSound ==
  ASSUME NEW ch, NEW g \in Fd, Sound(ch)
  PROVE  Sound(InviteUser(ch, g)) /\ Members(InviteUser(ch, g)) = Members(ch)
BY DEF InviteUser, Sound, ChannelState, Members

LEMMA SetTopicSound ==
  ASSUME NEW ch, NEW topic \in Topic, Sound(ch)
  PROVE  Sound(SetTopic(ch, topic)) /\ Members(SetTopic(ch, topic)) = Members(ch)
BY DEF SetTopic, Sound, ChannelState, Members

LEMMA MakeOperatorSound ==
  ASSUME NEW ch, NEW g \in ch.users, Sound(ch)
  PROVE  /\ Sound(MakeOperator(ch, g)) /\ Members(MakeOperator(ch, g)) = Members(ch)
         /\ ch.oper \subseteq MakeOperator(ch, g).oper
BY DEF MakeOperator, Sound, ChannelState, Members

(* What removeUser leaves, and who succeeds. *)
LEMMA RemoveUserSets ==
  ASSUME NEW ch, Sound(ch), NEW f \in Members(ch), ~ Vacated(ch, f)
  PROVE  /\ Members(RemoveUser(ch, f)) = Members(ch) \ {f}
         /\ RemoveUser(ch, f).mode = ch.mode /\ RemoveUser(ch, f).limit = ch.limit
         /\ RemoveUser(ch, f).passwd = ch.passwd /\ RemoveUser(ch, f).topic = ch.topic
         /\ \/ RemoveUser(ch, f).oper = ch.oper \ {f}
            \/ ch.oper = {f} /\ \E heir \in ch.users : RemoveUser(ch, f).oper = {heir}
<1>1. f \in Fd /\ ch \in ChannelState
  BY DEF Sound, ChannelState, Members
<1>2. Members(RemoveUser(ch, f)) = Members(ch) \ {f}
  BY <1>1, RemoveUserSound
<1>3. CASE f \in ch.users
  BY <1>1, <1>2, <1>3 DEF RemoveUser, ChannelState, Sound
<1>4. CASE f \notin ch.users /\ ch.oper = {f} /\ ch.users # {}
  <2>. DEFINE heir == Min(ch.users)
  <2>1. heir \in ch.users
    BY <1>1, <1>4, MinElement, ChannelConstants DEF ChannelState
  <2>2. RemoveUser(ch, f) = [ch EXCEPT !.oper = {heir}, !.users = ch.users \ {heir}]
    BY <1>4 DEF RemoveUser
  <2>. HIDE DEF heir
  <2>. QED
    BY <1>1, <1>2, <1>4, <2>1, <2>2 DEF ChannelState
<1>5. CASE f \notin ch.users /\ ~ (ch.oper = {f} /\ ch.users # {})
  BY <1>1, <1>2, <1>5 DEF RemoveUser, ChannelState
<1>. QED
  BY <1>3, <1>4, <1>5

(* The founder aside, who joins is a user, and nothing else changes. *)
LEMMA JoinSets ==
  ASSUME NEW ch, Sound(ch), NEW f \in Fd
  PROVE  /\ AddUser(ch, f).users = ch.users \cup {f} /\ AddUser(ch, f).oper = ch.oper
         /\ AddUser(ch, f).mode = ch.mode /\ AddUser(ch, f).limit = ch.limit
         /\ AddUser(ch, f).passwd = ch.passwd /\ AddUser(ch, f).topic = ch.topic
BY DEF AddUser, IsEmpty, Sound, ChannelState
-----------------------------------------------------------------------------
(* User::join lists one channel more. *)
LEMMA JoinListEffect ==
  ASSUME NEW C, NEW list \in Seq(C), NEW c \in C
  PROVE  /\ JoinList(list, c) \in Seq(C)
         /\ Listed(JoinList(list, c)) = Listed(list) \cup {c}
         /\ IsInjective(list) /\ c \notin Listed(list)
              => IsInjective(JoinList(list, c))
<1>. DEFINE new == JoinList(list, c)
<1>1. /\ new \in Seq(C)
      /\ Len(new) = Len(list) + 1
      /\ \A i \in 1 .. Len(list) : new[i] = list[i]
      /\ new[Len(list) + 1] = c
  BY AppendProperties DEF JoinList
<1>2. /\ Len(list) \in Nat
      /\ DOMAIN list = 1 .. Len(list)
      /\ DOMAIN new = 1 .. Len(list) + 1
  BY <1>1, LenProperties
<1>. HIDE DEF new
<1>3. Listed(new) = Listed(list) \cup {c}
  BY <1>1, <1>2 DEF Listed, ToSet
<1>4. ASSUME IsInjective(list), c \notin Listed(list)
      PROVE  IsInjective(new)
  BY <1>1, <1>2, <1>4 DEF Listed, ToSet, IsInjective
<1>. QED
  BY <1>1, <1>3, <1>4 DEF new

(* What RemoveAt keeps: every entry but one, in order. *)
LEMMA RemoveAtEffect ==
  ASSUME NEW C, NEW list \in Seq(C), NEW k \in 1 .. Len(list)
  PROVE  /\ RemoveAt(list, k) \in Seq(C)
         /\ Len(RemoveAt(list, k)) = Len(list) - 1
         /\ \A i \in 1 .. Len(list) - 1 :
              RemoveAt(list, k)[i] = IF i < k THEN list[i] ELSE list[i + 1]
<1>. DEFINE pre == SubSeq(list, 1, k - 1)
            post == SubSeq(list, k + 1, Len(list))
<1>1. Len(list) \in Nat /\ \A i \in 1 .. Len(list) : list[i] \in C
  BY LenProperties, ElementOfSeq
<1>2. /\ pre \in Seq(C)
      /\ Len(pre) = k - 1
      /\ \A i \in 1 .. k - 1 : pre[i] = list[i]
  <2>1. \A i \in 1 .. k - 1 : list[i] \in C
    BY <1>1
  <2>2. /\ pre \in Seq(C)
        /\ Len(pre) = IF 1 <= k - 1 THEN (k - 1) - 1 + 1 ELSE 0
        /\ \A i \in 1 .. (k - 1) - 1 + 1 : pre[i] = list[1 + i - 1]
    BY <2>1, <1>1, SubSeqProperties
  <2>. HIDE DEF pre
  <2>. QED  BY <2>2, <1>1
<1>3. /\ post \in Seq(C)
      /\ Len(post) = Len(list) - k
      /\ \A i \in 1 .. Len(list) - k : post[i] = list[k + i]
  <2>1. \A i \in k + 1 .. Len(list) : list[i] \in C
    BY <1>1
  <2>2. /\ post \in Seq(C)
        /\ Len(post) = IF k + 1 <= Len(list) THEN Len(list) - (k + 1) + 1 ELSE 0
        /\ \A i \in 1 .. Len(list) - (k + 1) + 1 : post[i] = list[(k + 1) + i - 1]
    BY <2>1, <1>1, SubSeqProperties
  <2>. HIDE DEF post
  <2>3. \A i \in 1 .. Len(list) - k : (k + 1) + i - 1 = k + i
    BY <1>1
  <2>. QED  BY <2>2, <2>3, <1>1
<1>. HIDE DEF pre, post
<1>4. /\ pre \o post \in Seq(C)
      /\ Len(pre \o post) = Len(pre) + Len(post)
      /\ \A i \in 1 .. Len(pre) + Len(post) :
           (pre \o post)[i] = IF i <= Len(pre) THEN pre[i] ELSE post[i - Len(pre)]
  BY <1>2, <1>3, ConcatProperties
<1>5. Len(pre) + Len(post) = Len(list) - 1
  BY <1>1, <1>2, <1>3
<1>6. ASSUME NEW i \in 1 .. Len(list) - 1
      PROVE  (pre \o post)[i] = IF i < k THEN list[i] ELSE list[i + 1]
  <2>1. CASE i < k
    BY <2>1, <1>1, <1>2, <1>4, <1>5
  <2>2. CASE ~ (i < k)
    <3>1. i - (k - 1) \in 1 .. Len(list) - k /\ k + (i - (k - 1)) = i + 1
      BY <2>2, <1>1
    <3>2. (pre \o post)[i] = post[i - Len(pre)]
      BY <2>2, <1>1, <1>2, <1>4, <1>5
    <3>3. post[i - (k - 1)] = list[k + (i - (k - 1))]
      BY <3>1, <1>3
    <3>. QED  BY <2>2, <3>1, <3>2, <3>3, <1>2
  <2>. QED  BY <2>1, <2>2
<1>. QED
  BY <1>4, <1>5, <1>6 DEF RemoveAt, pre, post

(* User::exitChannel unlists at most the channel it is called for, and     *)
(* exactly that one if the list has no duplicates.                         *)
LEMMA ExitChannelEffect ==
  ASSUME NEW C, NEW list \in Seq(C), NEW c
  PROVE  /\ ExitChannel(list, c) \in Seq(C)
         /\ Listed(ExitChannel(list, c)) \subseteq Listed(list)
         /\ IsInjective(list) => /\ IsInjective(ExitChannel(list, c))
                                 /\ Listed(ExitChannel(list, c)) = Listed(list) \ {c}
<1>. DEFINE I == { i \in 1 .. Len(list) : list[i] = c }
            new == ExitChannel(list, c)
<1>0. Len(list) \in Nat /\ DOMAIN list = 1 .. Len(list)
  BY LenProperties
<1>1. CASE I = {}
  <2>1. new = list
    BY <1>1 DEF ExitChannel, RemoveFirst
  <2>2. c \notin Listed(list)
    BY <1>0, <1>1 DEF Listed, ToSet
  <2>. QED  BY <2>1, <2>2
<1>2. CASE I # {}
  <2>. DEFINE k == Min(I)
  <2>1. k \in I
    <3>1. I \subseteq Nat
      BY <1>0
    <3>. QED  BY <3>1, <1>2, MinElement
  <2>2. new = RemoveAt(list, k)
    BY <1>2 DEF ExitChannel, RemoveFirst, SelectInSeq
  <2>. HIDE DEF k, new
  <2>3. k \in 1 .. Len(list) /\ list[k] = c
    BY <2>1
  <2>4. /\ new \in Seq(C)
        /\ Len(new) = Len(list) - 1
        /\ \A i \in 1 .. Len(list) - 1 : new[i] = IF i < k THEN list[i] ELSE list[i + 1]
    BY <2>2, <2>3, RemoveAtEffect
  <2>5. DOMAIN new = 1 .. Len(list) - 1
    BY <2>4, LenProperties
  <2>6. Listed(new) \subseteq Listed(list)
    BY <1>0, <2>3, <2>4, <2>5 DEF Listed, ToSet
  <2>7. ASSUME IsInjective(list)
        PROVE  IsInjective(new) /\ Listed(new) = Listed(list) \ {c}
    <3>1. IsInjective(new)
      <4>. DEFINE from(i) == IF i < k THEN i ELSE i + 1
      <4>1. \A i \in DOMAIN new : from(i) \in DOMAIN list /\ new[i] = list[from(i)]
        BY <1>0, <2>3, <2>4, <2>5
      <4>2. \A i, j \in DOMAIN new : from(i) = from(j) => i = j
        BY <1>0, <2>3, <2>5
      <4>. HIDE DEF from
      <4>. QED  BY <2>7, <4>1, <4>2 DEF IsInjective
    <3>2. c \notin Listed(new)
      BY <2>7, <1>0, <2>3, <2>4, <2>5 DEF IsInjective, Listed, ToSet
    <3>3. ASSUME NEW d \in Listed(list), d # c
          PROVE  d \in Listed(new)
      <4>1. PICK j \in 1 .. Len(list) : list[j] = d
        BY <1>0 DEF Listed, ToSet
      <4>2. j # k
        BY <4>1, <3>3, <2>3
      <4>3. CASE j < k
        <5>1. j \in 1 .. Len(list) - 1 /\ new[j] = d
          BY <4>1, <4>3, <1>0, <2>3, <2>4
        <5>. QED  BY <5>1, <2>5 DEF Listed, ToSet
      <4>4. CASE j > k
        <5>1. j - 1 \in 1 .. Len(list) - 1 /\ ~ (j - 1 < k) /\ (j - 1) + 1 = j
          BY <4>1, <4>4, <1>0, <2>3
        <5>2. new[j - 1] = d
          BY <5>1, <4>1, <2>4
        <5>. QED  BY <5>1, <5>2, <2>5 DEF Listed, ToSet
      <4>. QED  BY <4>1, <4>2, <4>3, <4>4, <1>0, <2>3
    <3>. QED  BY <3>1, <3>2, <3>3, <2>6
  <2>. QED  BY <2>4, <2>6, <2>7 DEF new
<1>. QED
  BY <1>1, <1>2

(* A call of exitChannel for a channel that is not listed can at worst     *)
(* unlist another one.                                                     *)
LEMMA StrayExitsEffect ==
  ASSUME NEW C, NEW list \in Seq(C), NEW new \in StrayExits(list)
  PROVE  /\ new \in Seq(C)
         /\ Listed(new) \subseteq Listed(list)
         /\ IsInjective(list) => IsInjective(new)
<1>0. Len(list) \in Nat /\ DOMAIN list = 1 .. Len(list)
      /\ \A i \in 1 .. Len(list) : list[i] \in C
  BY LenProperties, ElementOfSeq
<1>1. CASE new = list
  BY <1>1
<1>2. CASE new = SubSeq(list, 1, Len(list) - 1)
  <2>1. \A i \in 1 .. Len(list) - 1 : list[i] \in C
    BY <1>0
  <2>2. /\ new \in Seq(C)
        /\ Len(new) = IF 1 <= Len(list) - 1 THEN (Len(list) - 1) - 1 + 1 ELSE 0
        /\ \A i \in 1 .. (Len(list) - 1) - 1 + 1 : new[i] = list[1 + i - 1]
    BY <1>0, <1>2, <2>1, SubSeqProperties
  <2>3. DOMAIN new = 1 .. Len(new)
    BY <2>2, LenProperties
  <2>4. ASSUME NEW i \in DOMAIN new
        PROVE  i \in DOMAIN list /\ new[i] = list[i]
    <3>. DEFINE n == Len(list)
    <3>1. i \in 1 .. (IF 1 <= n - 1 THEN (n - 1) - 1 + 1 ELSE 0)
      BY <2>2, <2>3
    <3>2. n \in Nat
      BY <1>0
    <3>. HIDE DEF n
    <3>3. i \in 1 .. n /\ i \in 1 .. (n - 1) - 1 + 1 /\ 1 + i - 1 = i
      BY <3>1, <3>2
    <3>. QED  BY <3>3, <2>2, <1>0 DEF n
  <2>. QED
    BY <2>2, <2>4 DEF Listed, ToSet, IsInjective
<1>. QED
  BY <1>1, <1>2 DEF StrayExits

(* A walk over at most two channels reaches them all. *)
LEMMA ShortQuitVisitsAll ==
  ASSUME NEW C, NEW list \in Seq(C), Len(list) <= 2
  PROVE  QuitVisited(list) = Listed(list)
<1>1. Len(list) \in Nat /\ DOMAIN list = 1 .. Len(list)
  BY LenProperties
<1>2. \A j \in DOMAIN list : j = 1 \/ j = Len(list)
  BY <1>1
<1>3. 1 % 2 = 1
  OBVIOUS
<1>. QED
  BY <1>1, <1>2, <1>3 DEF QuitVisited, Listed, ToSet

(* Whatever the walk reaches was listed. *)
LEMMA QuitVisitsListed ==
  ASSUME NEW list
  PROVE  QuitVisited(list) \subseteq Listed(list)
BY DEF QuitVisited, Listed, ToSet
=============================================================================
