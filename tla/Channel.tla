------------------------------ MODULE Channel ------------------------------
(***************************************************************************)
(* One channel: the fields of class Channel and its operations             *)
(* (src/src/Channel.cpp), as operators on a record.  The two sets of       *)
(* members hold socket descriptors, ordered as numbers: std::set iterates  *)
(* from the smallest.  The display-only mode 's', the creation time and    *)
(* the text of every reply are left out.                                   *)
(***************************************************************************)
EXTENDS Integers, FiniteSets, FiniteSetsExt

CONSTANTS
  Fd,        \* descriptors the kernel hands out
  Key,       \* channel passwords, the empty one included
  NoKey,     \* the empty password
  Limit,     \* numbers a +l parameter can parse to
  Unset,     \* the indeterminate value of a fresh Channel::_limit
  Topic,     \* topics, the empty one included
  NoTopic    \* the empty topic

ASSUME ChannelConstants ==
  /\ Fd \subseteq Nat \ {0}
  /\ Limit \subseteq Nat
  /\ Unset \notin Nat
  /\ NoKey \in Key
  /\ NoTopic \in Topic

(* A process has a bounded number of descriptors. *)
ASSUME DescriptorsFinite == IsFiniteSet(Fd)

Flags == {"i", "t", "k", "l"}          \* modes a channel can have
Letters == Flags \cup {"o"}            \* modes MODE accepts

ChannelState ==
  [users  : SUBSET Fd,
   oper   : SUBSET Fd,
   invite : SUBSET Fd,
   mode   : SUBSET Flags,
   limit  : Limit \cup {Unset},
   passwd : Key,
   topic  : Topic]

(* Channel::Channel: _limit has no initialiser. *)
NewChannel ==
  [users |-> {}, oper |-> {}, invite |-> {}, mode |-> {},
   limit |-> Unset, passwd |-> NoKey, topic |-> NoTopic]

Members(ch) == ch.users \cup ch.oper

IsEmpty(ch) == ch.users = {} /\ ch.oper = {}
-----------------------------------------------------------------------------
(* Mutant of Admits: the limit test is off by one. *)
AdmitsOneTooMany(ch, f, key) ==
  /\ f \notin Members(ch)
  /\ "l" \in ch.mode => Cardinality(Members(ch)) <= ch.limit
  /\ "i" \in ch.mode => "k" \in ch.mode /\ f \in ch.invite
  /\ "k" \in ch.mode => key = ch.passwd

(***************************************************************************)
(* The cascade of Channel::addUser with joinWithInvite and                 *)
(* joinWithPassword.  On a +i channel without +k nobody is admitted: the   *)
(* condition calls joinWithInvite only when 'k' is set as well.            *)
(***************************************************************************)
Admits(ch, f, key) ==
  /\ f \notin Members(ch)
  /\ "l" \in ch.mode => Cardinality(ch.users) + Cardinality(ch.oper) < ch.limit
  /\ "i" \in ch.mode => "k" \in ch.mode /\ f \in ch.invite
  /\ "k" \in ch.mode => key = ch.passwd

(* Mutant of AddUser: whoever passes is an operator. *)
AddUserAsOperator(ch, f) == [ch EXCEPT !.oper = @ \cup {f}]

(* The founder becomes operator, everybody else a plain user.  The paths   *)
(* that Admits leaves open never erase the invitation.                     *)
AddUser(ch, f) ==
  IF IsEmpty(ch) THEN [ch EXCEPT !.oper = {f}]
                 ELSE [ch EXCEPT !.users = @ \cup {f}]

(* Mutants of RemoveUser: nobody succeeds the last operator; the successor *)
(* stays in _users as well.                                                *)
RemoveUserNoHeir(ch, f) ==
  [ch EXCEPT !.users = @ \ {f}, !.oper = @ \ {f}]
RemoveUserCopiesHeir(ch, f) ==
  IF ch.oper = {f} /\ f \notin ch.users /\ ch.users # {}
  THEN [ch EXCEPT !.oper = {Min(ch.users)}]
  ELSE [ch EXCEPT !.users = @ \ {f}, !.oper = @ \ {f}]

(* Channel::removeUser: when the last operator leaves, the first user (the *)
(* smallest descriptor) takes over.                                        *)
RemoveUser(ch, f) ==
  IF f \in ch.users THEN [ch EXCEPT !.users = @ \ {f}]
  ELSE IF ch.oper = {f} /\ ch.users # {}
       THEN [ch EXCEPT !.oper = {Min(ch.users)}, !.users = @ \ {Min(ch.users)}]
       ELSE [ch EXCEPT !.oper = @ \ {f}]

(* ... and when there is no user either, the channel is taken off the map. *)
Vacated(ch, f) == ch.oper = {f} /\ ch.users = {}

(* Channel::kick, once both membership tests have passed. *)
KickUser(ch, f) == [ch EXCEPT !.users = @ \ {f}]

(* Channel::invite. *)
InviteUser(ch, f) == [ch EXCEPT !.invite = @ \cup {f}]
-----------------------------------------------------------------------------
(* Mutant of MakeOperator: the set is assigned instead of extended. *)
MakeOperatorAlone(ch, f) == [ch EXCEPT !.users = @ \ {f}, !.oper = {f}]

(* Channel::makeOperator, once the nick is found in _users. *)
MakeOperator(ch, f) ==
  [ch EXCEPT !.users = @ \ {f}, !.oper = @ \cup {f}]

(* Mutant of WithArgs: the number is not stored. *)
WithArgsNoLimit(ch, letters, key, lim) ==
  [ch EXCEPT !.passwd = IF "k" \in letters THEN key ELSE @]

(* Channel::setPassword and Channel::setLimit for the letters enabled. *)
WithArgs(ch, letters, key, lim) ==
  [ch EXCEPT !.passwd = IF "k" \in letters THEN key ELSE @,
             !.limit  = IF "l" \in letters THEN lim ELSE @]

(* Mutant of WithFlags: 'o' is stored like any other letter. *)
WithFlagsAll(ch, on, off) ==
  [ch EXCEPT !.mode   = (@ \cup on) \ off,
             !.invite = IF "i" \in off THEN {} ELSE @]

(* Channel::setMode(on) followed by Channel::unsetMode(off). *)
WithFlags(ch, on, off) ==
  [ch EXCEPT !.mode   = (@ \cup (on \ {"o"})) \ off,
             !.invite = IF "i" \in off THEN {} ELSE @]

(* Channel::setTopic. *)
SetTopic(ch, topic) == [ch EXCEPT !.topic = topic]
=============================================================================
