------------------------------ MODULE QuitLoop ------------------------------
(***************************************************************************)
(* User::quit, one loop iteration at a time, in the memory of the vector   *)
(* it walks.  The range-for fixed its end before the first iteration, and  *)
(* each Channel::removeUser it calls erases the channel from the same      *)
(* vector (User::exitChannel), so the elements move under the walk.  At    *)
(* the end the walk has done what module User says in two operators,       *)
(* QuitVisited and QuitRereads, which is all ChannelServer uses.           *)
(*                                                                         *)
(* Channels are numbered in the order in which the client joined them.     *)
(***************************************************************************)
EXTENDS User

CONSTANT MaxChannels   \* bound on the number of channels of the client

ASSUME QuitLoopConstants == MaxChannels \in Nat

VARIABLES
  list,    \* User::_channels when QUIT arrives
  mem,     \* its words of memory; those past size are left-overs
  size,    \* _channels.size()
  next,    \* the word the range-for reads next
  shared,  \* the channels that have other members
  left,    \* the channels removeUser has taken the client out of
  stray    \* removeUser was called on a destroyed channel

vars == <<list, mem, size, next, shared, left, stray>>

Init ==
  /\ \E n \in 0 .. MaxChannels : list = [i \in 1 .. n |-> i]
  /\ mem = list
  /\ size = Len(list)
  /\ next = 1
  /\ shared \in SUBSET Listed(list)
  /\ left = {}
  /\ stray = FALSE

(* Mutant of Erased: the element itself stays, what follows it moves. *)
ErasedBehind(i) == [k \in DOMAIN mem |-> IF i < k /\ k < size THEN mem[k + 1] ELSE mem[k]]

(* Mutant of Erased: the memory ends with the vector. *)
ErasedShrunk(i) == [k \in 1 .. size - 1 |-> IF i <= k THEN mem[k + 1] ELSE mem[k]]

(* std::vector::erase: the tail moves down by one word, and the word that  *)
(* was last keeps its content.                                             *)
Erased(i) == [k \in DOMAIN mem |-> IF i <= k /\ k < size THEN mem[k + 1] ELSE mem[k]]

(* A channel that the client was the last member of does not exist once    *)
(* the client has been taken out.                                          *)
Destroyed(c) == c \in left /\ c \notin shared

Reading == next <= Len(list)

(* removeUser on a channel the client is in. *)
LeaveChannel ==
  /\ Reading
  /\ mem[next] \notin left
  /\ \E i \in 1 .. size :
       /\ mem[i] = mem[next]
       /\ \A k \in 1 .. i - 1 : mem[k] # mem[next]
       /\ mem' = Erased(i)
  /\ size' = size - 1
  /\ left' = left \cup {mem[next]}
  /\ next' = next + 1
  /\ UNCHANGED <<list, shared, stray>>

(* removeUser on a channel the client has been taken out of: an early      *)
(* return if the channel still exists, a use after free otherwise.         *)
Reread ==
  /\ Reading
  /\ mem[next] \in left
  /\ stray' = (stray \/ Destroyed(mem[next]))
  /\ next' = next + 1
  /\ UNCHANGED <<list, mem, size, shared, left>>

Next == LeaveChannel \/ Reread

Spec == Init /\ [][Next]_vars
-----------------------------------------------------------------------------
(* The words and the indices stay within the memory the vector had when    *)
(* the walk began, however much of it exitChannel has erased since.        *)
TypeOK ==
  /\ mem \in Seq(1 .. MaxChannels) /\ Len(mem) = Len(list)
  /\ size \in 0 .. Len(list)
  /\ next \in 1 .. Len(list) + 1
  /\ shared \subseteq Listed(list) /\ left \subseteq Listed(list)
  /\ stray \in BOOLEAN

(* The words of the vector in use are the channels not yet left, in the    *)
(* order of joining: what getChannel and exitChannel would find.           *)
ListIsRemainder ==
  /\ { mem[i] : i \in 1 .. size } = Listed(list) \ left
  /\ \A i, j \in 1 .. size : i < j => mem[i] < mem[j]

(* When the walk is over it has taken the client out of exactly the        *)
(* channels QuitVisited names, and removeClient destroys the list with the *)
(* others still in it.                                                     *)
WalkVisits == ~ Reading => left = QuitVisited(list)

(* It calls removeUser on a destroyed channel exactly if it re-reads the   *)
(* last pointer and the client was alone there.                            *)
WalkStrays ==
  ~ Reading => (stray <=> QuitRereads(list) /\ Last(list) \notin shared)
=============================================================================
