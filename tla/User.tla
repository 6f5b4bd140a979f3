-------------------------------- MODULE User --------------------------------
(***************************************************************************)
(* The channel list of one connected client: User::_channels, a vector of  *)
(* Channel pointers (src/src/User.cpp).  A pointer is represented by the   *)
(* name of the channel it was taken from; whether that channel still       *)
(* exists is a question about the server's channel map (module             *)
(* ChannelServer, NoDanglingChannel).                                      *)
(*                                                                         *)
(* Every operator below is a function of the list alone.                   *)
(***************************************************************************)
EXTENDS Naturals, SequencesExt

(* The channels in the list, in no order. *)
Listed(list) == ToSet(list)

(* User::join appends the pointer; the caller has checked membership. *)
JoinList(list, c) == Append(list, c)

(* Mutant of ExitChannel: the newest entry is erased, whatever its name. *)
ExitNewest(list, c) == SubSeq(list, 1, Len(list) - 1)

(***************************************************************************)
(* User::exitChannel erases the first pointer whose channel has the name.  *)
(* The loop has no bound other than a null pointer, so it may only be      *)
(* called for a channel that is in the list.                               *)
(***************************************************************************)
ExitChannel(list, c) == RemoveFirst(list, c)

(* What is left of the list when it is called for another channel and the  *)
(* server survives the reads past the end: it stops at a null word, or it  *)
(* finds a stale pointer there, "erases" it and so drops the last entry.   *)
StrayExits(list) == {list, SubSeq(list, 1, Len(list) - 1)}

(* Mutant of QuitVisited: the left-over words are not reached. *)
QuitVisitsOdd(list) == { list[i] : i \in { j \in DOMAIN list : j % 2 = 1 } }

(***************************************************************************)
(* User::quit walks its own vector with a range-for while Channel::        *)
(* removeUser erases from that vector, so the walk skips entries: it       *)
(* reaches the odd positions, and, through the slots past the new end      *)
(* which still hold the old last pointer, the last one.  Module QuitLoop   *)
(* derives this from the vector's memory, step by step.                    *)
(***************************************************************************)
QuitVisited(list) ==
  { list[i] : i \in { j \in DOMAIN list : j % 2 = 1 \/ j = Len(list) } }

(* Mutant of QuitRereads: the walk over two channels re-reads as well. *)
QuitRereadsPairs(list) == Len(list) >= 2

(* Does the walk read the last pointer again after removing it?            *)
QuitRereads(list) == Len(list) >= 3
=============================================================================
