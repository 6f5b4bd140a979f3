-------------------------- MODULE MCChannelServer --------------------------
(***************************************************************************)
(* Finite instances of ChannelServer for TLC.  A descriptor is a small     *)
(* number; every set of mode strings below is one of the ModeReqs the      *)
(* configurations choose from.                                             *)
(***************************************************************************)
EXTENDS ChannelServer

(* A mode string without +o, and one in which the letters early precede it. *)
Plain(on, off) == [on |-> on, off |-> off, early |-> {}]
WithO(on, early) == [on |-> on \cup {"o"}, off |-> {}, early |-> early]

(* Only +o: for questions about membership. *)
OnlyPromote == { WithO({}, {}) }

(* Every mode, in strings of several letters: +itk, -it, +l, -kl, and the  *)
(* ones with a parameter after and before +o.                              *)
AllModes ==
  { Plain({"i", "t", "k"}, {}), Plain({}, {"i", "t"}),
    Plain({"l"}, {}), Plain({}, {"k", "l"}),
    WithO({"k", "l"}, {}), WithO({"k", "l"}, {"k", "l"}) }

(* The channels and the nicknames are interchangeable. *)
Symmetric == Permutations(Chan) \cup Permutations(Nick)

(* Clients never send a wrong password from inside a channel; they may quit *)
(* from any number of channels.                                            *)
QuitNext == CommonNext \/ OrderlyReject \/ \E f \in Fd : QuitCommand(f)
QuitSpec == Init /\ [][QuitNext]_vars

(* Clients that do everything but crash the server with WHO; what they can *)
(* reach is what Spec can reach while it runs.                             *)
AliveNext == CommonNext \/ \E f \in Fd : QuitCommand(f) \/ Reject(f)
AliveSpec == Init /\ [][AliveNext]_vars

\* the first descriptors an accept can return, counted from one
Fd2 == 1 .. 2
Fd3 == 1 .. 3
=============================================================================
