----------------------------- MODULE MCBotView -----------------------------
(***************************************************************************)
(* A finite instance of BotView: two clients, one with a smaller and one   *)
(* with a greater descriptor than the bot, and two nicknames, which either *)
(* can take when the other has given it up.                                *)
(***************************************************************************)
EXTENDS BotView, TLC

Fds == {1, 2, 3}
Keys == {NoKey}
Topics == {NoTopic}
Symmetric == Permutations(Name)
=============================================================================
