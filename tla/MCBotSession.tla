---------------------------- MODULE MCBotSession ----------------------------
(***************************************************************************)
(* A finite instance of BotSession: two connections of the bot, made by a  *)
(* restart or a reconnect, and one other client, which may take one of the *)
(* two nicknames, so that none need be left.  That client never registers  *)
(* and joins no channel, which would only multiply the states, and leaves  *)
(* the wrong password and the name that is too long to the bot.            *)
(***************************************************************************)
EXTENDS BotSession

Connections == BotConn \cup Rival

OthersSend ==
  { Pass(Password) } \cup { Nick(n) : n \in 0 .. LastNick }
  \cup (Plain \ {Command("USER"), Command("JOIN")})
=============================================================================
