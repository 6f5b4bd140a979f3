---------------------------- MODULE MCEventLoop ----------------------------
(***************************************************************************)
(* Finite instances of EventLoop for TLC: two or three connections, and    *)
(* peers that do or do not quit.                                           *)
(***************************************************************************)
EXTENDS EventLoop

Fd2 == 1 .. 2
Fd3 == 1 .. 3
NoQuit == {"other"}
WithQuit == {"quit", "other"}
=============================================================================
