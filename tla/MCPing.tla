------------------------------- MODULE MCPing -------------------------------
(***************************************************************************)
(* Instances of Ping for TLC: two requests in two slots on each platform.  *)
(* A retry, or a ping from a callback, goes from one slot to the other or  *)
(* waits because both are taken, and late replies meet slots used again.   *)
(***************************************************************************)
EXTENDS Ping
=============================================================================
