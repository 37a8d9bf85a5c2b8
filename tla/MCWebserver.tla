---------------------------- MODULE MCWebserver -----------------------------
(***************************************************************************)
(* Instances of the web servers for TLC; a behaviour is one of the build   *)
(* it starts with.  "RP2040" is Webserver: a slot that is free again goes  *)
(* to the next connection while its last one may still be ending.          *)
(* "ESP32" is WebsocketSessions; "oneSocket" is too, with a single file    *)
(* descriptor, which every console gets in its turn, and room for one      *)
(* session.  The variables of the other build keep their initial values.   *)
(***************************************************************************)
EXTENDS Webserver, WebsocketSessions, TLC

CONSTANT Builds

ASSUME MCWebserverAssumption ==
    WebsocketSessionsAssumption /\ Builds \subseteq {"RP2040", "ESP32", "oneSocket"}

VARIABLE build

mcVars == <<build, vars, sessionsVars>>

One == INSTANCE WebsocketSessions WITH
    Fd <- {1}, Monitors <- {}, MaxSockets <- 1, MaxFrames <- 2, MaxLines <- 2

\* The step A of Webserver, B of WebsocketSessions, C of its second instance.
OfBuild(A, B, C) ==
    /\ \/ build = "RP2040" /\ A /\ UNCHANGED sessionsVars
       \/ build = "ESP32" /\ B /\ UNCHANGED vars
       \/ build = "oneSocket" /\ C /\ UNCHANGED vars
    /\ UNCHANGED build

MCInit ==
    /\ build \in Builds /\ Init
    /\ IF build = "oneSocket" THEN One!SessionsInit ELSE SessionsInit

MCSpec == MCInit /\ [][OfBuild(Next, SessionsNext, One!SessionsNext)]_mcVars

(* The fairness of Webserver or of WebsocketSessions, for the build at     *)
(* hand: that of the loop task is stated once with each connection.        *)
MCFairness ==
    /\ \A p \in Pcb : WF_mcVars(OfBuild(Poll(p), LoopTask, One!LoopTask))
    /\ WF_mcVars(OfBuild(FALSE, HttpdUpgrades, One!HttpdUpgrades))

MCFairSpec == MCSpec /\ MCFairness

\* The type invariant of the sessions (SessionsTypeOK), and in the second
\* instance its own limit.
MCTypeOK ==
    IF build = "oneSocket" THEN One!SessionsTypeOK /\ One!ClientsAreSessions
    ELSE SessionsTypeOK
=============================================================================
