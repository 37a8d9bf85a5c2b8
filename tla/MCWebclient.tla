----------------------------- MODULE MCWebclient ----------------------------
(***************************************************************************)
(* Instances of the web client for TLC.  class Handler is compiled for one *)
(* platform: a behaviour is one of the build it starts with.  "ESP32" is   *)
(* the worker task, "RP2040" the instance of the configuration, "twoSlots" *)
(* a smaller one of the same module with two slots.                        *)
(***************************************************************************)
EXTENDS WebclientTask, TLC

CONSTANTS
    Builds,   \* the builds a run is about
    Slots, Urls, Ssl, Segments, StartFaults, FrontFails, MaxDepth \* RP2040

VARIABLES build, slots, tcp, pending, dns, due, started

One == INSTANCE Webclient

Two == INSTANCE Webclient WITH
    Slots <- 2, Urls <- {"name"}, Ssl <- {FALSE}, Segments <- {"nobody"},
    StartFaults <- {"connect"}, FrontFails <- FALSE

ASSUME MCWebclientAssumption ==
    /\ One!WebclientAssumption /\ Two!WebclientAssumption
    /\ Builds \subseteq {"RP2040", "twoSlots", "ESP32"}

rpOnly   == <<slots, tcp, pending, dns, due, started>>
taskOnly == <<requests, results, callbacks, capacity, worker, read, got, cut>>

MCInit ==
    /\ build \in Builds /\ Init
    /\ IF build = "twoSlots" THEN Two!Init ELSE One!Init

\* A step of the one build or the other.
OfBuild(A, B, C) ==
    /\ \/ build = "RP2040" /\ A /\ UNCHANGED taskOnly
       \/ build = "twoSlots" /\ B /\ UNCHANGED taskOnly
       \/ build = "ESP32" /\ C /\ UNCHANGED rpOnly
    /\ UNCHANGED build

\* Bound: with two slots one of the requests is never sent.
Spare == CHOOSE r \in Request : TRUE

MCNext == OfBuild(One!Next, Two!Next /\ url'[Spare] = "new", Next)

mcVars == <<build, vars, rpOnly>>

MCSpec == MCInit /\ [][MCNext]_mcVars

(* The fairness of the modules, each condition for the build at hand, and  *)
(* that of the slots for any of them instead of each.                      *)
MCFairness ==
    /\ WF_mcVars(OfBuild(One!Machinery, Two!Machinery, Main))
    /\ WF_mcVars(OfBuild(\E q \in dns : One!DnsAnswered(q),
                         \E q \in dns : Two!DnsAnswered(q), TaskRun))
    /\ WF_mcVars(OfBuild(One!Switches(TRUE), Two!Switches(TRUE), Switches(TRUE)))
    /\ SF_mcVars(OfBuild(\E i \in One!Slot : One!Timeout(i),
                         \E i \in Two!Slot : Two!Timeout(i), Receive))
    /\ WF_mcVars(OfBuild(\E i \in One!Slot : One!TimeElapses(i),
                         \E i \in Two!Slot : Two!TimeElapses(i), FALSE))

MCFairSpec == MCSpec /\ MCFairness

\* The type invariant of the build.
MCTypeOK ==
    CASE build = "RP2040" -> One!TypeOK
      [] build = "twoSlots" -> Two!TypeOK
      [] build = "ESP32" -> TypeOK

\* RP2040: each onDone is in one place or was called once (OneCallback).
MCOneCallback ==
    /\ build = "RP2040" => One!OneCallback
    /\ build = "twoSlots" => Two!OneCallback

\* RP2040: what a slot owns fits its state (SlotOwnership).
MCSlotOwnership ==
    /\ build = "RP2040" => One!SlotOwnership
    /\ build = "twoSlots" => Two!SlotOwnership

\* RP2040: a request that cannot start just fails, once (FailsOnce).
FailsOnce == One!FailsOnce

\* Both builds implement WebRequests: every request sent has its onDone called
\* once.
MCImplementsPromise == Promised!Spec
=============================================================================
