------------------------------- MODULE MCMqtt -------------------------------
(***************************************************************************)
(* The parts of MQTT below the queue for TLC; a behaviour is one of the    *)
(* part it starts with.  The receivers are scaled down: a byte stands for  *)
(* two of the code, so that the smallest packet is one byte long.          *)
(***************************************************************************)
EXTENDS MqttClient, MqttReceive, MqttBroker, TLC

CONSTANT Parts \* the parts a run is about

VARIABLE part

Setup(role, platform, bytes, atOnce, packets) ==
    [role |-> role, platform |-> platform, buf |-> bytes, burst |-> atOnce,
     sizes |-> packets]

\* The four receivers with packets that fit together with the bursts, packets
\* that fit without, and packets larger than the buffer; and the client on
\* RP2040 that gets more between two runs of the parse loop than fits behind
\* an incomplete packet.
Receivers == {
    Setup("client", "RP2040", 6, 4, {1, 4}),
    Setup("client", "ESP32",  6, 3, {1, 4, 5, 7}),
    Setup("client", "RP2040", 6, 2, {1, 2, 5}),
    Setup("broker", "ESP32",  4, 9, {1, 2, 4, 5}),
    Setup("broker", "RP2040", 6, 2, {1, 2, 5, 7}) }

ASSUME MCMqttAssumption == Parts \subseteq {"client", "receive", "broker"}

mcVars == <<part, vars, receiveVars, brokerVars>>

\* The other parts stay in one of their initial states.
FirstSetup == CHOOSE u \in Setups : TRUE
FirstClient == CHOOSE p \in Platforms : TRUE

MCInit ==
    /\ part \in Parts /\ Init /\ ReceiveInit /\ BrokerInit
    /\ part # "client" => c.platform = FirstClient
    /\ part # "receive" => setup = FirstSetup

\* A step of the one part or the other.
OfPart(A, B, C) ==
    /\ \/ part = "client" /\ A /\ UNCHANGED <<receiveVars, brokerVars>>
       \/ part = "receive" /\ B /\ UNCHANGED <<vars, brokerVars>>
       \/ part = "broker" /\ C /\ UNCHANGED <<vars, receiveVars>>
    /\ UNCHANGED part

MCSpec == MCInit /\ [][OfPart(Next, ReceiveNext, BrokerNext)]_mcVars

(* The fairness of the modules; the conditions of one part are those of    *)
(* another in the others' behaviours.                                      *)
Silent(s) == s \in gone /\ KeepAliveTimeout(s)

MCFairness ==
    /\ WF_mcVars(OfPart(Begin, Receive, FALSE))
    /\ WF_mcVars(OfPart(Loop, BrokerServices, FALSE))
    /\ WF_mcVars(OfPart(Callback, Parse \/ ParseGarbage \/ ParseEnds, FALSE))
    /\ WF_mcVars(OfPart(BrokerReads, FALSE, 1 \in Slot /\ Silent(1)))
    /\ WF_mcVars(OfPart(MemoryReturns, FALSE, 2 \in Slot /\ Silent(2)))
    /\ WF_mcVars(OfPart(TimerElapses, FALSE, FALSE))
    /\ WF_mcVars(OfPart(PingElapses, FALSE, FALSE))
    /\ WF_mcVars(OfPart(WaitElapses /\ Hopeless, FALSE, FALSE))

MCFairSpec == MCSpec /\ MCFairness

\* The type invariant of every part.
MCTypeOK == TypeOK /\ ReceiveTypeOK /\ BrokerTypeOK

\* The client is ready for good once failures end (EventuallySubscribed).
MCEventuallySubscribed == part = "client" => EventuallySubscribed
=============================================================================
