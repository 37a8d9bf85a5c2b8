----------------------------- MODULE MqttBroker -----------------------------
(***************************************************************************)
(* MQTT/Broker.cpp: a few connection slots, the subscriptions of each, the *)
(* retained messages, and the routing of what clients and the device       *)
(* itself publish.  A filter is the set of topics it matches; a message is *)
(* its number, counted over the behaviour.  Packets arrive whole; which    *)
(* one comes next on a connection is chosen when loop() handles it.        *)
(***************************************************************************)
EXTENDS Integers, Sequences, FiniteSets

CONSTANTS
    MaxClients,  \* OPENKNX_MQTT_BROKER_MAX_CLIENTS
    MaxConnSubs, \* OPENKNX_MQTT_BROKER_MAX_SUBS
    MaxRetained, \* OPENKNX_MQTT_BROKER_MAX_RETAINED
    Topic,       \* topics
    Filter,      \* filters, each the set of topics it matches
    MaxRouted,   \* bound: messages published
    MaxDrops     \* bound: steps in which the send buffer refuses a message

ASSUME BrokerAssumption ==
    /\ MaxClients \in Nat \ {0}
    /\ MaxConnSubs \in Nat /\ MaxRetained \in Nat
    /\ Filter \subseteq SUBSET Topic
    /\ MaxRouted \in Nat /\ MaxDrops \in Nat

Slot == 1..MaxClients

VARIABLES
    conns,     \* _conns
    gone,      \* slots whose peer has fallen silent for good
    retained,  \* _retained, 0 where a topic has no entry
    n,         \* messages published so far
    drops,     \* steps in which a message was refused so far
    asked,     \* filters the client in a slot has subscribed to (ghost)
    seen,      \* of each slot and topic: the message it got last (ghost)
    missed,    \* slots that a message for them did not reach (ghost)
    last,      \* of each topic: the message published last (ghost)
    lastKept   \* of each topic: the retained message published last (ghost)

ghosts     == <<asked, seen, missed, last, lastKept>>
brokerVars == <<conns, gone, retained, n, drops, ghosts>>

Conn == {c \in [active : BOOLEAN, connected : BOOLEAN, keepAlive : BOOLEAN,
                subscriptions : SUBSET Filter] : c.connected => c.active}

Free == [active |-> FALSE, connected |-> FALSE, keepAlive |-> FALSE,
         subscriptions |-> {}]

BrokerInit ==
    /\ conns = [s \in Slot |-> Free]
    /\ gone = {}
    /\ retained = [t \in Topic |-> 0] /\ n = 0 /\ drops = 0
    /\ asked = [s \in Slot |-> {}]
    /\ seen = [s \in Slot |-> [t \in Topic |-> 0]] /\ missed = {}
    /\ last = [t \in Topic |-> 0] /\ lastKept = [t \in Topic |-> 0]

\* Some of the messages of this step may be refused by the send buffer.
Dropping(lost) ==
    drops' = (IF lost = {} THEN drops ELSE drops + 1) /\ drops' <= MaxDrops

-----------------------------------------------------------------------------
(* Connections.                                                            *)

FreeSlots == {s \in Slot : ~conns[s].active}

\* acceptNew(), lwipAccept(): the first free slot; without one the peer is
\* turned away.
Accept ==
    /\ FreeSlots # {}
    /\ LET s == CHOOSE s \in FreeSlots : \A r \in FreeSlots : s <= r IN
        /\ conns' = [conns EXCEPT ![s] = [@ EXCEPT !.active = TRUE,
                        !.connected = FALSE, !.subscriptions = {}]]
        /\ asked' = [asked EXCEPT ![s] = {}]
        /\ seen' = [seen EXCEPT ![s] = [t \in Topic |-> 0]]
        /\ missed' = missed \ {s}
    /\ UNCHANGED <<gone, retained, n, drops, last, lastKept>>

\* Mutant: the subscriptions stay.
CloseConnKeepsSubs(s) ==
    /\ conns' = [conns EXCEPT ![s] = [@ EXCEPT !.active = FALSE, !.connected = FALSE]]
    /\ gone' = gone \ {s}
    /\ UNCHANGED <<retained, n, drops, ghosts>>

\* closeConn().
CloseConn(s) ==
    /\ conns' = [conns EXCEPT ![s] = [@ EXCEPT !.active = FALSE,
                    !.connected = FALSE, !.subscriptions = {}]]
    /\ gone' = gone \ {s}
    /\ UNCHANGED <<retained, n, drops, ghosts>>

\* Mutant: the condition on connected is inverted.
KeepAliveTimeoutInverted(s) ==
    /\ conns[s].active /\ ~conns[s].connected /\ conns[s].keepAlive
    /\ CloseConn(s)

\* serviceConn(): the keep-alive has run out.
KeepAliveTimeout(s) ==
    /\ conns[s].connected /\ conns[s].keepAlive
    /\ CloseConn(s)

-----------------------------------------------------------------------------
(* handlePacket().  PINGREQ, PUBREL and unknown packets are answered or     *)
(* not, and change nothing.                                                *)

\* topicMatches().
Matches(f, t) == t \in f

Hears(s) == conns[s].active /\ s \notin gone

Kept == {t \in Topic : retained[t] # 0}

\* Retained messages go out one by one, and those in lost are refused.
SendRetained(s, topics) ==
    \E lost \in SUBSET (topics \cap Kept) :
        /\ Dropping(lost)
        /\ seen' = [seen EXCEPT ![s] = [t \in Topic |->
               IF t \in (topics \cap Kept) \ lost THEN retained[t] ELSE @[t]]]
        /\ missed' = IF lost = {} THEN missed ELSE missed \cup {s}

\* DISCONNECT, a CONNECT that is too short or refused, a packet larger than
\* the buffer, or the peer closes or resets: readConn(), lwipRecv(), lwipErr().
CloseByClient(s) == Hears(s) /\ CloseConn(s)

\* Accepted, at any time: all retained messages follow the CONNACK.
HandleConnect(s, keepAlive) ==
    /\ Hears(s)
    /\ conns' = [conns EXCEPT ![s] = [@ EXCEPT !.connected = TRUE,
                                      !.keepAlive = keepAlive]]
    /\ SendRetained(s, Topic)
    /\ UNCHANGED <<gone, retained, n, asked, last, lastKept>>

\* Mutant: retained messages are not sent.
HandleSubscribeSilently(s, f) ==
    /\ Hears(s) /\ conns[s].connected
    /\ IF Cardinality(conns[s].subscriptions) < MaxConnSubs
       THEN /\ conns' = [conns EXCEPT ![s].subscriptions = @ \cup {f}]
            /\ asked' = [asked EXCEPT ![s] = @ \cup {f}]
       ELSE UNCHANGED <<conns, asked>>
    /\ UNCHANGED <<gone, retained, n, drops, seen, missed, last, lastKept>>

\* One more subscription while there is room; SUBACK grants QoS 0 either
\* way, and the retained messages that match are sent either way.
HandleSubscribe(s, f) ==
    /\ Hears(s) /\ conns[s].connected
    /\ IF Cardinality(conns[s].subscriptions) < MaxConnSubs
       THEN /\ conns' = [conns EXCEPT ![s].subscriptions = @ \cup {f}]
            /\ asked' = [asked EXCEPT ![s] = @ \cup {f}]
       ELSE UNCHANGED <<conns, asked>>
    /\ SendRetained(s, {t \in Topic : Matches(f, t)})
    /\ UNCHANGED <<gone, retained, n, last, lastKept>>

HandleUnsubscribe(s, f) ==
    /\ Hears(s) /\ conns[s].connected
    /\ conns' = [conns EXCEPT ![s].subscriptions = @ \ {f}]
    /\ asked' = [asked EXCEPT ![s] = @ \ {f}]
    /\ UNCHANGED <<gone, retained, n, drops, seen, missed, last, lastKept>>

-----------------------------------------------------------------------------
(* routePublish().                                                         *)

\* Mutant: the limit also stops an existing topic.
RetainLimited(t, m, empty) ==
    retained' = IF empty THEN [retained EXCEPT ![t] = 0]
                ELSE IF Cardinality(Kept) < MaxRetained
                     THEN [retained EXCEPT ![t] = m]
                     ELSE retained

\* An empty payload erases, an entry is replaced, a new one needs a place.
Retain(t, m, empty) ==
    retained' =
        IF empty THEN [retained EXCEPT ![t] = 0]
        ELSE IF t \in Kept \/ Cardinality(Kept) < MaxRetained
             THEN [retained EXCEPT ![t] = m]
             ELSE retained

Subscribers(t) ==
    {s \in Slot : conns[s].connected /\ \E f \in conns[s].subscriptions : Matches(f, t)}

\* Without memory for the packet nobody gets it; a full send buffer makes one
\* connection miss it.  Local observers change nothing here.
RoutePublish(t, retain, empty) ==
    /\ n < MaxRouted /\ n' = n + 1
    /\ IF retain THEN Retain(t, n + 1, empty) ELSE UNCHANGED retained
    /\ \E lost \in SUBSET Subscribers(t) :
        /\ Dropping(lost)
        /\ seen' = [s \in Slot |-> IF s \in Subscribers(t) \ lost
                                   THEN [seen[s] EXCEPT ![t] = n + 1] ELSE seen[s]]
        /\ missed' = missed \cup lost
    /\ last' = [last EXCEPT ![t] = n + 1]
    /\ lastKept' = IF retain THEN [lastKept EXCEPT ![t] = IF empty THEN 0 ELSE n + 1]
                   ELSE lastKept

HandlePublish(s, t, retain, empty) ==
    /\ Hears(s) /\ conns[s].connected
    /\ RoutePublish(t, retain, empty)
    /\ UNCHANGED <<conns, gone, asked>>

\* publish(), called from the module's queue: it always returns true.
DevicePublishes(t, retain) ==
    /\ RoutePublish(t, retain, FALSE)
    /\ UNCHANGED <<conns, gone, asked>>

-----------------------------------------------------------------------------
(* The peer loses power or its network: nothing more comes, no FIN either. *)

ClientVanishes(s) ==
    /\ Hears(s)
    /\ gone' = gone \cup {s}
    /\ UNCHANGED <<conns, retained, n, drops, ghosts>>

HandlePacket(s) ==
    \/ \E keepAlive \in BOOLEAN : HandleConnect(s, keepAlive)
    \/ \E f \in Filter : HandleSubscribe(s, f) \/ HandleUnsubscribe(s, f)
    \/ \E t \in Topic, retain, empty \in BOOLEAN : HandlePublish(s, t, retain, empty)

BrokerNext ==
    \/ Accept
    \/ \E t \in Topic, retain \in BOOLEAN : DevicePublishes(t, retain)
    \/ \E s \in Slot : HandlePacket(s) \/ CloseByClient(s)
                       \/ KeepAliveTimeout(s) \/ ClientVanishes(s)

BrokerSpec == BrokerInit /\ [][BrokerNext]_brokerVars

(* Time passes over silent peers, and loop() runs: on RP2040 if established(). *)
BrokerFairness == \A s \in Slot : WF_brokerVars(s \in gone /\ KeepAliveTimeout(s))

BrokerFairSpec == BrokerSpec /\ BrokerFairness

-----------------------------------------------------------------------------
(* Properties.                                                             *)

\* Every variable has its type.
BrokerTypeOK ==
    /\ conns \in [Slot -> Conn]
    /\ gone \subseteq Slot
    /\ retained \in [Topic -> 0..MaxRouted]
    /\ n \in 0..MaxRouted /\ drops \in 0..MaxDrops
    /\ asked \in [Slot -> SUBSET Filter]
    /\ seen \in [Slot -> [Topic -> 0..MaxRouted]]
    /\ missed \subseteq Slot
    /\ last \in [Topic -> 0..MaxRouted] /\ lastKept \in [Topic -> 0..MaxRouted]

\* A slot holds the subscriptions its present client made and has not
\* undone, up to the limit, and none from whoever had the slot before.
SubscriptionsOwn ==
    \A s \in Slot :
        LET subs == conns[s].subscriptions IN
        /\ Cardinality(subs) <= MaxConnSubs
        /\ subs = IF conns[s].connected THEN asked[s] ELSE {}

\* What is retained for a topic is the last message anybody asked to retain,
\* or, over the limit, nothing: never an older one.
RetainedIsLatest ==
    /\ \A t \in Topic : retained[t] \in {0, lastKept[t]}
    /\ Cardinality(Kept) <= MaxRetained

\* Whoever is subscribed to a topic knows its state: the last message on it,
\* if that was a retained one, whether it came before or after SUBSCRIBE.
SubscriberUpToDate ==
    \A s \in Slot, t \in Topic :
        /\ s \in Subscribers(t) \ missed
        /\ retained[t] # 0 /\ retained[t] = last[t]
        => seen[s][t] = last[t]

\* The slot of a client that announced a keep-alive and fell silent is freed.
SilentClientLeaves ==
    \A s \in Slot : []<>~(s \in gone /\ conns[s].connected /\ conns[s].keepAlive)

\* A message that a full send buffer refused reaches the subscriber later,
\* unless it leaves: back-pressure costs time, not data (README.MQTT.md:176).
PublishReachesAll ==
    \A s \in Slot, t \in Topic :
        s \in missed \cap Subscribers(t) ~>
            seen[s][t] = last[t] \/ s \notin Subscribers(t) \/ s \in gone
=============================================================================
