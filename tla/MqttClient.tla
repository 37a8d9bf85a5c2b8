----------------------------- MODULE MqttClient -----------------------------
(***************************************************************************)
(* MQTT/Client.cpp: the connection to an external broker, from the DNS     *)
(* lookup over TCP and CONNECT to READY, and back after every failure.     *)
(* Each call into the client is one action: its loop(), the API (the       *)
(* ESP32 holds the module's mutex, the RP2040 has one thread) and on the   *)
(* RP2040 the callbacks of DNS and lwIP.  Packets arrive whole here.       *)
(***************************************************************************)
EXTENDS Integers, Sequences

CONSTANTS
    Platforms,   \* the builds looked at: "ESP32", "RP2040"
    Pcb,         \* addresses a tcp_pcb (RP2040) or WiFiClient (ESP32) may get
    Null,        \* nullptr
    IdMod,       \* values of _resolveId, 2^16 in the code
    MsgIdMod,    \* values of _msgId, 2^16 in the code
    SendBuf,     \* packets the TCP send buffer takes
    Qos,         \* levels publish() is called with
    MaxSubs,     \* bound: calls of subscribe()
    MaxPublish,  \* bound: calls of publish() while READY
    MaxFaults    \* bound: failures of DNS, TCP, memory or the broker

ASSUME ClientAssumption ==
    /\ Platforms \subseteq {"ESP32", "RP2040"}
    /\ Null \notin Pcb /\ Pcb # {}
    /\ IdMod \in Nat /\ IdMod > MaxFaults
    /\ MsgIdMod \in Nat \ {0, 1} /\ SendBuf \in Nat \ {0}
    /\ Qos \subseteq 0..2
    /\ MaxSubs \in Nat /\ MaxPublish \in Nat /\ MaxFaults \in Nat

VARIABLES
    c,         \* the Client object and its TCP connection, see Client below
    link,      \* TCP: "none", "syn", "up", "dead" (silently) or "down"
    rx,        \* packets on their way from the broker to the client
    broker,    \* the subscriptions the broker holds for this connection
    lookups,   \* ids of the DNS queries not yet answered
    jam,       \* there is no memory for outgoing segments
    published, \* calls of publish() so far
    faults     \* failures so far

vars == <<c, link, rx, broker, lookups, jam, published, faults>>

\* n numbers the subscription of a SUBSCRIBE, id is the packet identifier.
Packet == [type : {"CONNECT", "SUBSCRIBE", "PUBLISH", "PINGREQ", "PUBACK"},
           n : 0..MaxSubs, id : 0 .. MsgIdMod - 1, qos : 0..2]

Pkt(type) == [type |-> type, n |-> 0, id |-> 0, qos |-> 0]

\* The builders of MQTT/Packet.cpp; their texts always fit the buffer.
BuildConnect          == Pkt("CONNECT")
BuildPublish(id, qos) == [Pkt("PUBLISH") EXCEPT !.id = id, !.qos = qos]
BuildSubscribe(n, id) == [Pkt("SUBSCRIBE") EXCEPT !.n = n, !.id = id % MsgIdMod]
BuildPubAck           == Pkt("PUBACK")
BuildPingReq          == Pkt("PINGREQ")

Client == [
    platform  : Platforms,  \* which build this is
    state     : {"NEW", "DISCONNECTED", "RESOLVING", "CONNECTING",
                 "CONNECTED", "READY"},
    timer     : {"off", "armed", "due"},  \* _reconnectTimer, due after 5 s
    late      : BOOLEAN,  \* _lastActivity is older than the state allows
    pingDue   : BOOLEAN,  \* _lastPing is older than 0.9 keep-alives
    pinged    : BOOLEAN,  \* a ping was due since _lastActivity
    subs      : 0..MaxSubs,          \* _subscriptions.size()
    upTo      : 0..MaxSubs,          \* _subscribedUpTo
    msgId     : 0 .. MsgIdMod - 1,   \* _msgId
    resolveId : 0 .. IdMod - 1,      \* _resolveId
    dialled   : 0 .. IdMod - 1,      \* the lookup this address is from (ghost)
    pcb       : Pcb \cup {Null},     \* _pcb, _wifiClient
    open      : SUBSET Pcb,          \* pcbs whose callbacks know this client
    tx        : Seq(Packet),         \* written, not yet read by the broker
    wire      : Seq(Packet) ]        \* written on this connection (ghost)

Init ==
    /\ c \in {[platform |-> p, state |-> "NEW", timer |-> "off", late |-> FALSE,
               pingDue |-> FALSE, pinged |-> FALSE, subs |-> 0, upTo |-> 0,
               msgId |-> 1, resolveId |-> 0, dialled |-> 0,
               pcb |-> Null, open |-> {}, tx |-> <<>>, wire |-> <<>>] : p \in Platforms}
    /\ link = "none" /\ rx = <<>> /\ broker = {} /\ lookups = {}
    /\ jam = FALSE /\ published = 0 /\ faults = 0

Fault == faults < MaxFaults /\ faults' = faults + 1

-----------------------------------------------------------------------------
(* The functions of the client, each from the object d to its successor.   *)

ArmReconnectTimer(d) == [d EXCEPT !.timer = "armed"]

\* Mutant: the pcb keeps its callbacks.
TcpDisconnectWired(d) == [d EXCEPT !.pcb = Null, !.tx = <<>>, !.wire = <<>>]

TcpDisconnect(d) ==
    [d EXCEPT !.open = @ \ {d.pcb}, !.pcb = Null, !.tx = <<>>, !.wire = <<>>]

\* Mutant: _subscribedUpTo is not reset.
ReconnectKeepsUpTo(d) ==
    ArmReconnectTimer([TcpDisconnect(d) EXCEPT !.state = "DISCONNECTED"])

Reconnect(d) ==
    ArmReconnectTimer([TcpDisconnect(d) EXCEPT !.state = "DISCONNECTED", !.upTo = 0])

\* sendRaw(): all of the packet or nothing; pings and acks, which repeat for
\* ever, are kept out of the history.
Room(d) == IF d.pcb = Null \/ jam THEN 0 ELSE SendBuf - Len(d.tx)

SendRaw(d, p) ==
    IF Room(d) = 0 THEN d
    ELSE [d EXCEPT !.tx = Append(@, p),
                   !.wire = IF p.type \in {"PINGREQ", "PUBACK"} THEN @
                            ELSE Append(@, p)]

\* Mutant: one step beyond the last subscription.
SendPendingOneMore(d) ==
    LET k == IF d.subs + 1 - d.upTo <= Room(d) THEN d.subs + 1 - d.upTo ELSE Room(d)
        subscribes == [i \in 1..k |-> BuildSubscribe(d.upTo + i, d.msgId + i - 1)]
    IN  [d EXCEPT !.tx = @ \o subscribes, !.wire = @ \o subscribes,
                  !.upTo = @ + k, !.msgId = (@ + k) % MsgIdMod]

\* Sends what fits; the SUBSCRIBE that does not has used up an identifier.
SendPendingSubscriptions(d) ==
    LET pending == d.subs - d.upTo
        k == IF pending <= Room(d) THEN pending ELSE Room(d)
        subscribes == [i \in 1..k |-> BuildSubscribe(d.upTo + i, d.msgId + i - 1)]
        ids == IF k = pending THEN k ELSE k + 1
    IN  [d EXCEPT !.tx = @ \o subscribes, !.wire = @ \o subscribes,
                  !.upTo = @ + k, !.msgId = (@ + ids) % MsgIdMod]

SendConnect(d) == [SendRaw(d, BuildConnect) EXCEPT !.late = FALSE]

SendPingReq(d) ==
    [SendRaw(d, BuildPingReq) EXCEPT !.pingDue = FALSE, !.pinged = TRUE]

Active(d) == [d EXCEPT !.late = FALSE, !.pinged = FALSE]

HandleConnAck(d, p) ==
    IF p = "refused" THEN Reconnect(d)
    ELSE SendPendingSubscriptions(
             [Active(d) EXCEPT !.state = "READY", !.pingDue = FALSE])

\* PUBACK, SUBACK and PINGRESP only count as activity.
ProcessPacket(d, p) ==
    CASE p \in {"CONNACK", "refused"} -> HandleConnAck(Active(d), p)
      [] p = "PUBLISH"               -> SendRaw(Active(d), BuildPubAck)
      [] OTHER                       -> Active(d)

NewPcb(d) == CHOOSE p \in Pcb \ d.open : TRUE

\* The object becomes d; when it has given its pcb back, so have lwIP and the
\* broker, whose session is a clean one.
Becomes(d) ==
    /\ c' = d
    /\ IF d.pcb = Null /\ c.pcb # Null
       THEN link' = "none" /\ rx' = <<>> /\ broker' = {}
       ELSE UNCHANGED <<link, rx, broker>>

-----------------------------------------------------------------------------
(* tcpConnect() and onResolved().                                          *)

\* RP2040: an address, or none; a pcb that connects, or none.
OnResolved(d, id) ==
    \/ /\ Pcb \ d.open # {}
       /\ c' = [d EXCEPT !.pcb = NewPcb(d), !.open = @ \cup {NewPcb(d)},
                         !.state = "CONNECTING", !.late = FALSE, !.dialled = id]
       /\ link' = "syn" /\ UNCHANGED <<rx, broker, faults>>
    \/ /\ Fault
       /\ Becomes(ArmReconnectTimer([d EXCEPT !.state = "DISCONNECTED"]))

\* dns_gethostbyname() answers later, or from its cache within this call.
\* Assumed: no lookup is still open when its identifier comes round again.
Resolve(d) ==
    /\ d.resolveId \notin lookups
    /\ \/ Becomes(d) /\ lookups' = lookups \cup {d.resolveId} /\ UNCHANGED faults
       \/ OnResolved(d, d.resolveId) /\ UNCHANGED lookups

\* ESP32: connect() blocks; when it fails its object stays unconnected.
Connect(d) ==
    \/ /\ c' = SendConnect([d EXCEPT !.state = "CONNECTED"])
       /\ link' = "up" /\ UNCHANGED <<rx, broker, lookups, faults>>
    \/ Fault /\ c' = d /\ UNCHANGED <<link, rx, broker, lookups>>

TcpConnect(d) ==
    LET e == TcpDisconnect(d) IN
    IF c.platform = "RP2040"
    THEN Resolve([e EXCEPT !.state = "RESOLVING", !.late = FALSE,
                           !.resolveId = (@ + 1) % IdMod])
    ELSE Connect([e EXCEPT !.pcb = NewPcb(e), !.open = @ \cup {NewPcb(e)},
                           !.state = "CONNECTING", !.late = FALSE])

-----------------------------------------------------------------------------
(* The API, called by the module.                                          *)

Begin ==
    /\ c.state = "NEW"
    /\ TcpConnect(c)
    /\ UNCHANGED <<jam, published>>

Subscribe ==
    /\ c.subs < MaxSubs
    /\ LET d == [c EXCEPT !.subs = @ + 1] IN
        Becomes(IF c.state = "READY" THEN SendPendingSubscriptions(d) ELSE d)
    /\ UNCHANGED <<lookups, jam, published, faults>>

\* An identifier is used up whether or not the packet is sent.
Publish(qos) ==
    /\ c.state = "READY" /\ published < MaxPublish
    /\ published' = published + 1
    /\ LET id == IF qos > 0 THEN c.msgId ELSE 0
           d  == [c EXCEPT !.msgId = IF qos > 0 THEN (@ + 1) % MsgIdMod ELSE @]
       IN  Becomes(SendRaw(d, BuildPublish(id, qos)))
    /\ UNCHANGED <<lookups, jam, faults>>

-----------------------------------------------------------------------------
(* loop(), one action per case.                                            *)

LoopDials ==
    /\ c.state = "DISCONNECTED" /\ c.timer = "due"
    /\ TcpConnect([c EXCEPT !.timer = "off"])
    /\ UNCHANGED <<jam, published>>

\* The backstop of 15 s; a lookup has no pcb yet.
LoopDnsTimeout ==
    /\ c.state = "RESOLVING" /\ c.late
    /\ Becomes(ArmReconnectTimer([c EXCEPT !.state = "DISCONNECTED"]))
    /\ UNCHANGED <<lookups, jam, published, faults>>

\* ESP32: connect() had failed, and a client that failed to connect closed
\* its socket, so tcpConnected() stays false.
LoopConnectTimeout ==
    /\ c.platform = "ESP32" /\ c.state = "CONNECTING" /\ c.late
    /\ Becomes(Reconnect(c))
    /\ UNCHANGED <<lookups, jam, published, faults>>

\* Mutant: a missing CONNACK is waited for for ever.
LoopConnackNoTimeout == FALSE /\ UNCHANGED vars

LoopConnackTimeout ==
    /\ c.state = "CONNECTED" /\ c.late
    /\ Becomes(Reconnect(c))
    /\ UNCHANGED <<lookups, jam, published, faults>>

Pinged == IF c.pingDue THEN SendPingReq(c) ELSE c

LoopSilence ==
    /\ c.state = "READY" /\ c.late
    /\ Becomes(Reconnect(Pinged))
    /\ UNCHANGED <<lookups, jam, published, faults>>

\* Reading at the end of loop(): on the RP2040 data comes by callback.
Read(d) ==
    \/ /\ c.platform = "RP2040" \/ (link # "down" /\ rx = <<>>)
       /\ Becomes(d)
    \/ /\ c.platform = "ESP32" /\ link = "down"
       /\ Becomes(Reconnect(d))
    \/ /\ c.platform = "ESP32" /\ link # "down" /\ rx # <<>>
       /\ c' = ProcessPacket(d, Head(rx))
       /\ IF c'.pcb = Null
          THEN link' = "none" /\ rx' = <<>> /\ broker' = {}
          ELSE rx' = Tail(rx) /\ UNCHANGED <<link, broker>>

LoopConnected ==
    /\ c.state = "CONNECTED" /\ ~c.late
    /\ Read(c)
    /\ UNCHANGED <<lookups, jam, published, faults>>

LoopReady ==
    /\ c.state = "READY" /\ ~c.late
    /\ Read(SendPendingSubscriptions(Pinged))
    /\ UNCHANGED <<lookups, jam, published, faults>>

Loop == LoopDials \/ LoopDnsTimeout \/ LoopConnectTimeout
        \/ LoopConnackTimeout \/ LoopSilence \/ LoopConnected \/ LoopReady

-----------------------------------------------------------------------------
(* The callbacks of the RP2040.                                            *)

\* Mutant: the answer to a superseded lookup is taken.
DnsAnswersAny(id) ==
    /\ id \in lookups /\ lookups' = lookups \ {id}
    /\ IF c.state = "RESOLVING"
       THEN OnResolved(c, id)
       ELSE UNCHANGED <<c, link, rx, broker, faults>>
    /\ UNCHANGED <<jam, published>>

DnsAnswers(id) ==
    /\ id \in lookups /\ lookups' = lookups \ {id}
    /\ IF id = c.resolveId /\ c.state = "RESOLVING"
       THEN OnResolved(c, id)
       ELSE UNCHANGED <<c, link, rx, broker, faults>>
    /\ UNCHANGED <<jam, published>>

LwipConnected ==
    /\ link = "syn"
    /\ link' = "up"
    /\ c' = SendConnect([c EXCEPT !.state = "CONNECTED"])
    /\ UNCHANGED <<rx, broker, lookups, jam, published, faults>>

LwipRecv ==
    /\ c.platform = "RP2040" /\ link = "up" /\ rx # <<>>
    /\ c' = ProcessPacket(c, Head(rx))
    /\ IF c'.pcb = Null
       THEN link' = "none" /\ rx' = <<>> /\ broker' = {}
       ELSE rx' = Tail(rx) /\ UNCHANGED <<link, broker>>
    /\ UNCHANGED <<lookups, jam, published, faults>>

\* The broker closes: lwipRecv() without a pbuf.
LwipFin ==
    /\ c.platform = "RP2040" /\ link = "up" /\ Fault
    /\ Becomes(Reconnect(c))
    /\ UNCHANGED <<lookups, jam, published>>

\* lwIP gives up on the pcb and has freed it: no SYN-ACK, a reset, or data
\* that nobody acknowledges.
LwipErr ==
    /\ c.platform = "RP2040"
    /\ \/ link \in {"syn", "up"} /\ Fault
       \/ link = "dead" /\ c.tx # <<>> /\ UNCHANGED faults
    /\ Becomes(Reconnect([c EXCEPT !.open = @ \ {c.pcb}, !.pcb = Null,
                                   !.tx = <<>>, !.wire = <<>>]))
    /\ UNCHANGED <<lookups, jam, published>>

-----------------------------------------------------------------------------
(* The network, the broker and time.                                       *)

\* ESP32: the broker closes or resets; the next read finds out.
PeerCloses ==
    /\ c.platform = "ESP32" /\ link = "up" /\ Fault
    /\ link' = "down"
    /\ UNCHANGED <<c, rx, broker, lookups, jam, published>>

\* The peer or the way to it is gone, and nothing says so.
PeerVanishes ==
    /\ link = "up" /\ Fault
    /\ link' = "dead" /\ rx' = <<>>
    /\ UNCHANGED <<c, broker, lookups, jam, published>>

MemoryRunsOut ==
    /\ ~jam /\ Fault
    /\ jam' = TRUE
    /\ UNCHANGED <<c, link, rx, broker, lookups, published>>

MemoryReturns ==
    /\ jam
    /\ jam' = FALSE
    /\ UNCHANGED <<c, link, rx, broker, lookups, published, faults>>

\* The broker reads a packet and answers it.
BrokerReads ==
    /\ link = "up" /\ c.tx # <<>>
    /\ c' = [c EXCEPT !.tx = Tail(@)]
    /\ LET p == Head(c.tx) IN
        \/ p.type = "CONNECT" /\ rx' = Append(rx, "CONNACK")
           /\ UNCHANGED <<broker, faults>>
        \/ p.type = "CONNECT" /\ Fault /\ rx' = Append(rx, "refused")
           /\ UNCHANGED broker
        \/ p.type = "SUBSCRIBE" /\ rx' = Append(rx, "SUBACK")
           /\ broker' = broker \cup {p.n} /\ UNCHANGED faults
        \/ p.type = "PINGREQ" /\ rx' = Append(rx, "PINGRESP")
           /\ UNCHANGED <<broker, faults>>
        \/ p.type \in {"PUBLISH", "PUBACK"} /\ UNCHANGED <<rx, broker, faults>>
    /\ UNCHANGED <<link, lookups, jam, published>>

\* Assumed: the acknowledgements of its messages never fill the send buffer.
BrokerPublishes ==
    /\ link = "up" /\ broker # {} /\ rx = <<>> /\ c.tx = <<>>
    /\ rx' = <<"PUBLISH">>
    /\ UNCHANGED <<c, link, broker, lookups, jam, published, faults>>

TimerElapses ==
    /\ c.timer = "armed"
    /\ c' = [c EXCEPT !.timer = "due"]
    /\ UNCHANGED <<link, rx, broker, lookups, jam, published, faults>>

\* 0.9 keep-alives pass; assumed: a working broker answers the last ping in
\* that time.
PingElapses ==
    /\ c.state = "READY" /\ ~c.pingDue
    /\ link = "up" => c.tx = <<>> /\ rx = <<>>
    /\ c' = [c EXCEPT !.pingDue = TRUE]
    /\ UNCHANGED <<link, rx, broker, lookups, jam, published, faults>>

\* Nothing is on its way that would end the wait.
Hopeless ==
    CASE c.state = "RESOLVING"  -> c.resolveId \notin lookups
      [] c.state = "CONNECTING" -> c.platform = "ESP32"
      [] c.state = "CONNECTED"  -> link = "dead" \/ (c.tx = <<>> /\ rx = <<>>)
      [] c.state = "READY"      -> /\ c.pinged
                                   /\ link = "dead" \/ (c.tx = <<>> /\ rx = <<>>)
      [] OTHER                  -> FALSE

\* The wait outlasts its limit: without hope it does, and an answer may be
\* that slow.  While READY 1.5 keep-alives and 2 s hold at least one ping.
WaitElapses ==
    /\ ~c.late
    /\ \/ Hopeless /\ UNCHANGED faults
       \/ c.state \in {"RESOLVING", "CONNECTED"} /\ ~Hopeless /\ Fault
    /\ c' = [c EXCEPT !.late = TRUE]
    /\ UNCHANGED <<link, rx, broker, lookups, jam, published>>

Callback == (\E id \in lookups : DnsAnswers(id)) \/ LwipConnected \/ LwipRecv

Next ==
    \/ Begin \/ Subscribe \/ (\E qos \in Qos : Publish(qos)) \/ Loop
    \/ Callback \/ LwipFin \/ LwipErr
    \/ PeerCloses \/ PeerVanishes \/ MemoryRunsOut \/ MemoryReturns
    \/ BrokerReads \/ BrokerPublishes
    \/ TimerElapses \/ PingElapses \/ WaitElapses

Spec == Init /\ [][Next]_vars

(* The main loop or task keeps calling, lwIP calls back, a working broker   *)
(* answers, time passes and memory does not stay exhausted.  On RP2040 the  *)
(* loop runs only if established() and not under power save (Module.cpp:627, *)
(* 678): there weak fairness says that the network comes back and stays.   *)
Fairness ==
    /\ WF_vars(Begin) /\ WF_vars(Loop) /\ WF_vars(Callback)
    /\ WF_vars(BrokerReads) /\ WF_vars(MemoryReturns)
    /\ WF_vars(TimerElapses) /\ WF_vars(PingElapses)
    /\ WF_vars(WaitElapses /\ Hopeless)

FairSpec == Spec /\ Fairness

-----------------------------------------------------------------------------
(* Properties.                                                             *)

\* Every variable has its type.
TypeOK ==
    /\ c \in Client
    /\ link \in {"none", "syn", "up", "dead", "down"}
    /\ rx \in Seq({"CONNACK", "refused", "SUBACK", "PINGRESP", "PUBLISH"})
    /\ broker \subseteq 1..MaxSubs
    /\ lookups \subseteq 0 .. IdMod - 1
    /\ jam \in BOOLEAN /\ published \in 0..MaxPublish /\ faults \in 0..MaxFaults

\* The client holds the one pcb (or WiFiClient) whose callbacks know it, and
\* only while it connects or is connected: none leaks over a reconnect, and
\* the pointer never outlives what it points to.
OnePcb ==
    /\ c.open = IF c.pcb = Null THEN {} ELSE {c.pcb}
    /\ c.pcb # Null <=> c.state \in {"CONNECTING", "CONNECTED", "READY"}

\* _subscribedUpTo counts the SUBSCRIBEs on the present connection, which
\* carry all subscriptions from the first on, none skipped or repeated: the
\* broker has forgotten those of an earlier connection.  CONNECT opens every
\* connection, once, and nothing follows it before the broker has accepted it.
SubscribedInStep ==
    LET subscribes == {i \in 1..Len(c.wire) : c.wire[i].type = "SUBSCRIBE"} IN
    /\ {c.wire[i].n : i \in subscribes} = 1..c.upTo
    /\ \A i, j \in subscribes : i < j => c.wire[i].n < c.wire[j].n
    /\ c.wire # <<>> => c.wire[1].type = "CONNECT"
    /\ \A i \in 2..Len(c.wire) : c.state = "READY" /\ c.wire[i].type # "CONNECT"

\* While RESOLVING the answer to this very lookup is still to come, and the
\* address dialled is from it, never from a superseded lookup.
NoStaleAnswer ==
    /\ c.state = "RESOLVING" => c.resolveId \in lookups
    /\ c.platform = "RP2040" /\ c.pcb # Null => c.dialled = c.resolveId

\* Once failures end the client is ready for good, and the broker holds every
\* subscription ever asked for: keep-alives keep a working connection, and a
\* dead one is noticed.
EventuallySubscribed == <>[](c.state = "READY" /\ broker = 1..c.subs)
=============================================================================
