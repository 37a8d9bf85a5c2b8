----------------------------- MODULE MqttReceive ----------------------------
(***************************************************************************)
(* How MQTT/Client.cpp and MQTT/Broker.cpp put packets together again from *)
(* what TCP delivers: the peer's byte stream arrives in pieces of any      *)
(* size, is collected in a fixed buffer, and a parse loop takes complete   *)
(* packets off its front.  The four receivers differ in what they do when  *)
(* a piece does not fit.  A byte is <<n, i>>: the i-th of the n-th packet. *)
(***************************************************************************)
EXTENDS Integers, Sequences

CONSTANTS
    Setups,     \* the receivers looked at, each with what its peer does
    MaxPackets  \* bound: packets the peer sends

\* A setup says which receiver it is ("client" or "broker", on "ESP32" or
\* "RP2040"), the bytes in its buffer (RX_BUF_SIZE, sizeof(Conn::rxBuf)), the
\* bytes that arrive at most between two runs of its parse loop, and the sizes
\* of the packets its peer sends.
ASSUME ReceiveAssumption ==
    /\ \A u \in Setups :
          /\ u.role \in {"client", "broker"} /\ u.platform \in {"ESP32", "RP2040"}
          /\ u.buf \in Nat \ {0} /\ u.burst \in Nat \ {0}
          /\ u.sizes \subseteq Nat \ {0}
    /\ MaxPackets \in Nat

VARIABLES
    setup,    \* which receiver this is; it never changes
    size,     \* the size of each packet sent
    wire,     \* bytes TCP has not delivered yet
    rxBuf,    \* _rxBuf, Conn::rxBuf up to rxLen
    burst,    \* bytes delivered since the parse loop last ran
    parsing,  \* the parse loop is running; nothing else does meanwhile
    handled,  \* the packets handed to processPacket(), 0 for a garbled one
    open      \* the connection has not been torn down

receiveVars == <<setup, size, wire, rxBuf, burst, parsing, handled, open>>

Is(role, platform) == setup.role = role /\ setup.platform = platform

ReceiveInit ==
    /\ setup \in Setups
    /\ size = <<>> /\ wire = <<>> /\ rxBuf = <<>> /\ burst = 0
    /\ parsing = FALSE /\ handled = <<>> /\ open = TRUE

PeerSends(s) ==
    /\ open /\ Len(size) < MaxPackets
    /\ size' = Append(size, s)
    /\ wire' = wire \o [i \in 1..s |-> <<Len(size) + 1, i>>]
    /\ UNCHANGED <<setup, rxBuf, burst, parsing, handled, open>>

-----------------------------------------------------------------------------
(* A piece of the stream arrives.                                          *)

\* The next k bytes.
Piece(k) == SubSeq(wire, 1, k)

Arrives(k) ==
    /\ open /\ ~parsing /\ k <= Len(wire) /\ burst + k <= setup.burst
    /\ wire' = SubSeq(wire, k + 1, Len(wire))
    /\ UNCHANGED <<setup, size, handled>>

\* reconnect(), closeConn().
Close == open' = FALSE /\ rxBuf' = <<>> /\ parsing' = FALSE

\* Mutant: what does not fit is dropped instead of reconnecting.
ClientReadsDrop(k) ==
    /\ Is("client", "ESP32")
    /\ Arrives(k)
    /\ rxBuf' = IF Len(rxBuf) + k > setup.buf THEN rxBuf ELSE rxBuf \o Piece(k)
    /\ parsing' = TRUE
    /\ UNCHANGED <<burst, open>>

\* Client::loop() on ESP32 reads at most sizeof(tmp) bytes; if they do not
\* fit behind those it has, it reconnects.
ClientReads(k) ==
    /\ Is("client", "ESP32")
    /\ Arrives(k)
    /\ IF Len(rxBuf) + k > setup.buf THEN Close
       ELSE rxBuf' = rxBuf \o Piece(k) /\ parsing' = TRUE /\ UNCHANGED open
    /\ UNCHANGED burst

\* Client::lwipRecv(): of the chain of pbufs, here of j and k - j bytes, each
\* one that does not fit is left out.
Fitting(buf, pbuf) == IF Len(buf) + Len(pbuf) <= setup.buf THEN buf \o pbuf ELSE buf

ClientRecv(j, k) ==
    /\ Is("client", "RP2040")
    /\ Arrives(k)
    /\ rxBuf' = Fitting(Fitting(rxBuf, SubSeq(wire, 1, j)), SubSeq(wire, j + 1, k))
    /\ parsing' = TRUE
    /\ UNCHANGED <<burst, open>>

\* Broker::readConn() on ESP32 reads what there is room for.
ReadConn(k) ==
    /\ Is("broker", "ESP32")
    /\ Arrives(k) /\ Len(rxBuf) + k <= setup.buf
    /\ rxBuf' = rxBuf \o Piece(k) /\ parsing' = TRUE
    /\ UNCHANGED <<burst, open>>

\* Broker::lwipRecv() copies what there is room for and drops the rest; the
\* parse loop runs later, from loop().
BrokerRecv(k) ==
    /\ Is("broker", "RP2040")
    /\ Arrives(k)
    /\ LET room == setup.buf - Len(rxBuf) IN
        rxBuf' = rxBuf \o SubSeq(wire, 1, IF k < room THEN k ELSE room)
    /\ burst' = burst + k
    /\ UNCHANGED <<parsing, open>>

\* Mutant: only a full buffer is looked at.
BrokerServicesFull ==
    /\ Is("broker", "RP2040")
    /\ open /\ ~parsing /\ Len(rxBuf) >= setup.buf
    /\ parsing' = TRUE /\ burst' = 0
    /\ UNCHANGED <<setup, size, wire, rxBuf, handled, open>>

\* A run with nothing new changes nothing.
BrokerServices ==
    /\ Is("broker", "RP2040")
    /\ open /\ ~parsing /\ burst > 0
    /\ parsing' = TRUE /\ burst' = 0
    /\ UNCHANGED <<setup, size, wire, rxBuf, handled, open>>

-----------------------------------------------------------------------------
(* The parse loop, packet by packet.                                       *)

\* The front of the buffer is the start of a packet; parsePacket() reads the
\* length from it.
AtStart == rxBuf # <<>> /\ rxBuf[1][2] = 1
Need    == size[rxBuf[1][1]]

Whole(n) == [i \in 1..size[n] |-> <<n, i>>]

Parse ==
    /\ parsing /\ AtStart /\ Need <= Len(rxBuf)
    /\ LET n == rxBuf[1][1] IN
        handled' = Append(handled, IF SubSeq(rxBuf, 1, Need) = Whole(n) THEN n ELSE 0)
    /\ rxBuf' = SubSeq(rxBuf, Need + 1, Len(rxBuf))
    /\ UNCHANGED <<setup, size, wire, burst, parsing, open>>

\* Bytes from the middle of a packet, taken for a header, may say anything.
ParseGarbage ==
    /\ parsing /\ rxBuf # <<>> /\ ~AtStart
    /\ \E k \in 1..Len(rxBuf) : rxBuf' = SubSeq(rxBuf, k + 1, Len(rxBuf))
    /\ handled' = Append(handled, 0)
    /\ UNCHANGED <<setup, size, wire, burst, parsing, open>>

\* No complete packet is left.  The broker gives up on one that can never be.
ParseEnds ==
    /\ parsing /\ ~(AtStart /\ Need <= Len(rxBuf))
    /\ IF setup.role = "broker" /\ Len(rxBuf) >= setup.buf THEN Close
       ELSE parsing' = FALSE /\ UNCHANGED <<rxBuf, open>>
    /\ UNCHANGED <<setup, size, wire, burst, handled>>

Receive ==
    \/ \E k \in 1..setup.burst : ClientReads(k) \/ ReadConn(k) \/ BrokerRecv(k)
    \/ \E k \in 1..setup.burst : \E j \in 1..k : ClientRecv(j, k)

ReceiveNext ==
    \/ \E s \in setup.sizes : PeerSends(s)
    \/ Receive \/ BrokerServices \/ Parse \/ ParseGarbage \/ ParseEnds

ReceiveSpec == ReceiveInit /\ [][ReceiveNext]_receiveVars

(* TCP delivers, and the main loop or task keeps running.                   *)
ReceiveFairness ==
    /\ WF_receiveVars(Receive) /\ WF_receiveVars(BrokerServices)
    /\ WF_receiveVars(Parse \/ ParseGarbage \/ ParseEnds)

ReceiveFairSpec == ReceiveSpec /\ ReceiveFairness

-----------------------------------------------------------------------------
(* Properties.                                                             *)

\* The bytes sent.
Byte == UNION {{n} \X (1..size[n]) : n \in 1..Len(size)}

\* Every variable has its type, and the buffer is not overrun.
ReceiveTypeOK ==
    /\ setup \in Setups /\ size \in Seq(setup.sizes) /\ Len(size) <= MaxPackets
    /\ wire \in Seq(Byte) /\ rxBuf \in Seq(Byte)
    /\ Len(rxBuf) <= setup.buf
    /\ burst \in 0..setup.burst
    /\ parsing \in BOOLEAN /\ open \in BOOLEAN
    /\ handled \in Seq(0..MaxPackets)

\* The packets handled are the first ones sent, in order.
HandledInOrder == \A i \in 1..Len(handled) : handled[i] = i

\* A packet of s bytes always finds room: with all of it but the last byte
\* in the buffer, a burst still fits.  readConn() on ESP32 takes what fits.
Fits(s)    == IF Is("broker", "ESP32") THEN s <= setup.buf
              ELSE s - 1 + setup.burst <= setup.buf
AllFit     == \A i \in 1..Len(size) : Fits(size[i])

\* None is lost and none made up of pieces of others, however TCP cuts the
\* stream: on ESP32 always, on RP2040 as long as the parse loop keeps up.
InOrder == setup.platform = "ESP32" \/ AllFit => HandledInOrder

\* In the end every packet sent is handled, unless one does not fit.
EveryPacketHandled == <>[](AllFit => Len(handled) = Len(size))
=============================================================================
