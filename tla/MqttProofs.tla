----------------------------- MODULE MqttProofs -----------------------------
(***************************************************************************)
(* The safety invariants of what MQTT consists of below the queue, for     *)
(* every value of the constants: of the client, for every number of        *)
(* addresses, of subscriptions and publications, of failures, of           *)
(* identifiers and of packets the send buffer takes; of the receivers, for *)
(* every size of buffers, of packets and of what TCP delivers at once; of  *)
(* the broker, for every number of slots, of subscriptions, of retained    *)
(* messages and of messages published, and every set of topics and filters.*)
(***************************************************************************)
EXTENDS MqttClient, MqttReceive, MqttBroker, FiniteSetTheorems, TLAPS

-----------------------------------------------------------------------------
(* The client: the inductive strengthening.                                *)

Wired == {"CONNECTING", "CONNECTED", "READY"}
Live  == {"CONNECTED", "READY"}

\* SubscribedInStep of any history w of a connection that u subscriptions were
\* written to, and of any client object.
Subscribing(w) == {i \in 1..Len(w) : w[i].type = "SUBSCRIBE"}

History(w, u) ==
    /\ {w[i].n : i \in Subscribing(w)} = 1..u
    /\ \A i, j \in Subscribing(w) : i < j => w[i].n < w[j].n
    /\ w # <<>> => w[1].type = "CONNECT"
    /\ \A i \in 2..Len(w) : w[i].type # "CONNECT"

InStep(d) ==
    /\ History(d.wire, d.upTo)
    /\ d.state = "READY" \/ Len(d.wire) <= 1

\* OnePcb of any client object.
Holds(d) ==
    /\ d.open = IF d.pcb = Null THEN {} ELSE {d.pcb}
    /\ d.pcb # Null <=> d.state \in Wired

\* What is written and not yet read stays within the buffer, and belongs to a
\* connection that CONNECT was written to.
Written(d) ==
    /\ Len(d.tx) <= SendBuf
    /\ \A i \in 1..Len(d.tx) : d.tx[i].type = "SUBSCRIBE" => d.tx[i].n >= 1
    /\ d.upTo <= d.subs
    /\ d.state \notin Live => d.wire = <<>>
    /\ d.state = "READY" => d.wire # <<>>
    /\ d.wire = <<>> => d.tx = <<>> /\ d.upTo = 0

ObjectInv(d) == d \in Client /\ InStep(d) /\ Holds(d) /\ Written(d)

\* The client object and its connection.
LinkInv ==
    /\ c.wire = <<>> => rx = <<>> /\ broker = {}
    /\ link = "syn" => c.state = "CONNECTING"
    /\ link \in {"up", "dead", "down"} => c.state \in Live

ClientInv == TypeOK /\ ObjectInv(c) /\ LinkInv /\ NoStaleAnswer

-----------------------------------------------------------------------------
(* What is written to a connection.                                        *)

\* Identifiers wrap within their range.
LEMMA ModType ==
    ASSUME NEW a \in Nat, NEW m \in Nat \ {0}
    PROVE  a % m \in 0 .. m - 1
  OBVIOUS

\* The packets of the client are packets.
LEMMA PacketType ==
    ASSUME ClientAssumption
    PROVE  /\ BuildConnect \in Packet /\ BuildPubAck \in Packet
           /\ BuildPingReq \in Packet
           /\ \A id \in 0 .. MsgIdMod - 1, q \in 0..2 : BuildPublish(id, q) \in Packet
           /\ \A k \in 0..MaxSubs, id \in Nat : BuildSubscribe(k, id) \in Packet
  <1>1. 0 \in 0..MaxSubs /\ 0 \in 0 .. MsgIdMod - 1 /\ 0 \in 0..2
    BY DEF ClientAssumption
  <1>2. ASSUME NEW k \in 0..MaxSubs, NEW id \in Nat
        PROVE  BuildSubscribe(k, id) \in Packet
    <2>1. id % MsgIdMod \in 0 .. MsgIdMod - 1
      BY ModType DEF ClientAssumption
    <2> QED
      BY <1>1, <2>1 DEF BuildSubscribe, Pkt, Packet
  <1> QED
    BY <1>1, <1>2 DEF BuildConnect, BuildPubAck, BuildPingReq, BuildPublish, Pkt, Packet

\* Appending to a non-empty connection a packet that is no subscription.
LEMMA OneMoreInStep ==
    ASSUME NEW w \in Seq(Packet), w # <<>>, NEW u \in Nat, History(w, u),
           NEW p \in Packet, p.type \notin {"CONNECT", "SUBSCRIBE"}
    PROVE  History(Append(w, p), u)
  <1> DEFINE x == Append(w, p)
  <1>1. /\ Len(w) \in Nat \ {0} /\ Len(x) = Len(w) + 1
        /\ \A i \in 1..Len(w) : x[i] = w[i]
        /\ x[Len(w) + 1] = p
    OBVIOUS
  <1> HIDE DEF x
  <1>2. Subscribing(x) = Subscribing(w)
    BY <1>1 DEF Subscribing
  <1>3. \A i \in Subscribing(w) : x[i] = w[i]
    BY <1>1 DEF Subscribing
  <1>4. {x[i].n : i \in Subscribing(x)} = {w[i].n : i \in Subscribing(w)}
    BY <1>2, <1>3
  <1>5. \A i, j \in Subscribing(x) : i < j => x[i].n < x[j].n
    BY <1>2, <1>3 DEF History
  <1>6. x[1].type = "CONNECT"
    BY <1>1 DEF History
  <1>7. \A i \in 2..Len(x) : x[i].type # "CONNECT"
    BY <1>1 DEF History
  <1>8. {x[i].n : i \in Subscribing(x)} = 1..u
    BY <1>4 DEF History
  <1>9. History(x, u)
    BY <1>5, <1>6, <1>7, <1>8 DEF History
  <1> QED
    BY <1>9 DEF x

\* The elements of a concatenation.
LEMMA ConcatFacts ==
    ASSUME NEW S, NEW w \in Seq(S), NEW s \in Seq(S)
    PROVE  /\ w \o s \in Seq(S) /\ Len(w \o s) = Len(w) + Len(s)
           /\ Len(w) \in Nat /\ Len(s) \in Nat
           /\ \A i \in 1..Len(w) : (w \o s)[i] = w[i]
           /\ \A i \in Len(w) + 1 .. Len(w) + Len(s) : (w \o s)[i] = s[i - Len(w)]
  OBVIOUS

\* Appending the next k subscriptions.
LEMMA MoreSubscribesInStep ==
    ASSUME NEW w \in Seq(Packet), w # <<>>, NEW u \in Nat, History(w, u), NEW k \in Nat,
           NEW s \in Seq(Packet), Len(s) = k,
           \A i \in 1..k : s[i].type = "SUBSCRIBE" /\ s[i].n = u + i
    PROVE  History(w \o s, u + k)
  <1> DEFINE l == Len(w)
             x == w \o s
             S == Subscribing(w)
             T == Subscribing(x)
  <1>1. /\ l \in Nat \ {0} /\ Len(x) = l + k
        /\ \A i \in 1..l : x[i] = w[i]
        /\ \A i \in l + 1 .. l + k : x[i] = s[i - l]
    <2>1. /\ l \in Nat /\ Len(x) = l + Len(s)
          /\ \A i \in 1..l : x[i] = w[i]
          /\ \A i \in l + 1 .. l + Len(s) : x[i] = s[i - l]
      BY ConcatFacts
    <2>2. l # 0
      OBVIOUS
    <2> QED
      BY <2>1, <2>2
  <1>2. \A i \in l + 1 .. l + k : i - l \in 1..k
    BY <1>1
  <1>3. \A i \in l + 1 .. l + k : x[i].type = "SUBSCRIBE" /\ x[i].n = u + (i - l)
    BY <1>1, <1>2
  <1>4. T = S \cup (l + 1 .. l + k)
    BY <1>1, <1>3 DEF Subscribing
  <1>5. S \subseteq 1..l /\ \A i \in S : x[i].n = w[i].n
    BY <1>1 DEF Subscribing
  <1> HIDE DEF l, x, S, T
  <1>6. \A i \in S : x[i].n \in 1..u
    BY <1>5 DEF History, S
  <1>7. {x[i].n : i \in T} = 1 .. u + k
    <2>1. ASSUME NEW i \in T
          PROVE  x[i].n \in 1 .. u + k
      <3>1. CASE i \in S
        BY <1>6, <3>1
      <3>2. CASE i \in l + 1 .. l + k
        BY <1>1, <1>2, <1>3, <3>2
      <3> QED
        BY <1>4, <3>1, <3>2
    <2>2. ASSUME NEW m \in 1 .. u + k
          PROVE  \E i \in T : x[i].n = m
      <3>1. CASE m \in 1..u
        <4>1. m \in {w[i].n : i \in Subscribing(w)}
          BY <3>1 DEF History
        <4>2. PICK i \in S : w[i].n = m
          BY <4>1 DEF S
        <4> QED
          BY <1>4, <1>5, <4>2
      <3>2. CASE m > u
        <4>1. m - u + l \in l + 1 .. l + k /\ u + ((m - u + l) - l) = m
          BY <1>1, <3>2
        <4>2. x[m - u + l].n = m
          BY <1>3, <4>1
        <4> QED
          BY <1>4, <4>1, <4>2
      <3> QED
        BY <3>1, <3>2
    <2> QED
      BY <2>1, <2>2
  <1>8. \A i, j \in T : i < j => x[i].n < x[j].n
    <2>1. ASSUME NEW i \in T, NEW j \in T, i < j
          PROVE  x[i].n < x[j].n
      <3>1. CASE i \in S /\ j \in S
        BY <1>5, <2>1, <3>1 DEF History, S
      <3>2. CASE i \in S /\ j \in l + 1 .. l + k
        <4>1. x[i].n \in 1..u
          BY <1>6, <3>2
        <4>2. x[j].n = u + (j - l) /\ j - l \in 1..k
          BY <1>2, <1>3, <3>2
        <4>3. /\ x[i].n \in Int /\ x[i].n <= u
              /\ j - l \in Int /\ j - l >= 1
          BY <4>1, <4>2
        <4> QED
          BY <4>2, <4>3
      <3>3. CASE i \in l + 1 .. l + k /\ j \in l + 1 .. l + k
        <4>1. x[i].n = u + (i - l) /\ x[j].n = u + (j - l)
          BY <1>3, <3>3
        <4> QED
          BY <1>1, <2>1, <3>3, <4>1
      <3>4. CASE i \in l + 1 .. l + k /\ j \in S
        <4>1. j \in 1..l
          BY <1>5, <3>4
        <4>2. ~(i < j)
          BY <1>1, <3>4, <4>1
        <4> QED
          BY <2>1, <4>2
      <3> QED
        BY <1>4, <2>1, <3>1, <3>2, <3>3, <3>4
    <2> QED
      BY <2>1
  <1>9. x[1].type = "CONNECT"
    BY <1>1 DEF History, l
  <1>10. \A i \in 2..Len(x) : x[i].type # "CONNECT"
    <2>1. \A i \in 2..l : x[i].type # "CONNECT"
      BY <1>1 DEF History, l
    <2>2. \A i \in l + 1 .. l + k : x[i].type # "CONNECT"
      BY <1>3
    <2> QED
      BY <1>1, <2>1, <2>2
  <1>11. History(x, u + k)
    BY <1>7, <1>8, <1>9, <1>10 DEF History, T
  <1> QED
    BY <1>11 DEF x

-----------------------------------------------------------------------------
(* What the functions of the client make of its object.                    *)

\* e is the object d later: the same build, the same lookup.
Keeps(d, e) ==
    /\ e.platform = d.platform /\ e.resolveId = d.resolveId
    /\ e.dialled = d.dialled

\* e is the object d later, with the connection it had.
Continues(d, e) ==
    /\ Keeps(d, e) /\ e.pcb = d.pcb /\ e.state = d.state
    /\ d.wire # <<>> => e.wire # <<>>

\* Timers and flags matter to none of the invariants.
LEMMA FlagsInv ==
    ASSUME NEW d, NEW e, ObjectInv(d), e \in Client, e.state = d.state,
           e.subs = d.subs, e.upTo = d.upTo, e.pcb = d.pcb, e.open = d.open,
           e.tx = d.tx, e.wire = d.wire
    PROVE  ObjectInv(e)
  BY DEF ObjectInv, InStep, Holds, Written

\* _lastActivity is set to the present time.
LEMMA ActiveInv ==
    ASSUME NEW d, ObjectInv(d)
    PROVE  ObjectInv(Active(d)) /\ Continues(d, Active(d))
  <1>1. d \in Client
    BY DEF ObjectInv
  <1>2. Active(d) \in Client
    BY <1>1 DEF Active, Client
  <1>3. /\ Active(d).state = d.state /\ Active(d).subs = d.subs /\ Active(d).upTo = d.upTo
        /\ Active(d).pcb = d.pcb /\ Active(d).open = d.open /\ Active(d).tx = d.tx
        /\ Active(d).wire = d.wire
    BY <1>1 DEF Active, Client
  <1>4. Continues(d, Active(d))
    BY <1>1 DEF Active, Client, Continues, Keeps
  <1> QED
    BY <1>2, <1>3, <1>4, FlagsInv

\* A sequence of at most one.
LEMMA OneFacts ==
    ASSUME NEW w, NEW p, w = <<>> \/ w = <<p>>
    PROVE  /\ Len(w) \in Nat /\ Len(w) <= 1 /\ \A i \in 1..Len(w) : w[i] = p
           /\ w # <<>> => w[1] = p
  <1>1. CASE w = <<>>
    BY <1>1
  <1>2. CASE w = <<p>>
    BY <1>2
  <1> QED
    BY <1>1, <1>2

\* sendRaw() of anything but CONNECT and SUBSCRIBE.
LEMMA SendRawInv ==
    ASSUME ClientAssumption, jam \in BOOLEAN, NEW d, ObjectInv(d), d.wire # <<>>,
           NEW p \in Packet, \/ p.type \in {"PINGREQ", "PUBACK"}
                             \/ p.type = "PUBLISH" /\ d.state = "READY"
    PROVE  ObjectInv(SendRaw(d, p)) /\ Continues(d, SendRaw(d, p))
  <1> DEFINE e == SendRaw(d, p)
  <1>1. /\ d \in Client /\ d.tx \in Seq(Packet) /\ d.wire \in Seq(Packet)
        /\ d.upTo \in Nat /\ Len(d.tx) \in Nat /\ SendBuf \in Nat
    BY DEF ObjectInv, Client, ClientAssumption
  <1>2. CASE Room(d) = 0
    BY <1>2 DEF SendRaw, Continues, Keeps
  <1>3. CASE Room(d) # 0
    <2> DEFINE t == Append(d.tx, p)
               w == IF p.type \in {"PINGREQ", "PUBACK"} THEN d.wire ELSE Append(d.wire, p)
    <2>1. e = [d EXCEPT !.tx = t, !.wire = w]
      BY <1>1, <1>3 DEF SendRaw, Client
    <2>2. Append(d.wire, p) \in Seq(Packet) /\ Append(d.wire, p) # <<>>
      BY <1>1
    <2>3. w \in Seq(Packet) /\ w # <<>> /\ t \in Seq(Packet)
      BY <1>1, <2>2
    <2>4. w = d.wire \/ (p.type = "PUBLISH" /\ w = Append(d.wire, p))
      OBVIOUS
    <2> HIDE DEF e, t, w
    <2>5. /\ e \in Client
          /\ e.tx = t /\ e.state = d.state /\ e.subs = d.subs
          /\ e.upTo = d.upTo /\ e.pcb = d.pcb /\ e.open = d.open /\ e.wire = w
          /\ e.platform = d.platform /\ e.resolveId = d.resolveId /\ e.dialled = d.dialled
      BY <1>1, <2>1, <2>3 DEF Client
    <2>6. Len(d.tx) < SendBuf
      BY <1>1, <1>3 DEF Room, ObjectInv, Written
    <2>7. Written(e)
      <3>1. /\ Len(e.tx) = Len(d.tx) + 1 /\ e.tx[Len(d.tx) + 1] = p
            /\ \A i \in 1..Len(d.tx) : e.tx[i] = d.tx[i]
        BY <1>1, <2>5 DEF t
      <3>2. \A i \in 1..Len(e.tx) : e.tx[i].type = "SUBSCRIBE" => e.tx[i].n >= 1
        BY SMTT(30), <1>1, <3>1 DEF ObjectInv, Written
      <3> QED
        BY <1>1, <2>3, <2>5, <2>6, <3>1, <3>2 DEF ObjectInv, Written
    <2>8. InStep(e)
      <3>1. CASE e.wire = d.wire
        BY <2>5, <3>1 DEF ObjectInv, InStep
      <3>2. CASE p.type = "PUBLISH" /\ e.wire = Append(d.wire, p)
        <4>1. History(e.wire, e.upTo)
          BY SMTT(30), <1>1, <2>4, <2>5, <3>2, OneMoreInStep DEF ObjectInv, InStep
        <4> QED
          BY <2>5, <3>2, <4>1 DEF InStep
      <3> QED
        BY <2>4, <2>5, <3>1, <3>2
    <2>9. Holds(e)
      BY <2>5 DEF ObjectInv, Holds
    <2>10. Continues(d, e)
      BY <2>3, <2>5 DEF Continues, Keeps
    <2>11. ObjectInv(e)
      BY <2>5, <2>7, <2>8, <2>9 DEF ObjectInv
    <2> QED
      BY <2>10, <2>11 DEF e
  <1> QED
    BY <1>2, <1>3

\* A new connection begins with CONNECT, if there is room for it.
LEMMA SendConnectInv ==
    ASSUME ClientAssumption, jam \in BOOLEAN, NEW d, d \in Client, Holds(d),
           d.state = "CONNECTED", d.wire = <<>>, d.tx = <<>>, d.upTo = 0
    PROVE  ObjectInv(SendConnect(d)) /\ Continues(d, SendConnect(d))
  <1> DEFINE p == BuildConnect
             e == SendConnect(d)
  <1>1. p \in Packet /\ p.type = "CONNECT"
    BY PacketType DEF BuildConnect, Pkt
  <1>2. /\ e \in Client /\ e.state = d.state /\ e.subs = d.subs /\ e.upTo = 0
        /\ e.pcb = d.pcb /\ e.open = d.open /\ e.platform = d.platform
        /\ e.resolveId = d.resolveId /\ e.dialled = d.dialled
        /\ \/ e.tx = <<>> /\ e.wire = <<>>
           \/ e.tx = <<p>> /\ e.wire = <<p>>
    <2>1. CASE Room(d) = 0
      BY <2>1 DEF SendConnect, SendRaw, Client
    <2>2. CASE Room(d) # 0
      <3> DEFINE t == <<p>>
                 f == [d EXCEPT !.tx = t, !.wire = t]
      <3>1. t \in Seq(Packet) /\ Append(<<>>, p) = t
        BY <1>1
      <3>2. e = [f EXCEPT !.late = FALSE]
        BY <1>1, <2>2, <3>1 DEF SendConnect, SendRaw, Client
      <3> HIDE DEF t
      <3>3. /\ f \in Client /\ f.tx = t /\ f.wire = t /\ f.upTo = 0
            /\ f.state = d.state /\ f.subs = d.subs
            /\ f.pcb = d.pcb /\ f.open = d.open /\ f.platform = d.platform
            /\ f.resolveId = d.resolveId /\ f.dialled = d.dialled
        BY ZenonT(60), <3>1 DEF Client
      <3> HIDE DEF f, e
      <3> QED
        BY <3>2, <3>3 DEF Client, t
    <2> QED
      BY <2>1, <2>2
  <1> HIDE DEF p, e
  <1>3. e.subs \in Nat
    BY <1>2 DEF Client
  <1>4. /\ Len(e.wire) \in Nat /\ Len(e.wire) <= 1
        /\ \A i \in 1..Len(e.wire) : e.wire[i] = p
        /\ e.wire # <<>> => e.wire[1] = p
        /\ Len(e.tx) \in Nat /\ Len(e.tx) <= 1
        /\ \A i \in 1..Len(e.tx) : e.tx[i] = p
    <2>1. e.wire = <<>> \/ e.wire = <<p>>
      BY <1>2
    <2>2. e.tx = <<>> \/ e.tx = <<p>>
      BY <1>2
    <2> QED
      BY <2>1, <2>2, OneFacts, ZenonT(30)
  <1>5. InStep(e)
    <2>1. Len(e.wire) <= 1
      BY <1>4
    <2>2. Subscribing(e.wire) = {}
      BY <1>1, <1>4 DEF Subscribing
    <2>3. e.wire # <<>> => e.wire[1].type = "CONNECT"
      BY <1>1, <1>4
    <2>4. \A i \in 2..Len(e.wire) : FALSE
      BY <1>4
    <2>5. 1..e.upTo = {}
      BY <1>2
    <2>6. History(e.wire, e.upTo)
      BY <2>2, <2>3, <2>4, <2>5 DEF History
    <2> QED
      BY <2>1, <2>6 DEF InStep
  <1>6. Written(e)
    <2>1. Len(e.tx) <= SendBuf
      BY <1>4 DEF ClientAssumption
    <2>2. \A i \in 1..Len(e.tx) : e.tx[i].type = "CONNECT"
      BY <1>1, <1>4
    <2> QED
      BY <1>2, <1>3, <2>1, <2>2 DEF Written, Live
  <1>7. Holds(e)
    BY <1>2 DEF Holds
  <1>8. ObjectInv(e) /\ Continues(d, e)
    BY <1>2, <1>5, <1>6, <1>7 DEF ObjectInv, Continues, Keeps
  <1> QED
    BY <1>8 DEF e

\* Pending subscriptions are written, as many as there is room for.
LEMMA PendingInv ==
    ASSUME ClientAssumption, jam \in BOOLEAN, NEW d, ObjectInv(d), d.state = "READY"
    PROVE  /\ ObjectInv(SendPendingSubscriptions(d))
           /\ Continues(d, SendPendingSubscriptions(d))
  <1> DEFINE pending == d.subs - d.upTo
             k == IF pending <= Room(d) THEN pending ELSE Room(d)
             s == [i \in 1..k |-> BuildSubscribe(d.upTo + i, d.msgId + i - 1)]
             t == d.tx \o s
             w == d.wire \o s
             id == (d.msgId + (IF k = pending THEN k ELSE k + 1)) % MsgIdMod
             u == d.upTo + k
             e == [d EXCEPT !.tx = t, !.wire = w, !.upTo = u, !.msgId = id]
  <1>1. /\ d \in Client /\ d.tx \in Seq(Packet) /\ d.wire \in Seq(Packet)
        /\ d.upTo \in Nat /\ d.subs \in 0..MaxSubs /\ d.msgId \in Nat
        /\ Len(d.tx) \in Nat /\ SendBuf \in Nat /\ MaxSubs \in Nat
        /\ d.upTo <= d.subs /\ Len(d.tx) <= SendBuf /\ d.wire # <<>>
    BY DEF ObjectInv, Written, Client, ClientAssumption
  <1>2. Room(d) \in Nat /\ (Room(d) = 0 \/ Room(d) = SendBuf - Len(d.tx))
    BY <1>1 DEF Room
  <1>3. k \in Nat /\ d.upTo + k <= d.subs /\ (k = 0 \/ k <= SendBuf - Len(d.tx))
    BY <1>1, <1>2
  <1>4. SendPendingSubscriptions(d) = e
    BY <1>1 DEF SendPendingSubscriptions, Client
  <1> HIDE DEF k
  <1>5. \A i \in 1..k : /\ s[i] \in Packet /\ s[i].type = "SUBSCRIBE"
                        /\ s[i].n = d.upTo + i
    <2>1. ASSUME NEW i \in 1..k
          PROVE  /\ d.upTo + i \in 0..MaxSubs /\ d.msgId + i - 1 \in Nat
      BY SMTT(30), <1>1, <1>3
    <2>2. \A p, m : /\ BuildSubscribe(p, m).type = "SUBSCRIBE"
                    /\ BuildSubscribe(p, m).n = p
      BY DEF BuildSubscribe, Pkt
    <2> QED
      BY <2>1, <2>2, PacketType
  <1>6. s \in Seq(Packet) /\ Len(s) = k
    BY <1>3, <1>5
  <1> HIDE DEF s
  <1>7. /\ t \in Seq(Packet) /\ Len(t) = Len(d.tx) + k
        /\ \A i \in 1..Len(d.tx) : t[i] = d.tx[i]
        /\ \A i \in Len(d.tx) + 1 .. Len(d.tx) + k : t[i] = s[i - Len(d.tx)]
    <2>1. /\ t \in Seq(Packet) /\ Len(t) = Len(d.tx) + Len(s)
          /\ \A i \in 1..Len(d.tx) : t[i] = d.tx[i]
          /\ \A i \in Len(d.tx) + 1 .. Len(d.tx) + Len(s) : t[i] = s[i - Len(d.tx)]
      <3>1. d.tx \in Seq(Packet) /\ s \in Seq(Packet)
        BY <1>1, <1>6
      <3> QED
        BY ONLY <3>1, ConcatFacts
    <2> QED
      BY <1>6, <2>1
  <1>8. w \in Seq(Packet) /\ w # <<>>
    BY <1>1, <1>6
  <1>9. History(w, u)
    BY <1>1, <1>3, <1>5, <1>6, MoreSubscribesInStep DEF ObjectInv, InStep
  <1>10. u \in 0..MaxSubs /\ u <= d.subs
    BY <1>1, <1>3
  <1>11. id \in 0 .. MsgIdMod - 1
    <2>1. d.msgId + (IF k = pending THEN k ELSE k + 1) \in Nat
      BY <1>1, <1>3
    <2>2. MsgIdMod \in Nat \ {0}
      BY DEF ClientAssumption
    <2> QED
      BY <2>1, <2>2, ModType
  <1> HIDE DEF t, w, u, id
  <1>12. /\ e \in Client /\ e.tx = t /\ e.wire = w /\ e.upTo = u
         /\ e.state = d.state /\ e.subs = d.subs
         /\ e.pcb = d.pcb /\ e.open = d.open /\ e.platform = d.platform
         /\ e.resolveId = d.resolveId /\ e.dialled = d.dialled
    BY <1>1, <1>7, <1>8, <1>10, <1>11 DEF Client
  <1> HIDE DEF e
  <1>13. Written(e)
    <2>1. Len(t) <= SendBuf
      BY <1>1, <1>3, <1>7
    <2>2. ASSUME NEW i \in 1..Len(t), t[i].type = "SUBSCRIBE"
          PROVE  t[i].n >= 1
      <3>1. CASE i \in 1..Len(d.tx)
        BY <1>7, <2>2, <3>1 DEF ObjectInv, Written
      <3>2. CASE i \in Len(d.tx) + 1 .. Len(d.tx) + k
        <4>1. i - Len(d.tx) \in 1..k
          BY <1>1, <1>3, <3>2
        <4>2. t[i].n = d.upTo + (i - Len(d.tx))
          BY <1>5, <1>7, <3>2, <4>1
        <4> QED
          BY <1>1, <4>1, <4>2
      <3> QED
        BY <1>1, <1>3, <1>7, <2>2, <3>1, <3>2
    <2>3. e.state = "READY"
      BY <1>12
    <2> QED
      BY <1>8, <1>10, <1>12, <2>1, <2>2, <2>3 DEF Written, Live
  <1>14. ObjectInv(e) /\ Continues(d, e)
    BY <1>8, <1>9, <1>12, <1>13 DEF ObjectInv, InStep, Holds, Continues, Keeps
  <1> QED
    BY <1>4, <1>14

\* sendPingReq() sends or reconnects.
LEMMA PingReqInv ==
    ASSUME ClientAssumption, jam \in BOOLEAN, NEW d, ObjectInv(d), d.state = "READY"
    PROVE  ObjectInv(SendPingReq(d)) /\ Continues(d, SendPingReq(d))
  <1> DEFINE f == SendRaw(d, BuildPingReq)
             e == SendPingReq(d)
  <1>1. d.wire # <<>> /\ BuildPingReq \in Packet /\ BuildPingReq.type = "PINGREQ"
    BY PacketType DEF ObjectInv, Written, BuildPingReq, Pkt
  <1>2. ObjectInv(f) /\ Continues(d, f)
    BY <1>1, SendRawInv
  <1>3. e = [f EXCEPT !.pingDue = FALSE, !.pinged = TRUE]
    BY DEF SendPingReq
  <1> HIDE DEF f, e
  <1>4. /\ e \in Client /\ e.state = f.state /\ e.subs = f.subs /\ e.upTo = f.upTo
        /\ e.pcb = f.pcb /\ e.open = f.open /\ e.tx = f.tx /\ e.wire = f.wire
        /\ e.platform = f.platform /\ e.resolveId = f.resolveId /\ e.dialled = f.dialled
    BY <1>2, <1>3 DEF ObjectInv, Client
  <1>5. ObjectInv(e) /\ Continues(d, e)
    BY <1>2, <1>4, FlagsInv DEF Continues, Keeps
  <1> QED
    BY <1>5 DEF e

\* e is the object d after reconnect() or without a connection anyway.
GivesUp(d, e) ==
    /\ Keeps(d, e) /\ e.state = "DISCONNECTED" /\ e.pcb = Null

\* reconnect() gives the pcb up and forgets the session.
LEMMA ReconnectInv ==
    ASSUME ClientAssumption, NEW d, d \in Client,
           d.open = IF d.pcb = Null THEN {} ELSE {d.pcb}
    PROVE  ObjectInv(Reconnect(d)) /\ GivesUp(d, Reconnect(d))
  <1> DEFINE e == Reconnect(d)
             o == d.open \ {d.pcb}
  <1>1. e = [d EXCEPT !.open = o, !.pcb = Null, !.tx = <<>>, !.wire = <<>>,
                      !.state = "DISCONNECTED", !.upTo = 0, !.timer = "armed"]
    BY DEF Reconnect, TcpDisconnect, ArmReconnectTimer, Client
  <1>2. o = {} /\ 0 \in 0..MaxSubs
    BY DEF ClientAssumption
  <1> HIDE DEF e, o
  <1>3. /\ e \in Client /\ e.open = {} /\ e.pcb = Null /\ e.tx = <<>> /\ e.wire = <<>>
        /\ e.state = "DISCONNECTED" /\ e.upTo = 0
        /\ e.platform = d.platform /\ e.resolveId = d.resolveId /\ e.dialled = d.dialled
    <2>1. e \in Client
      <3>1. <<>> \in Seq(Packet) /\ {} \in SUBSET Pcb
        OBVIOUS
      <3> QED
        BY <1>1, <1>2, <3>1 DEF Client
    <2> QED
      BY <1>1, <1>2, <2>1 DEF Client
  <1>4. e.subs \in Nat /\ Len(e.wire) = 0 /\ Len(e.tx) = 0 /\ SendBuf \in Nat
    BY <1>3 DEF Client, ClientAssumption
  <1>5. InStep(e)
    <2>1. Subscribing(e.wire) = {} /\ 1..e.upTo = {}
      BY <1>3, <1>4 DEF Subscribing
    <2> QED
      BY <1>3, <1>4, <2>1 DEF InStep, History
  <1>6. Holds(e) /\ Written(e) /\ GivesUp(d, e)
    BY <1>3, <1>4 DEF Holds, Written, GivesUp, Keeps, Wired, Live
  <1> QED
    BY <1>3, <1>5, <1>6 DEF ObjectInv, e

\* A packet is answered, or ends the connection.
LEMMA ProcessPacketInv ==
    ASSUME ClientAssumption, jam \in BOOLEAN, NEW d, ObjectInv(d), d.wire # <<>>,
           d.state \in Live, NEW p
    PROVE  LET e == ProcessPacket(d, p)
           IN  /\ ObjectInv(e) /\ Keeps(d, e)
               /\ \/ e.pcb = d.pcb /\ e.state \in Live /\ e.wire # <<>>
                  \/ GivesUp(d, e)
  <1> DEFINE a == Active(d)
             b == Active(a)
             r == [b EXCEPT !.state = "READY", !.pingDue = FALSE]
             s == SendPendingSubscriptions(r)
             q == SendRaw(a, BuildPubAck)
             f == Reconnect(a)
  <1>1. ObjectInv(a) /\ Continues(d, a)
    BY ActiveInv
  <1>2. ObjectInv(b) /\ Continues(a, b)
    BY <1>1, ActiveInv
  <1>3. ProcessPacket(d, p) \in {a, s, q, f}
    BY DEF ProcessPacket, HandleConnAck
  <1>4. ObjectInv(f) /\ GivesUp(d, f)
    BY <1>1, ReconnectInv DEF ObjectInv, Holds, Continues, GivesUp, Keeps
  <1>5. BuildPubAck \in Packet /\ BuildPubAck.type = "PUBACK"
    BY PacketType DEF BuildPubAck, Pkt
  <1>6. ObjectInv(q) /\ Continues(a, q)
    BY <1>1, <1>5, SendRawInv DEF Continues
  <1> HIDE DEF a, b, f, q
  <1>7. ObjectInv(s) /\ Continues(r, s)
    <2>1. b.state \in Live /\ b.wire # <<>> /\ b \in Client
      BY <1>1, <1>2 DEF ObjectInv, Continues
    <2>2. /\ r \in Client /\ r.state = "READY" /\ r.subs = b.subs /\ r.upTo = b.upTo
          /\ r.pcb = b.pcb /\ r.open = b.open /\ r.tx = b.tx /\ r.wire = b.wire
          /\ r.platform = b.platform /\ r.resolveId = b.resolveId
          /\ r.dialled = b.dialled
      BY <2>1 DEF Client
    <2> HIDE DEF r
    <2>3. ObjectInv(r)
      BY <1>2, <2>1, <2>2 DEF ObjectInv, InStep, Holds, Written, Live, Wired
    <2> QED
      BY <2>2, <2>3, PendingInv
  <1>8. Keeps(b, r) /\ r.pcb = b.pcb /\ r.state = "READY" /\ r.wire = b.wire
    BY <1>2 DEF ObjectInv, Client, Keeps
  <1> HIDE DEF r, s
  <1>9. /\ ObjectInv(s) /\ Keeps(d, s) /\ s.pcb = d.pcb /\ s.state \in Live
        /\ s.wire # <<>>
    BY <1>1, <1>2, <1>7, <1>8 DEF Continues, Keeps, Live
  <1>10. \A e \in {a, q} : /\ ObjectInv(e) /\ Keeps(d, e) /\ e.pcb = d.pcb
                           /\ e.state \in Live /\ e.wire # <<>>
    BY <1>1, <1>6 DEF Continues, Keeps
  <1> QED
    BY <1>3, <1>4, <1>9, <1>10 DEF GivesUp

-----------------------------------------------------------------------------
(* The steps: the object lives on, gives its connection up, or gets one.   *)

Answers == {"CONNACK", "refused", "SUBACK", "PINGRESP", "PUBLISH"}

\* What only counts.
Counters == jam \in BOOLEAN /\ published \in 0..MaxPublish /\ faults \in 0..MaxFaults

\* Without a pcb there is no connection, and nothing on its way.
LEMMA NoConnection ==
    ASSUME ClientInv, c.state \notin Live
    PROVE  /\ c.wire = <<>> /\ c.tx = <<>> /\ c.upTo = 0 /\ rx = <<>> /\ broker = {}
           /\ c.pcb = Null => link = "none"
  BY DEF ClientInv, TypeOK, ObjectInv, Written, Holds, LinkInv, Live, Wired

\* A step in which the connection stays as it is.
LEMMA LivesOn ==
    ASSUME ClientInv, NEW d, ObjectInv(d), Keeps(c, d), d.pcb = c.pcb,
           d.state = c.state \/ (d.state \in Live /\ c.state \in Live),
           c.wire # <<>> => d.wire # <<>>,
           c' = d, rx' = rx \/ (rx # <<>> /\ rx' = Tail(rx)),
           UNCHANGED <<link, broker, lookups>>, Counters'
    PROVE  ClientInv'
  <1>1. rx' \in Seq(Answers) /\ (rx = <<>> => rx' = <<>>)
    BY DEF ClientInv, TypeOK, Answers
  <1>2. TypeOK'
    BY <1>1 DEF ClientInv, TypeOK, ObjectInv, Counters, Answers
  <1>3. LinkInv'
    BY <1>1 DEF ClientInv, LinkInv, Live
  <1>4. NoStaleAnswer'
    BY DEF ClientInv, NoStaleAnswer, Keeps, Live
  <1> QED
    BY <1>2, <1>3, <1>4 DEF ClientInv

\* A step in which the connection is given up.
LEMMA Ends ==
    ASSUME ClientInv, NEW d, ObjectInv(d), GivesUp(c, d), c' = d,
           IF c.pcb # Null THEN link' = "none" /\ rx' = <<>> /\ broker' = {}
                           ELSE UNCHANGED <<link, rx, broker>>,
           lookups' \in SUBSET lookups, Counters'
    PROVE  ClientInv'
  <1>1. link' = "none" /\ rx' = <<>> /\ broker' = {}
    <2>1. CASE c.pcb = Null
      <3>1. c.state \notin Live
        BY <2>1 DEF ClientInv, ObjectInv, Holds, Live, Wired
      <3> QED
        BY <2>1, <3>1, NoConnection
    <2> QED
      BY <2>1
  <1>2. TypeOK'
    BY <1>1 DEF ClientInv, TypeOK, ObjectInv, Counters
  <1>3. LinkInv'
    BY <1>1 DEF LinkInv
  <1>4. NoStaleAnswer'
    BY DEF NoStaleAnswer, GivesUp
  <1> QED
    BY <1>2, <1>3, <1>4 DEF ClientInv

\* reconnect() of a client object that has what c has.
LEMMA Reconnects ==
    ASSUME ClientAssumption, ClientInv, NEW d, d \in Client, Holds(d), Keeps(c, d),
           Becomes(Reconnect(d)), lookups' = lookups, Counters'
    PROVE  ClientInv'
  <1>1. ObjectInv(Reconnect(d)) /\ GivesUp(d, Reconnect(d))
    BY ReconnectInv DEF Holds
  <1>2. GivesUp(c, Reconnect(d))
    BY <1>1 DEF GivesUp, Keeps
  <1> QED
    BY <1>1, <1>2, Ends DEF Becomes, GivesUp

\* The object goes on with its connection.
LEMMA BecomesSame ==
    ASSUME ClientAssumption, ClientInv, NEW d, ObjectInv(d), Continues(c, d),
           Becomes(d), lookups' = lookups, Counters'
    PROVE  ClientInv'
  BY LivesOn DEF Becomes, Continues

\* An address dialled, or the lookup failed.
LEMMA OnResolvedInv ==
    ASSUME ClientAssumption, ClientInv, NEW d, ObjectInv(d), d.state = "RESOLVING",
           d.platform = c.platform, c.pcb = Null, OnResolved(d, d.resolveId),
           lookups' \in SUBSET lookups, Counters'
    PROVE  ClientInv'
  <1>1. /\ d \in Client /\ d.pcb = Null /\ d.open = {} /\ d.wire = <<>> /\ d.tx = <<>>
        /\ d.upTo = 0
    BY DEF ObjectInv, Holds, Written, Wired, Live
  <1>2. link = "none" /\ rx = <<>> /\ broker = {}
    <2>1. c.state \notin Live
      BY DEF ClientInv, ObjectInv, Holds, Live, Wired
    <2> QED
      BY <2>1, NoConnection
  <1>3. NewPcb(d) \in Pcb /\ NewPcb(d) # Null
    BY <1>1 DEF NewPcb, ClientAssumption
  <1>4. CASE link' = "syn"
    <2> DEFINE fresh == NewPcb(d)
               o == d.open \cup {fresh}
               e == [d EXCEPT !.pcb = fresh, !.open = o, !.state = "CONNECTING",
                              !.late = FALSE, !.dialled = d.resolveId]
    <2>1. c' = e /\ rx' = rx /\ broker' = broker
      BY <1>1, <1>2, <1>4 DEF OnResolved, Becomes, Client
    <2>2. o = {fresh} /\ fresh \in Pcb /\ fresh # Null /\ o \in SUBSET Pcb
      BY <1>1, <1>3
    <2> HIDE DEF fresh, o
    <2>3. /\ e \in Client /\ e.pcb = fresh /\ e.open = o /\ e.state = "CONNECTING"
          /\ e.dialled = d.resolveId /\ e.resolveId = d.resolveId
          /\ e.wire = <<>> /\ e.tx = <<>> /\ e.upTo = 0 /\ e.subs = d.subs
      BY ZenonT(60), <1>1, <2>2 DEF Client
    <2> HIDE DEF e
    <2>4. ObjectInv(e)
      BY <1>1, <2>2, <2>3 DEF ObjectInv, InStep, Holds, Written, Wired, Live
    <2>5. TypeOK'
      BY <1>4, <2>1, <2>3 DEF ClientInv, TypeOK, Counters
    <2>6. LinkInv' /\ NoStaleAnswer'
      BY <1>2, <1>4, <2>1, <2>3 DEF LinkInv, NoStaleAnswer
    <2> QED
      BY <2>1, <2>4, <2>5, <2>6 DEF ClientInv
  <1>5. CASE link' # "syn"
    <2> DEFINE e == [d EXCEPT !.state = "DISCONNECTED", !.timer = "armed"]
    <2>1. c' = e /\ UNCHANGED <<link, rx, broker>>
      BY <1>5 DEF OnResolved, Becomes, ArmReconnectTimer
    <2>2. /\ e \in Client /\ e.state = "DISCONNECTED" /\ e.pcb = Null /\ e.open = {}
          /\ e.wire = <<>> /\ e.tx = <<>> /\ e.upTo = 0 /\ e.subs = d.subs
      BY ZenonT(60), <1>1 DEF Client
    <2> HIDE DEF e
    <2>3. ObjectInv(e)
      BY <1>1, <2>2 DEF ObjectInv, InStep, Holds, Written, Wired, Live
    <2>4. TypeOK'
      BY <2>1, <2>2 DEF ClientInv, TypeOK, Counters
    <2>5. LinkInv' /\ NoStaleAnswer'
      BY <1>2, <2>1, <2>2 DEF LinkInv, NoStaleAnswer
    <2> QED
      BY <2>1, <2>3, <2>4, <2>5 DEF ClientInv
  <1> QED
    BY <1>4, <1>5

\* tcpConnect(), from begin() or when the timer is due.
LEMMA TcpConnectInv ==
    ASSUME ClientAssumption, ClientInv, c.state \in {"NEW", "DISCONNECTED"},
           NEW d, d \in {c, [c EXCEPT !.timer = "off"]}, TcpConnect(d),
           jam' = jam, Counters'
    PROVE  ClientInv'
  <1>1. /\ c \in Client /\ c.pcb = Null /\ c.open = {} /\ c.wire = <<>> /\ c.tx = <<>>
        /\ c.upTo = 0 /\ link = "none" /\ rx = <<>> /\ broker = {}
    BY NoConnection DEF ClientInv, ObjectInv, Holds, Wired, Live
  <1> DEFINE e == TcpDisconnect(d)
  <1>2. /\ e \in Client /\ e.pcb = Null /\ e.open = {} /\ e.wire = <<>> /\ e.tx = <<>>
        /\ e.upTo = 0 /\ e.platform = c.platform
    <2>1. /\ d \in Client /\ d.pcb = Null /\ d.open = {} /\ d.upTo = 0
          /\ d.platform = c.platform
      BY SMTT(30), <1>1 DEF Client
    <2> DEFINE o == d.open \ {d.pcb}
    <2>2. e = [d EXCEPT !.open = o, !.pcb = Null, !.tx = <<>>, !.wire = <<>>]
      BY <2>1 DEF TcpDisconnect, Client
    <2>3. <<>> \in Seq(Packet) /\ o = {} /\ o \in SUBSET Pcb
      BY <2>1
    <2> HIDE DEF e, o
    <2> QED
      BY ZenonT(60), <2>1, <2>2, <2>3 DEF Client
  <1> HIDE DEF e
  <1>3. CASE c.platform = "RP2040"
    <2> DEFINE id == (e.resolveId + 1) % IdMod
               f == [e EXCEPT !.state = "RESOLVING", !.late = FALSE, !.resolveId = id]
    <2>1. Resolve(f)
      BY <1>2, <1>3 DEF TcpConnect, Client, e
    <2>2. id \in 0 .. IdMod - 1
      <3>1. e.resolveId + 1 \in Nat /\ IdMod \in Nat \ {0}
        BY <1>2 DEF Client, ClientAssumption
      <3> QED
        BY <3>1, ModType
    <2> HIDE DEF id
    <2>3. /\ f \in Client /\ f.state = "RESOLVING" /\ f.pcb = Null /\ f.open = {}
          /\ f.wire = <<>> /\ f.tx = <<>> /\ f.upTo = 0 /\ f.platform = c.platform
          /\ f.resolveId = id /\ f.subs = e.subs
      BY ZenonT(60), <1>2, <2>2 DEF Client
    <2> HIDE DEF f
    <2>4. ObjectInv(f)
      <3>1. f.subs \in Nat
        BY <2>3 DEF Client
      <3>2. Len(f.tx) = 0 /\ SendBuf \in Nat /\ Subscribing(f.wire) = {} /\ 1..f.upTo = {}
        BY <2>3 DEF ClientAssumption, Subscribing
      <3> QED
        BY <2>3, <3>1, <3>2 DEF ObjectInv, InStep, History, Holds, Written, Wired, Live
    <2>5. CASE Becomes(f) /\ lookups' = lookups \cup {f.resolveId}
      <3>1. c' = f /\ UNCHANGED <<link, rx, broker>>
        BY <1>1, <2>5 DEF Becomes
      <3>2. TypeOK'
        BY <2>2, <2>3, <2>5, <3>1 DEF ClientInv, TypeOK, Counters
      <3>3. LinkInv' /\ NoStaleAnswer'
        BY <1>1, <2>3, <2>5, <3>1 DEF LinkInv, NoStaleAnswer
      <3> QED
        BY <2>4, <3>1, <3>2, <3>3 DEF ClientInv
    <2>6. CASE OnResolved(f, f.resolveId) /\ lookups' = lookups
      BY <1>1, <2>3, <2>4, <2>6, OnResolvedInv
    <2> QED
      BY <2>1, <2>5, <2>6 DEF Resolve
  <1>4. CASE c.platform # "RP2040"
    <2> DEFINE fresh == NewPcb(e)
               o == e.open \cup {fresh}
               f == [e EXCEPT !.pcb = fresh, !.open = o, !.state = "CONNECTING", !.late = FALSE]
               g == [f EXCEPT !.state = "CONNECTED"]
    <2>1. Connect(f)
      BY <1>2, <1>4 DEF TcpConnect, Client, e
    <2>2. o = {fresh} /\ fresh \in Pcb /\ fresh # Null /\ o \in SUBSET Pcb
      BY <1>2 DEF NewPcb, ClientAssumption
    <2> HIDE DEF fresh, o
    <2>3. /\ f \in Client /\ f.state = "CONNECTING" /\ f.pcb = fresh /\ f.open = o
          /\ f.wire = <<>> /\ f.tx = <<>> /\ f.upTo = 0 /\ f.platform = c.platform
          /\ f.subs = e.subs
      BY ZenonT(60), <1>2, <2>2 DEF Client
    <2> HIDE DEF f
    <2>4. ObjectInv(f)
      <3>1. f.subs \in Nat
        BY <2>3 DEF Client
      <3>2. Len(f.tx) = 0 /\ SendBuf \in Nat /\ Subscribing(f.wire) = {} /\ 1..f.upTo = {}
        BY <2>3 DEF ClientAssumption, Subscribing
      <3> QED
        BY <2>2, <2>3, <3>1, <3>2
           DEF ObjectInv, InStep, History, Holds, Written, Wired, Live
    <2>5. /\ g \in Client /\ g.state = "CONNECTED" /\ g.pcb = fresh /\ g.open = o
          /\ g.wire = <<>> /\ g.tx = <<>> /\ g.upTo = 0 /\ g.platform = c.platform
      BY SMTT(30), <2>3 DEF Client
    <2> HIDE DEF g
    <2>6. CASE c' = SendConnect(g) /\ link' = "up" /\ UNCHANGED <<rx, broker, lookups>>
      <3>1. ObjectInv(SendConnect(g)) /\ Continues(g, SendConnect(g))
        BY <2>2, <2>5, SendConnectInv DEF Holds, Wired, ClientInv, TypeOK
      <3>2. TypeOK'
        BY <2>6, <3>1 DEF ClientInv, TypeOK, ObjectInv, Counters
      <3>3. LinkInv' /\ NoStaleAnswer'
        BY <1>1, <1>4, <2>5, <2>6, <3>1
           DEF LinkInv, NoStaleAnswer, Continues, Keeps, Live
      <3> QED
        BY <2>6, <3>1, <3>2, <3>3 DEF ClientInv
    <2>7. CASE c' = f /\ UNCHANGED <<link, rx, broker, lookups>>
      <3>1. TypeOK'
        BY <2>3, <2>7 DEF ClientInv, TypeOK, Counters
      <3>2. LinkInv' /\ NoStaleAnswer'
        BY <1>1, <1>4, <2>3, <2>7 DEF LinkInv, NoStaleAnswer
      <3> QED
        BY <2>4, <2>7, <3>1, <3>2 DEF ClientInv
    <2> QED
      BY <2>1, <2>6, <2>7 DEF Connect, g
  <1> QED
    BY <1>3, <1>4

\* The counters keep their bounds.
LEMMA CountersStep ==
    ASSUME ClientAssumption, TypeOK, [Next]_vars
    PROVE  Counters'
  <1> USE DEF Counters, Fault
  <1>1. CASE UNCHANGED vars
    BY <1>1 DEF vars, TypeOK
  <1>2. /\ jam' \in {jam, TRUE, FALSE}
        /\ \/ published' = published
           \/ published < MaxPublish /\ published' = published + 1
    BY DEF vars, Next, Begin, Subscribe, Publish, Loop, LoopDials,
           LoopDnsTimeout, LoopConnectTimeout, LoopConnackTimeout, LoopSilence,
           LoopConnected, LoopReady, Callback, DnsAnswers, LwipConnected, LwipRecv,
           LwipFin, LwipErr, PeerCloses, PeerVanishes, MemoryRunsOut, MemoryReturns,
           BrokerReads, BrokerPublishes, TimerElapses, PingElapses, WaitElapses
  <1>3. faults' = faults \/ (faults < MaxFaults /\ faults' = faults + 1)
    BY DEF vars, Next, Begin, Subscribe, Publish, Loop, LoopDials,
           LoopDnsTimeout, LoopConnectTimeout, LoopConnackTimeout, LoopSilence,
           LoopConnected, LoopReady, Callback, DnsAnswers, LwipConnected, LwipRecv,
           LwipFin, LwipErr, PeerCloses, PeerVanishes, MemoryRunsOut, MemoryReturns,
           BrokerReads, BrokerPublishes, TimerElapses, PingElapses, WaitElapses,
           TcpConnect, Resolve, OnResolved, Connect
  <1> QED
    <2>1. jam' \in BOOLEAN
      BY <1>2 DEF TypeOK
    <2>2. published' \in 0..MaxPublish
      BY <1>2 DEF TypeOK, ClientAssumption
    <2>3. faults' \in 0..MaxFaults
      BY <1>3 DEF TypeOK, ClientAssumption
    <2> QED
      BY <2>1, <2>2, <2>3

-----------------------------------------------------------------------------
(* One lemma per group of actions.                                         *)

\* At first nothing is open and nothing is sent.
LEMMA ClientInitInv == ClientAssumption /\ Init => ClientInv
  <1> SUFFICES ASSUME ClientAssumption, Init
               PROVE  ClientInv
    OBVIOUS
  <1>1. /\ 0 \in 0..MaxSubs /\ 0 \in 0 .. IdMod - 1 /\ 1 \in 0 .. MsgIdMod - 1
        /\ 0 \in 0..MaxPublish /\ 0 \in 0..MaxFaults /\ SendBuf \in Nat
    BY DEF ClientAssumption
  <1>2. /\ c.state = "NEW" /\ c.upTo = 0 /\ c.subs = 0 /\ c.pcb = Null /\ c.open = {}
        /\ c.tx = <<>> /\ c.wire = <<>>
    BY DEF Init
  <1>3. c \in Client
    <2>1. <<>> \in Seq(Packet) /\ {} \in SUBSET Pcb
      OBVIOUS
    <2>2. PICK p \in Platforms :
             c = [platform |-> p, state |-> "NEW", timer |-> "off", late |-> FALSE,
                  pingDue |-> FALSE, pinged |-> FALSE, subs |-> 0, upTo |-> 0,
                  msgId |-> 1, resolveId |-> 0, dialled |-> 0,
                  pcb |-> Null, open |-> {}, tx |-> <<>>, wire |-> <<>>]
      BY DEF Init
    <2> QED
      BY <1>1, <2>1, <2>2 DEF Client
  <1>4. ObjectInv(c)
    <2>1. Len(c.tx) = 0 /\ Subscribing(c.wire) = {} /\ 1..c.upTo = {}
      BY <1>2 DEF Subscribing
    <2> QED
      BY <1>1, <1>2, <1>3, <2>1
         DEF ObjectInv, InStep, History, Holds, Written, Wired, Live
  <1>5. TypeOK
    <2>1. rx \in Seq(Answers)
      BY DEF Init
    <2> QED
      BY <1>1, <1>3, <2>1 DEF Init, TypeOK, Answers
  <1>6. LinkInv /\ NoStaleAnswer
    BY <1>2 DEF Init, LinkInv, NoStaleAnswer
  <1> QED
    BY <1>4, <1>5, <1>6 DEF ClientInv

\* The API.
LEMMA ApiStep ==
    ASSUME ClientAssumption, ClientInv, Counters',
           Begin \/ Subscribe \/ \E qos \in Qos : Publish(qos)
    PROVE  ClientInv'
  <1>1. c \in Client /\ ObjectInv(c) /\ jam \in BOOLEAN
    BY DEF ClientInv, TypeOK
  <1>2. CASE Begin
    BY <1>2, TcpConnectInv DEF Begin
  <1>3. CASE Subscribe
    <2> DEFINE m == c.subs + 1
               d == [c EXCEPT !.subs = m]
    <2>1. m \in 0..MaxSubs /\ c.upTo <= m /\ c.upTo \in Nat
      BY SMTT(30), <1>1, <1>3 DEF Subscribe, ClientAssumption, Client, ObjectInv, Written
    <2> HIDE DEF m
    <2>2. /\ d \in Client /\ d.subs = m /\ d.state = c.state /\ d.upTo = c.upTo
          /\ d.pcb = c.pcb /\ d.open = c.open /\ d.tx = c.tx /\ d.wire = c.wire
          /\ d.platform = c.platform /\ d.resolveId = c.resolveId /\ d.dialled = c.dialled
      BY <1>1, <2>1 DEF Client
    <2>3. Becomes(IF c.state = "READY" THEN SendPendingSubscriptions(d) ELSE d)
      BY <1>1, <1>3 DEF Subscribe, Client, m
    <2> HIDE DEF d
    <2>4. ObjectInv(d) /\ Continues(c, d)
      BY <1>1, <2>1, <2>2 DEF ObjectInv, InStep, Holds, Written, Continues, Keeps
    <2>5. CASE c.state = "READY"
      <3>1. /\ ObjectInv(SendPendingSubscriptions(d))
            /\ Continues(d, SendPendingSubscriptions(d))
        BY <1>1, <2>2, <2>4, <2>5, PendingInv
      <3>2. Continues(c, SendPendingSubscriptions(d))
        BY <2>4, <3>1 DEF Continues, Keeps
      <3> QED
        BY <1>3, <2>3, <2>5, <3>1, <3>2, BecomesSame DEF Subscribe
    <2>6. CASE c.state # "READY"
      BY <1>3, <2>3, <2>4, <2>6, BecomesSame DEF Subscribe
    <2> QED
      BY <2>5, <2>6
  <1>4. ASSUME NEW qos \in Qos, Publish(qos)
        PROVE  ClientInv'
    <2> DEFINE id == IF qos > 0 THEN c.msgId ELSE 0
               m == IF qos > 0 THEN (c.msgId + 1) % MsgIdMod ELSE c.msgId
               d == [c EXCEPT !.msgId = m]
               p == BuildPublish(id, qos)
    <2>1. c.msgId \in 0 .. MsgIdMod - 1 /\ MsgIdMod \in Nat \ {0} /\ qos \in 0..2
      BY <1>1 DEF Client, ClientAssumption
    <2>2. id \in 0 .. MsgIdMod - 1 /\ m \in 0 .. MsgIdMod - 1
      <3>1. c.msgId + 1 \in Nat /\ 0 \in 0 .. MsgIdMod - 1
        BY <2>1
      <3>2. (c.msgId + 1) % MsgIdMod \in 0 .. MsgIdMod - 1
        BY <2>1, <3>1, ModType
      <3> QED
        BY <2>1, <3>1, <3>2
    <2>3. Becomes(SendRaw(d, p))
      BY <1>1, <1>4 DEF Publish, Client
    <2> HIDE DEF id, m
    <2>4. /\ d \in Client /\ d.subs = c.subs /\ d.state = c.state /\ d.upTo = c.upTo
          /\ d.pcb = c.pcb /\ d.open = c.open /\ d.tx = c.tx /\ d.wire = c.wire
          /\ d.platform = c.platform /\ d.resolveId = c.resolveId /\ d.dialled = c.dialled
      BY <1>1, <2>2 DEF Client
    <2>5. p \in Packet /\ p.type = "PUBLISH"
      BY <2>1, <2>2, PacketType DEF BuildPublish, Pkt
    <2> HIDE DEF d, p
    <2>6. ObjectInv(d) /\ d.state = "READY" /\ d.wire # <<>>
      BY <1>1, <1>4, <2>4, FlagsInv DEF Publish, ObjectInv, Written
    <2>7. ObjectInv(SendRaw(d, p)) /\ Continues(d, SendRaw(d, p))
      BY <1>1, <2>5, <2>6, SendRawInv
    <2>8. Continues(c, SendRaw(d, p))
      BY <2>4, <2>7 DEF Continues, Keeps
    <2> QED
      BY <1>4, <2>3, <2>7, <2>8, BecomesSame DEF Publish
  <1> QED
    BY <1>2, <1>3, <1>4

\* A packet is read; the connection lives on or ends.
LEMMA PacketRead ==
    ASSUME ClientAssumption, ClientInv, Counters', rx # <<>>, c.state \in Live,
           NEW d, ObjectInv(d), Continues(c, d),
           c' = ProcessPacket(d, Head(rx)),
           IF c'.pcb = Null THEN link' = "none" /\ rx' = <<>> /\ broker' = {}
                            ELSE rx' = Tail(rx) /\ UNCHANGED <<link, broker>>,
           lookups' = lookups
    PROVE  ClientInv'
  <1> DEFINE e == ProcessPacket(d, Head(rx))
  <1>1. d.wire # <<>> /\ d.state \in Live /\ c.pcb # Null /\ d.pcb = c.pcb
    BY DEF ClientInv, ObjectInv, LinkInv, Holds, Live, Wired, Continues
  <1>2. /\ ObjectInv(e) /\ Keeps(d, e)
        /\ \/ e.pcb = d.pcb /\ e.state \in Live /\ e.wire # <<>>
           \/ GivesUp(d, e)
    BY <1>1, ProcessPacketInv DEF ClientInv, TypeOK
  <1>3. c' = e
    OBVIOUS
  <1> HIDE DEF e
  <1>4. Keeps(c, e)
    BY <1>2 DEF Continues, Keeps
  <1>5. CASE GivesUp(d, e)
    <2>1. GivesUp(c, e) /\ c'.pcb = Null
      BY <1>3, <1>4, <1>5 DEF GivesUp
    <2> QED
      BY <1>1, <1>2, <1>3, <2>1, Ends
  <1>6. CASE e.pcb = d.pcb /\ e.state \in Live /\ e.wire # <<>>
    <2>1. rx' = Tail(rx) /\ UNCHANGED <<link, broker>>
      BY <1>1, <1>3, <1>6
    <2> QED
      BY <1>1, <1>2, <1>3, <1>4, <1>6, <2>1, LivesOn
  <1> QED
    BY <1>2, <1>5, <1>6

\* A ping on the way, if one is due.
LEMMA PingedInv ==
    ASSUME ClientAssumption, ClientInv, c.state = "READY"
    PROVE  ObjectInv(Pinged) /\ Continues(c, Pinged)
  <1>1. ObjectInv(c) /\ jam \in BOOLEAN
    BY DEF ClientInv, TypeOK
  <1>2. Continues(c, c)
    BY DEF Continues, Keeps
  <1> QED
    BY <1>1, <1>2, PingReqInv DEF Pinged

\* Reading at the end of loop().
LEMMA ReadInv ==
    ASSUME ClientAssumption, ClientInv, Counters', c.state \in Live, NEW d, ObjectInv(d),
           Continues(c, d), Read(d), lookups' = lookups
    PROVE  ClientInv'
  <1>1. CASE Becomes(d)
    BY <1>1, BecomesSame
  <1>2. CASE Becomes(Reconnect(d))
    BY <1>2, Reconnects DEF ObjectInv, Continues
  <1>3. CASE /\ rx # <<>> /\ c' = ProcessPacket(d, Head(rx))
             /\ IF c'.pcb = Null
                THEN link' = "none" /\ rx' = <<>> /\ broker' = {}
                ELSE rx' = Tail(rx) /\ UNCHANGED <<link, broker>>
    BY <1>3, PacketRead
  <1> QED
    BY <1>1, <1>2, <1>3 DEF Read

\* loop(), in any state of the client.
LEMMA LoopStep ==
    ASSUME ClientAssumption, ClientInv, Counters', Loop
    PROVE  ClientInv'
  <1>1. c \in Client /\ ObjectInv(c) /\ Holds(c) /\ Keeps(c, c) /\ jam \in BOOLEAN
    BY DEF ClientInv, TypeOK, ObjectInv, Keeps
  <1>2. CASE LoopDials
    BY <1>2, TcpConnectInv DEF LoopDials
  <1>3. CASE LoopDnsTimeout
    <2> DEFINE d == [c EXCEPT !.state = "DISCONNECTED", !.timer = "armed"]
    <2>1. c.pcb = Null /\ c.open = {} /\ c.wire = <<>> /\ c.tx = <<>> /\ c.upTo = 0
      BY <1>1, <1>3 DEF LoopDnsTimeout, ObjectInv, Holds, Written, Wired, Live
    <2>2. /\ d \in Client /\ d.state = "DISCONNECTED" /\ d.pcb = Null /\ d.open = {}
          /\ d.wire = <<>> /\ d.tx = <<>> /\ d.upTo = 0 /\ d.subs = c.subs
          /\ d.platform = c.platform /\ d.resolveId = c.resolveId /\ d.dialled = c.dialled
      BY ZenonT(60), <1>1, <2>1 DEF Client
    <2>3. Becomes(d)
      BY <1>3 DEF LoopDnsTimeout, ArmReconnectTimer
    <2> HIDE DEF d
    <2>4. ObjectInv(d) /\ GivesUp(c, d)
      BY <1>1, <2>1, <2>2
         DEF ObjectInv, InStep, Holds, Written, Wired, Live, GivesUp, Keeps
    <2> QED
      BY <1>3, <2>1, <2>3, <2>4, Ends DEF Becomes, LoopDnsTimeout
  <1>4. CASE LoopConnectTimeout \/ LoopConnackTimeout
    BY <1>1, <1>4, Reconnects DEF LoopConnectTimeout, LoopConnackTimeout
  <1>5. CASE LoopSilence
    <2>1. ObjectInv(Pinged) /\ Continues(c, Pinged)
      BY <1>5, PingedInv DEF LoopSilence
    <2> QED
      BY <1>5, <2>1, Reconnects DEF LoopSilence, ObjectInv, Continues
  <1>6. CASE LoopConnected
    BY <1>1, <1>6, ReadInv DEF LoopConnected, Continues, Live
  <1>7. CASE LoopReady
    <2> DEFINE d == SendPendingSubscriptions(Pinged)
    <2>1. ObjectInv(Pinged) /\ Continues(c, Pinged) /\ c.state = "READY"
      BY <1>7, PingedInv DEF LoopReady
    <2>2. ObjectInv(d) /\ Continues(Pinged, d)
      BY <1>1, <2>1, PendingInv DEF Continues
    <2>3. Continues(c, d)
      BY <2>1, <2>2 DEF Continues, Keeps
    <2> QED
      BY <1>7, <2>1, <2>2, <2>3, ReadInv DEF LoopReady, Live
  <1> QED
    BY <1>2, <1>3, <1>4, <1>5, <1>6, <1>7 DEF Loop

\* The callbacks of the RP2040.
LEMMA CallbackStep ==
    ASSUME ClientAssumption, ClientInv, Counters', Callback \/ LwipFin \/ LwipErr
    PROVE  ClientInv'
  <1>1. /\ c \in Client /\ ObjectInv(c) /\ Holds(c) /\ Keeps(c, c) /\ Continues(c, c)
        /\ jam \in BOOLEAN
    BY DEF ClientInv, TypeOK, ObjectInv, Keeps, Continues
  <1>2. ASSUME NEW id \in lookups, DnsAnswers(id)
        PROVE  ClientInv'
    <2>1. lookups' = lookups \ {id}
      BY <1>2 DEF DnsAnswers
    <2>2. CASE id = c.resolveId /\ c.state = "RESOLVING"
      <3>1. OnResolved(c, c.resolveId)
        BY <1>2, <2>2 DEF DnsAnswers
      <3>2. c.pcb = Null
        BY <1>1, <2>2 DEF Holds, Wired
      <3> QED
        BY <1>1, <2>1, <2>2, <3>1, <3>2, OnResolvedInv
    <2>3. CASE ~(id = c.resolveId /\ c.state = "RESOLVING")
      <3>1. UNCHANGED <<c, link, rx, broker>>
        BY <1>2, <2>3 DEF DnsAnswers
      <3> QED
        BY <2>1, <2>3, <3>1
           DEF ClientInv, TypeOK, Counters, LinkInv, NoStaleAnswer
    <2> QED
      BY <2>2, <2>3
  <1>3. CASE LwipConnected
    <2> DEFINE g == [c EXCEPT !.state = "CONNECTED"]
    <2>1. c.state = "CONNECTING" /\ c.wire = <<>> /\ c.tx = <<>> /\ c.upTo = 0
      BY <1>1, <1>3 DEF LwipConnected, ClientInv, LinkInv, ObjectInv, Written, Live
    <2>2. /\ g \in Client /\ g.state = "CONNECTED" /\ g.pcb = c.pcb /\ g.open = c.open
          /\ g.wire = <<>> /\ g.tx = <<>> /\ g.upTo = 0
          /\ g.platform = c.platform /\ g.resolveId = c.resolveId /\ g.dialled = c.dialled
      BY SMTT(30), <1>1, <2>1 DEF Client
    <2>3. c' = SendConnect(g) /\ link' = "up" /\ UNCHANGED <<rx, broker, lookups>>
      BY <1>3 DEF LwipConnected
    <2> HIDE DEF g
    <2>4. ObjectInv(SendConnect(g)) /\ Continues(g, SendConnect(g))
      BY <1>1, <2>1, <2>2, SendConnectInv DEF Holds, Wired
    <2>5. TypeOK'
      BY <2>3, <2>4 DEF ClientInv, TypeOK, ObjectInv, Counters
    <2>6. rx = <<>> /\ broker = {}
      BY <2>1 DEF ClientInv, LinkInv
    <2>7. LinkInv' /\ NoStaleAnswer'
      BY <2>2, <2>3, <2>4, <2>6
         DEF ClientInv, LinkInv, NoStaleAnswer, Continues, Keeps, Live
    <2> QED
      BY <2>3, <2>4, <2>5, <2>7 DEF ClientInv
  <1>4. CASE LwipRecv
    <2>1. c.state \in Live
      BY <1>4 DEF LwipRecv, ClientInv, LinkInv
    <2> QED
      BY <1>1, <1>4, <2>1, PacketRead DEF LwipRecv
  <1>5. CASE LwipFin
    BY <1>1, <1>5, Reconnects DEF LwipFin
  <1>6. CASE LwipErr
    <2> DEFINE o == c.open \ {c.pcb}
               d == [c EXCEPT !.open = o, !.pcb = Null, !.tx = <<>>, !.wire = <<>>]
    <2>1. o = {} /\ <<>> \in Seq(Packet) /\ o \in SUBSET Pcb
      BY <1>1 DEF Holds
    <2>2. Becomes(Reconnect(d))
      BY <1>1, <1>6 DEF LwipErr, Client
    <2> HIDE DEF o
    <2>3. /\ d \in Client /\ d.pcb = Null /\ d.open = {} /\ Keeps(c, d)
      BY <1>1, <2>1 DEF Client, Keeps
    <2> HIDE DEF d
    <2>4. ObjectInv(Reconnect(d)) /\ GivesUp(d, Reconnect(d))
      BY <2>3, ReconnectInv
    <2>5. GivesUp(c, Reconnect(d))
      BY <2>3, <2>4 DEF GivesUp, Keeps
    <2> QED
      BY <1>6, <2>2, <2>4, <2>5, Ends DEF Becomes, GivesUp, LwipErr
  <1> QED
    BY <1>2, <1>3, <1>4, <1>5, <1>6 DEF Callback

\* Flags and timers of the object change, and what only counts.
LEMMA FlagsStep ==
    ASSUME ClientInv, Counters', c' \in Client, Continues(c, c'), c'.subs = c.subs,
           c'.upTo = c.upTo, c'.open = c.open, c'.tx = c.tx, c'.wire = c.wire,
           UNCHANGED <<link, rx, broker, lookups>>
    PROVE  ClientInv'
  <1>1. ObjectInv(c)'
    BY FlagsInv DEF ClientInv, Continues, ObjectInv, InStep, Holds, Written
  <1>2. TypeOK'
    BY DEF ClientInv, TypeOK, Counters
  <1>3. LinkInv' /\ NoStaleAnswer'
    BY DEF ClientInv, LinkInv, NoStaleAnswer, Continues, Keeps
  <1> QED
    BY <1>1, <1>2, <1>3 DEF ClientInv

\* The connection, memory and time.
LEMMA NetworkStep ==
    ASSUME ClientAssumption, ClientInv, Counters',
           \/ PeerCloses \/ PeerVanishes \/ MemoryRunsOut \/ MemoryReturns
           \/ BrokerPublishes \/ TimerElapses \/ PingElapses \/ WaitElapses
    PROVE  ClientInv'
  <1>1. c \in Client
    BY DEF ClientInv, TypeOK
  <1>2. CASE PeerCloses \/ PeerVanishes \/ BrokerPublishes
    <2>1. rx' \in Seq(Answers)
      <3>1. rx' \in {rx, <<>>, <<"PUBLISH">>}
        BY <1>2 DEF PeerCloses, PeerVanishes, BrokerPublishes
      <3>2. rx \in Seq(Answers) /\ <<>> \in Seq(Answers) /\ <<"PUBLISH">> \in Seq(Answers)
        BY DEF ClientInv, TypeOK, Answers
      <3> QED
        BY <3>1, <3>2
    <2>2. /\ c' = c /\ UNCHANGED <<broker, lookups>> /\ link = "up"
          /\ link' \in {"up", "down", "dead"}
      BY <1>2 DEF PeerCloses, PeerVanishes, BrokerPublishes
    <2>3. c.wire = <<>> => rx' = <<>>
      BY <1>2 DEF PeerCloses, PeerVanishes, BrokerPublishes, ClientInv, LinkInv
    <2>4. TypeOK'
      BY <2>1, <2>2 DEF ClientInv, TypeOK, Counters, Answers
    <2> QED
      BY <2>2, <2>3, <2>4 DEF ClientInv, LinkInv, NoStaleAnswer
  <1>3. CASE MemoryRunsOut \/ MemoryReturns
    <2>1. c' = c /\ UNCHANGED <<link, rx, broker, lookups>>
      BY <1>3 DEF MemoryRunsOut, MemoryReturns
    <2> QED
      BY <1>1, <2>1, FlagsStep DEF Continues, Keeps
  <1>4. CASE TimerElapses
    BY <1>1, <1>4, FlagsStep DEF TimerElapses, Client, Continues, Keeps
  <1>5. CASE PingElapses
    BY <1>1, <1>5, FlagsStep DEF PingElapses, Client, Continues, Keeps
  <1>6. CASE WaitElapses
    BY <1>1, <1>6, FlagsStep DEF WaitElapses, Client, Continues, Keeps
  <1> QED
    BY <1>2, <1>3, <1>4, <1>5, <1>6

\* The broker reads a packet and answers.
LEMMA BrokerStep ==
    ASSUME ClientAssumption, ClientInv, Counters', BrokerReads
    PROVE  ClientInv'
  <1> DEFINE t == Tail(c.tx)
             d == [c EXCEPT !.tx = t]
             p == Head(c.tx)
  <1>1. c \in Client /\ ObjectInv(c) /\ c.tx \in Seq(Packet) /\ c.tx # <<>>
    BY DEF ClientInv, TypeOK, ObjectInv, Client, BrokerReads
  <1>2. /\ t \in Seq(Packet) /\ Len(c.tx) \in Nat \ {0} /\ Len(t) = Len(c.tx) - 1
        /\ \A i \in 1..Len(t) : t[i] = c.tx[i + 1] /\ i + 1 \in 1..Len(c.tx)
    BY <1>1
  <1>3. p \in Packet /\ p = c.tx[1]
    BY <1>1
  <1>4. c' = d /\ UNCHANGED <<link, lookups>>
    BY <1>1 DEF BrokerReads, Client
  <1> HIDE DEF t
  <1>5. /\ d \in Client /\ d.tx = t /\ d.state = c.state /\ d.upTo = c.upTo
        /\ d.subs = c.subs /\ d.pcb = c.pcb /\ d.open = c.open /\ d.wire = c.wire
        /\ d.platform = c.platform /\ d.resolveId = c.resolveId /\ d.dialled = c.dialled
    BY <1>1, <1>2 DEF Client
  <1> HIDE DEF d, p
  <1>6. c.wire # <<>>
    BY <1>1 DEF ObjectInv, Written
  <1>7. ObjectInv(d)
    <2>1. \A i \in 1..Len(t) : t[i].type = "SUBSCRIBE" => t[i].n >= 1
      BY <1>1, <1>2 DEF ObjectInv, Written
    <2>2. Len(t) <= SendBuf
      BY <1>1, <1>2 DEF ObjectInv, Written, ClientAssumption
    <2> QED
      BY <1>1, <1>5, <1>6, <2>1, <2>2 DEF ObjectInv, InStep, Holds, Written
  <1>8. broker' \subseteq 1..MaxSubs
    <2>1. p.type = "SUBSCRIBE" => p.n \in 1..MaxSubs
      <3>1. 1 \in 1..Len(c.tx)
        BY <1>2
      <3>2. p.type = "SUBSCRIBE" => p.n >= 1
        BY <1>1, <1>3, <3>1 DEF ObjectInv, Written
      <3>3. p.n \in 0..MaxSubs /\ MaxSubs \in Nat
        BY <1>3 DEF Packet, ClientAssumption
      <3> QED
        BY <3>2, <3>3
    <2>2. broker' = broker \/ (p.type = "SUBSCRIBE" /\ broker' = broker \cup {p.n})
      BY DEF BrokerReads, p
    <2> QED
      BY <2>1, <2>2 DEF ClientInv, TypeOK
  <1>9. rx' \in Seq(Answers)
    <2>1. rx' = rx \/ \E a \in Answers : rx' = Append(rx, a)
      BY DEF BrokerReads, Answers
    <2>2. rx \in Seq(Answers)
      BY DEF ClientInv, TypeOK, Answers
    <2> QED
      BY <2>1, <2>2
  <1>10. TypeOK'
    BY <1>4, <1>5, <1>8, <1>9 DEF ClientInv, TypeOK, Counters, Answers
  <1>11. LinkInv' /\ NoStaleAnswer'
    BY <1>4, <1>5, <1>6 DEF ClientInv, LinkInv, NoStaleAnswer
  <1> QED
    BY <1>4, <1>7, <1>10, <1>11 DEF ClientInv

\* Every step keeps the invariant.
LEMMA NextStep ==
    ASSUME ClientAssumption, ClientInv, [Next]_vars
    PROVE  ClientInv'
  <1>1. Counters'
    BY CountersStep DEF ClientInv
  <1>2. CASE UNCHANGED vars
    BY <1>2 DEF vars, ClientInv, TypeOK, ObjectInv, InStep, Holds, Written, LinkInv,
                NoStaleAnswer
  <1>3. CASE Next
    BY <1>1, <1>3, ApiStep, LoopStep, CallbackStep, NetworkStep, BrokerStep DEF Next
  <1> QED
    BY <1>2, <1>3

\* The inductive invariant, for every value of the constants.
THEOREM ClientInvariance == Spec => []ClientInv
  <1>1. Init => ClientInv
    BY ClientInitInv, ClientAssumption
  <1>2. ClientInv /\ [Next]_vars => ClientInv'
    BY NextStep, ClientAssumption
  <1> QED
    BY <1>1, <1>2, PTL DEF Spec

\* Every variable keeps its type: no history outgrows the send buffer, no
\* identifier its range.
THEOREM ClientTypeCorrect == Spec => []TypeOK
  BY ClientInvariance, PTL DEF ClientInv

\* The client never leaks a pcb, nor keeps one that is gone.
THEOREM OnePcbAtATime == Spec => []OnePcb
  <1>1. ClientInv => OnePcb
    BY DEF ClientInv, ObjectInv, Holds, Wired, OnePcb
  <1> QED
    BY <1>1, ClientInvariance, PTL

\* Every connection carries CONNECT first and then each subscription so far
\* counted, once and in order.
THEOREM SubscriptionsInStep == Spec => []SubscribedInStep
  <1>1. ClientInv => SubscribedInStep
    <2> SUFFICES ASSUME ClientInv
                 PROVE  SubscribedInStep
      OBVIOUS
    <2>1. \A i \in 2..Len(c.wire) : c.state = "READY"
      BY DEF ClientInv, TypeOK, Client, ObjectInv, InStep
    <2> QED
      BY <2>1 DEF ClientInv, ObjectInv, InStep, History, Subscribing, SubscribedInStep
  <1> QED
    BY <1>1, ClientInvariance, PTL

\* A superseded lookup never makes the client dial.
THEOREM AnswersFresh == Spec => []NoStaleAnswer
  BY ClientInvariance, PTL DEF ClientInv

-----------------------------------------------------------------------------
(* The receivers.                                                          *)

\* The first l bytes of buf are whole packets one after the other, and top is
\* the last: with a byte, the rest of its packet is there, and after it the
\* next packet starts.
Intact(buf, l, sizes, top) ==
    \A j \in 1..l :
        LET k      == buf[j][1]
            before == j - buf[j][2]
            end    == before + sizes[k]
        IN  /\ end <= l
            /\ \A m \in 1..l : before < m /\ m <= end => buf[m] = <<k, m - before>>
            /\ IF end = l THEN k = top ELSE buf[end + 1] = <<k + 1, 1>>

\* They start with packet k, or all packets before k are all there are.
StartsWith(buf, l, k, top) ==
    IF l = 0 THEN k = top + 1 ELSE buf[1] = <<k, 1>>

\* What has not been handled: the bytes in the buffer and those on the wire.
Stream == rxBuf \o wire

\* They are the packets that have not been handled.
StreamInv ==
    /\ Intact(Stream, Len(Stream), size, Len(size))
    /\ StartsWith(Stream, Len(Stream), Len(handled) + 1, Len(size))

\* Between two runs of the parse loop the buffer holds less than the packet
\* that comes next, and what arrived since.
RoomInv ==
    ~parsing /\ Len(handled) < Len(size) =>
        Len(rxBuf) - burst < size[Len(handled) + 1]

\* A receiver no burst can overrun.
KeepsUp == setup.platform = "ESP32" \/ AllFit

ReceiveInv ==
    /\ ReceiveTypeOK
    /\ ~open => ~parsing
    /\ KeepsUp => HandledInOrder /\ (open => StreamInv /\ RoomInv)

-----------------------------------------------------------------------------
(* Sequences.                                                              *)

\* Two sequences put together.
LEMMA Concatenation ==
    ASSUME NEW S, NEW a \in Seq(S), NEW b \in Seq(S), NEW m \in Nat, NEW k \in Nat,
           Len(a) = m, Len(b) = k
    PROVE  /\ a \o b \in Seq(S) /\ Len(a \o b) = m + k
           /\ \A i \in 1..m : (a \o b)[i] = a[i]
           /\ \A i \in 1..k : (a \o b)[m + i] = b[i]
  OBVIOUS

\* A part of a sequence.
LEMMA Part ==
    ASSUME NEW S, NEW a \in Seq(S), NEW i \in Nat \ {0}, NEW j \in Nat,
           i <= j + 1, j <= Len(a)
    PROVE  /\ SubSeq(a, i, j) \in Seq(S) /\ Len(SubSeq(a, i, j)) = j + 1 - i
           /\ \A m \in 1..(j + 1 - i) : SubSeq(a, i, j)[m] = a[m + i - 1]
  OBVIOUS

\* The front of a sequence.
LEMMA Front ==
    ASSUME NEW S, NEW a \in Seq(S), NEW s \in Nat, s <= Len(a)
    PROVE  /\ SubSeq(a, 1, s) \in Seq(S) /\ Len(SubSeq(a, 1, s)) = s
           /\ \A i \in 1..s : SubSeq(a, 1, s)[i] = a[i]
  OBVIOUS

\* Sequences of the same elements are equal.
LEMMA SameElements ==
    ASSUME NEW S, NEW a \in Seq(S), NEW b \in Seq(S), Len(a) = Len(b),
           \A i \in 1..Len(a) : a[i] = b[i]
    PROVE  a = b
  OBVIOUS

\* Taking the front of one sequence to the end of another changes nothing of
\* the two put together.
LEMMA MovesOver ==
    ASSUME NEW S, NEW a \in Seq(S), NEW b \in Seq(S), NEW k \in 0..Len(b)
    PROVE  (a \o SubSeq(b, 1, k)) \o SubSeq(b, k + 1, Len(b)) = a \o b
  <1> DEFINE front == SubSeq(b, 1, k)
             rest  == SubSeq(b, k + 1, Len(b))
  <1>1. /\ front \in Seq(S) /\ Len(front) = k
        /\ \A m \in 1..k : front[m] = b[m]
    BY Part
  <1>2. /\ rest \in Seq(S) /\ Len(rest) = Len(b) - k
        /\ \A m \in 1..(Len(b) - k) : rest[m] = b[m + k]
    BY Part
  <1> HIDE DEF front, rest
  <1>3. /\ a \o front \in Seq(S) /\ Len(a \o front) = Len(a) + k
        /\ \A i \in 1..Len(a) : (a \o front)[i] = a[i]
        /\ \A i \in 1..k : (a \o front)[Len(a) + i] = b[i]
    BY <1>1
  <1>4. /\ (a \o front) \o rest \in Seq(S)
        /\ Len((a \o front) \o rest) = Len(a) + Len(b)
        /\ \A i \in 1..(Len(a) + k) : ((a \o front) \o rest)[i] = (a \o front)[i]
        /\ \A i \in 1..(Len(b) - k) : ((a \o front) \o rest)[Len(a) + k + i] = rest[i]
    <2> DEFINE both == a \o front
               p    == Len(a) + k
               q    == Len(b) - k
    <2>1. p \in Nat /\ q \in Nat /\ p + q = Len(a) + Len(b)
      OBVIOUS
    <2>2. both \in Seq(S) /\ rest \in Seq(S) /\ Len(both) = p /\ Len(rest) = q
      BY <1>2, <1>3
    <2> HIDE DEF both, p, q
    <2>3. /\ both \o rest \in Seq(S) /\ Len(both \o rest) = p + q
          /\ \A i \in 1..p : (both \o rest)[i] = both[i]
          /\ \A i \in 1..q : (both \o rest)[p + i] = rest[i]
      BY SMTT(30), <2>1, <2>2
    <2> QED
      BY <2>1, <2>3 DEF both, p, q
  <1>5. /\ a \o b \in Seq(S) /\ Len(a \o b) = Len(a) + Len(b)
        /\ \A i \in 1..Len(a) : (a \o b)[i] = a[i]
        /\ \A i \in 1..Len(b) : (a \o b)[Len(a) + i] = b[i]
    BY Concatenation
  <1>6. ASSUME NEW i \in 1..(Len(a) + Len(b))
        PROVE  ((a \o front) \o rest)[i] = (a \o b)[i]
    <2>1. CASE i <= Len(a)
      BY <2>1, <1>3, <1>4, <1>5
    <2>2. CASE Len(a) < i /\ i <= Len(a) + k
      <3>1. /\ i - Len(a) \in 1..k /\ i = Len(a) + (i - Len(a))
            /\ i \in 1..(Len(a) + k)
        BY <2>2
      <3>2. (a \o front)[i] = b[i - Len(a)] /\ (a \o b)[i] = b[i - Len(a)]
        BY <3>1, <1>3, <1>5
      <3> QED
        BY <3>1, <3>2, <1>4
    <2>3. CASE Len(a) + k < i
      <3>1. /\ i - Len(a) - k \in 1..(Len(b) - k)
            /\ i = Len(a) + k + (i - Len(a) - k)
            /\ (i - Len(a) - k) + k = i - Len(a)
            /\ i - Len(a) \in 1..Len(b) /\ i = Len(a) + (i - Len(a))
        BY <2>3
      <3>2. ((a \o front) \o rest)[i] = b[i - Len(a)]
        <4>1. rest[i - Len(a) - k] = b[(i - Len(a) - k) + k]
          BY <3>1, <1>2
        <4>2. ((a \o front) \o rest)[Len(a) + k + (i - Len(a) - k)]
                  = rest[i - Len(a) - k]
          BY <3>1, <1>4
        <4> QED
          BY <3>1, <4>1, <4>2
      <3> QED
        BY <3>1, <3>2, <1>5
    <2>4. i <= Len(a) \/ (Len(a) < i /\ i <= Len(a) + k) \/ Len(a) + k < i
      OBVIOUS
    <2> QED
      BY <2>1, <2>2, <2>3, <2>4, Zenon
  <1>7. (a \o front) \o rest = a \o b
    BY <1>4, <1>5, <1>6, SameElements
  <1> QED
    BY <1>7 DEF front, rest

\* Dropping the front of the first is dropping it of the two put together.
LEMMA DropsFront ==
    ASSUME NEW S, NEW a \in Seq(S), NEW b \in Seq(S), NEW k \in 0..Len(a)
    PROVE  SubSeq(a, k + 1, Len(a)) \o b = SubSeq(a \o b, k + 1, Len(a \o b))
  <1> DEFINE rest == SubSeq(a, k + 1, Len(a))
             all  == a \o b
             drop == SubSeq(all, k + 1, Len(all))
  <1>1. /\ rest \in Seq(S) /\ Len(rest) = Len(a) - k
        /\ \A m \in 1..(Len(a) - k) : rest[m] = a[m + k]
    BY Part
  <1>2. /\ all \in Seq(S) /\ Len(all) = Len(a) + Len(b)
        /\ \A i \in 1..Len(a) : all[i] = a[i]
        /\ \A i \in 1..Len(b) : all[Len(a) + i] = b[i]
    BY Concatenation
  <1> HIDE DEF rest, all
  <1>3. /\ drop \in Seq(S) /\ Len(drop) = Len(a) + Len(b) - k
        /\ \A m \in 1..(Len(a) + Len(b) - k) : drop[m] = all[m + k]
    BY <1>2, Part
  <1>4. /\ rest \o b \in Seq(S) /\ Len(rest \o b) = Len(a) - k + Len(b)
        /\ \A i \in 1..(Len(a) - k) : (rest \o b)[i] = rest[i]
        /\ \A i \in 1..Len(b) : (rest \o b)[Len(a) - k + i] = b[i]
    <2>1. Len(a) - k \in Nat /\ Len(b) \in Nat
      OBVIOUS
    <2> QED
      BY SMTT(30), <1>1, <2>1, Concatenation
  <1> HIDE DEF drop
  <1>5. ASSUME NEW i \in 1..(Len(a) + Len(b) - k)
        PROVE  (rest \o b)[i] = drop[i]
    <2>1. CASE i <= Len(a) - k
      <3>1. i \in 1..(Len(a) - k) /\ i + k \in 1..Len(a)
        BY <2>1
      <3> QED
        BY <3>1, <1>1, <1>2, <1>3, <1>4
    <2>2. CASE ~(i <= Len(a) - k)
      <3>1. /\ i - (Len(a) - k) \in 1..Len(b)
            /\ i = Len(a) - k + (i - (Len(a) - k))
            /\ i + k = Len(a) + (i - (Len(a) - k))
        BY <2>2
      <3>2. (rest \o b)[i] = b[i - (Len(a) - k)]
        BY <3>1, <1>4
      <3>3. all[i + k] = b[i - (Len(a) - k)]
        BY <3>1, <1>2
      <3> QED
        BY <3>2, <3>3, <1>3
    <2> QED
      BY <2>1, <2>2
  <1>6. rest \o b = drop
    <2>1. rest \o b \in Seq(S) /\ drop \in Seq(S)
      BY <1>3, <1>4
    <2>2. Len(rest \o b) = Len(a) + Len(b) - k /\ Len(drop) = Len(a) + Len(b) - k
      BY <1>3, <1>4
    <2> QED
      BY <2>1, <2>2, <1>5, SameElements
  <1> QED
    BY <1>6 DEF rest, all, drop

LEMMA Associates ==
    ASSUME NEW S, NEW a \in Seq(S), NEW b \in Seq(S), NEW x \in Seq(S)
    PROVE  (a \o b) \o x = a \o (b \o x)
  OBVIOUS

\* The front of a sequence, cut in two.
LEMMA CutsInTwo ==
    ASSUME NEW S, NEW a \in Seq(S), NEW k \in 0..Len(a), NEW j \in 0..k
    PROVE  /\ SubSeq(a, 1, j) \in Seq(S) /\ Len(SubSeq(a, 1, j)) = j
           /\ SubSeq(a, j + 1, k) \in Seq(S) /\ Len(SubSeq(a, j + 1, k)) = k - j
           /\ SubSeq(a, 1, j) \o SubSeq(a, j + 1, k) = SubSeq(a, 1, k)
  <1> DEFINE front == SubSeq(a, 1, j)
             rest  == SubSeq(a, j + 1, k)
             all   == SubSeq(a, 1, k)
             m     == k - j
  <1>1. all \in Seq(S) /\ Len(all) = k /\ \A i \in 1..k : all[i] = a[i]
    OBVIOUS
  <1>2. front \in Seq(S) /\ Len(front) = j /\ \A i \in 1..j : front[i] = a[i]
    OBVIOUS
  <1>3. /\ rest \in Seq(S) /\ Len(rest) = m /\ m \in Nat
        /\ \A i \in 1..m : rest[i] = a[i + j]
    OBVIOUS
  <1>4. j + m = k /\ j \in Nat
    OBVIOUS
  <1> HIDE DEF all, front, rest, m
  <1>5. /\ front \o rest \in Seq(S) /\ Len(front \o rest) = j + m
        /\ \A i \in 1..j : (front \o rest)[i] = front[i]
        /\ \A i \in 1..m : (front \o rest)[j + i] = rest[i]
    <2>1. front \in Seq(S) /\ rest \in Seq(S)
      BY <1>2, <1>3
    <2>2. Len(front) = j /\ Len(rest) = m /\ j \in Nat /\ m \in Nat
      BY <1>2, <1>3, <1>4
    <2> QED
      BY SMTT(30), <2>1, <2>2
  <1>6. ASSUME NEW i \in 1..k PROVE (front \o rest)[i] = all[i]
    <2>1. CASE i <= j
      <3>1. i \in 1..j
        BY <2>1, <1>4
      <3> QED
        BY <3>1, <1>1, <1>2, <1>5
    <2>2. CASE ~(i <= j)
      <3>1. i - j \in 1..m /\ j + (i - j) = i /\ (i - j) + j = i
        BY <2>2, <1>3, <1>4
      <3>2. rest[i - j] = a[i] /\ all[i] = a[i]
        BY <3>1, <1>1, <1>3
      <3>3. (front \o rest)[j + (i - j)] = rest[i - j]
        BY <3>1, <1>5
      <3> QED
        BY <3>1, <3>2, <3>3
    <2> QED
      BY <2>1, <2>2
  <1>7. front \o rest = all
    BY <1>1, <1>4, <1>5, <1>6, SameElements
  <1> QED
    BY <1>2, <1>3, <1>7 DEF all, front, rest, m

-----------------------------------------------------------------------------
(* The stream of packets.                                                  *)

\* Each of the first l bytes is one of the packets up to top.
OfPackets(buf, l, sizes, top) ==
    \A j \in 1..l : /\ buf[j][1] \in 1..top
                    /\ buf[j][2] \in 1..sizes[buf[j][1]]

\* The end of the packet of a byte.
LEMMA EndOfPacket ==
    ASSUME NEW j \in Nat, NEW sz \in Nat, NEW at \in 1..sz
    PROVE  j - at \in Int /\ (j - at) + sz \in Int /\ j <= (j - at) + sz
  OBVIOUS

\* The same, s bytes further to the front.
LEMMA Shifted ==
    ASSUME NEW s \in Nat, NEW before \in Int, NEW sz \in Nat
    PROVE  (before - s) + sz = (before + sz) - s
  OBVIOUS

\* One more packet, of s bytes, goes to the end of the stream.
Longer(buf, l, sizes, top, all, s, next) ==
    /\ 1 <= s /\ next[top + 1] = s
    /\ \A x \in 1..top : sizes[x] \in Nat /\ next[x] = sizes[x]
    /\ \A i \in 1..l : all[i] = buf[i]
    /\ \A i \in 1..s : all[l + i] = <<top + 1, i>>

LEMMA OneMore ==
    ASSUME NEW top \in Nat, NEW l \in Nat, NEW s \in Nat, NEW sizes, NEW next,
           NEW buf, OfPackets(buf, l, sizes, top), Intact(buf, l, sizes, top),
           NEW all, Longer(buf, l, sizes, top, all, s, next)
    PROVE  Intact(all, l + s, next, top + 1)
  <1> USE DEF Longer
  <1> SUFFICES ASSUME NEW j \in 1..(l + s)
               PROVE  LET x      == all[j][1]
                          before == j - all[j][2]
                          end    == before + next[x]
                      IN  /\ end <= l + s
                          /\ \A m \in 1..(l + s) :
                                 before < m /\ m <= end => all[m] = <<x, m - before>>
                          /\ IF end = l + s THEN x = top + 1
                             ELSE all[end + 1] = <<x + 1, 1>>
    BY DEF Intact
  <1>1. CASE j <= l
    <2> DEFINE x      == buf[j][1]
               before == j - buf[j][2]
               end    == before + sizes[x]
    <2>1. /\ j \in 1..l /\ all[j] = buf[j] /\ x \in 1..top /\ next[x] = sizes[x]
          /\ buf[j][2] \in 1..sizes[x] /\ sizes[x] \in Nat
      BY <1>1 DEF OfPackets
    <2>2. x \in Nat /\ before \in Int /\ end \in Int /\ j <= end
      BY <2>1, EndOfPacket
    <2>3. /\ end <= l
          /\ \A m \in 1..l : before < m /\ m <= end => buf[m] = <<x, m - before>>
          /\ IF end = l THEN x = top ELSE buf[end + 1] = <<x + 1, 1>>
      BY <2>1 DEF Intact
    <2> HIDE DEF x, before, end
    <2>4. end <= l + s /\ end # l + s
      BY <2>2, <2>3
    <2>5. ASSUME NEW m \in 1..(l + s), before < m, m <= end
          PROVE  all[m] = <<x, m - before>>
      <3>1. m \in 1..l
        BY <2>2, <2>3, <2>5
      <3> QED
        BY <3>1, <2>3, <2>5
    <2>6. all[end + 1] = <<x + 1, 1>>
      <3>1. CASE end = l
        <4>1. 1 \in 1..s /\ x = top
          BY <3>1, <2>3
        <4> QED
          BY <4>1, <3>1
      <3>2. CASE end # l
        <4>1. end + 1 \in 1..l
          BY <3>2, <2>1, <2>2, <2>3
        <4> QED
          BY <4>1, <3>2, <2>3
      <3> QED
        BY <3>1, <3>2
    <2> QED
      BY <2>1, <2>4, <2>5, <2>6 DEF x, before, end
  <1>2. CASE ~(j <= l)
    <2>1. j - l \in 1..s /\ j = l + (j - l)
      BY <1>2
    <2>2. all[j] = <<top + 1, j - l>>
      BY <2>1
    <2>3. all[j][1] = top + 1 /\ all[j][2] = j - l
      BY <2>2
    <2>4. j - all[j][2] = l /\ next[all[j][1]] = s
      BY <2>1, <2>3
    <2>5. ASSUME NEW m \in 1..(l + s), l < m
          PROVE  all[m] = <<top + 1, m - l>>
      <3>1. m - l \in 1..s /\ m = l + (m - l)
        BY <2>5
      <3> QED
        BY <3>1
    <2> QED
      BY <2>3, <2>4, <2>5
  <1> QED
    BY <1>1, <1>2

\* A stream whose first packet is packet k.
FirstIs(buf, l, sizes, top, k) ==
    l # 0 /\ buf[1] = <<k, 1>> /\ \A x \in 1..top : sizes[x] \in Nat

\* The first packet of the stream is there as a whole ...
LEMMA FirstWhole ==
    ASSUME NEW top \in Nat, NEW l \in Nat, NEW sizes,
           NEW buf, OfPackets(buf, l, sizes, top), Intact(buf, l, sizes, top),
           NEW k \in Nat, FirstIs(buf, l, sizes, top, k)
    PROVE  /\ k \in 1..top /\ sizes[k] \in 1..l
           /\ \A i \in 1..sizes[k] : buf[i] = <<k, i>>
           /\ IF sizes[k] = l THEN k = top ELSE buf[sizes[k] + 1] = <<k + 1, 1>>
  <1> USE DEF FirstIs
  <1> DEFINE s == sizes[k]
  <1>1. 1 \in 1..l /\ buf[1][1] = k /\ buf[1][2] = 1
    OBVIOUS
  <1>2. k \in 1..top /\ s \in Nat /\ 1 <= s
    BY <1>1 DEF OfPackets
  <1>3. /\ (1 - 1) + s <= l
        /\ \A m \in 1..l : 1 - 1 < m /\ m <= (1 - 1) + s => buf[m] = <<k, m - (1 - 1)>>
        /\ IF (1 - 1) + s = l THEN k = top ELSE buf[(1 - 1) + s + 1] = <<k + 1, 1>>
    BY <1>1 DEF Intact
  <1> HIDE DEF s
  <1>4. s <= l /\ (IF s = l THEN k = top ELSE buf[s + 1] = <<k + 1, 1>>)
    BY <1>2, <1>3
  <1>5. ASSUME NEW i \in 1..s PROVE buf[i] = <<k, i>>
    <2>1. i \in 1..l /\ 1 - 1 < i /\ i <= (1 - 1) + s /\ i - (1 - 1) = i
      BY <1>2, <1>4
    <2> QED
      BY <2>1, <1>3
  <1> QED
    BY <1>2, <1>4, <1>5 DEF s

\* ... and what follows is a stream that starts with the next one.
LEMMA FirstOff ==
    ASSUME NEW top \in Nat, NEW l \in Nat, NEW sizes,
           \A x \in 1..top : sizes[x] \in Nat,
           NEW buf, OfPackets(buf, l, sizes, top), Intact(buf, l, sizes, top),
           NEW s \in 1..l, NEW rest, \A m \in 1..(l - s) : rest[m] = buf[m + s]
    PROVE  Intact(rest, l - s, sizes, top)
  <1> SUFFICES ASSUME NEW j \in 1..(l - s)
               PROVE  LET x      == rest[j][1]
                          before == j - rest[j][2]
                          end    == before + sizes[x]
                      IN  /\ end <= l - s
                          /\ \A m \in 1..(l - s) :
                                 before < m /\ m <= end => rest[m] = <<x, m - before>>
                          /\ IF end = l - s THEN x = top
                             ELSE rest[end + 1] = <<x + 1, 1>>
    BY DEF Intact
  <1> DEFINE x      == buf[j + s][1]
             before == (j + s) - buf[j + s][2]
             end    == before + sizes[x]
  <1>1. j + s \in 1..l /\ j + s \in Nat /\ rest[j] = buf[j + s]
    OBVIOUS
  <1>2. x \in 1..top /\ sizes[x] \in Nat /\ buf[j + s][2] \in 1..sizes[x]
    BY <1>1 DEF OfPackets
  <1>3. before \in Int /\ end \in Int /\ j + s <= end
    BY <1>1, <1>2, EndOfPacket
  <1>4. /\ end <= l
        /\ \A m \in 1..l : before < m /\ m <= end => buf[m] = <<x, m - before>>
        /\ IF end = l THEN x = top ELSE buf[end + 1] = <<x + 1, 1>>
    BY <1>1 DEF Intact
  <1>5. rest[j][1] = x /\ j - rest[j][2] = before - s
    <2> DEFINE at == buf[j + s][2]
    <2>1. at \in Nat
      BY <1>2
    <2> HIDE DEF at
    <2>2. j - at = ((j + s) - at) - s
      BY <2>1
    <2> QED
      BY <1>1, <2>2 DEF at
  <1>6. (before - s) + sizes[x] = end - s
    BY <1>2, <1>3, Shifted
  <1> HIDE DEF x, before, end
  <1>7. end - s <= l - s
    BY <1>3, <1>4
  <1>8. ASSUME NEW m \in 1..(l - s), before - s < m, m <= end - s
        PROVE  rest[m] = <<x, m - (before - s)>>
    <2>1. /\ m + s \in 1..l /\ before < m + s /\ m + s <= end
          /\ (m + s) - before = m - (before - s)
      BY <1>3, <1>8
    <2> QED
      BY <2>1, <1>4
  <1>9. IF end - s = l - s THEN x = top ELSE rest[(end - s) + 1] = <<x + 1, 1>>
    <2>1. CASE end = l
      BY <2>1, <1>4
    <2>2. CASE end # l
      <3>1. /\ (end - s) + 1 \in 1..(l - s) /\ ((end - s) + 1) + s = end + 1
            /\ end - s # l - s
        BY <2>2, <1>3, <1>4
      <3> QED
        BY <3>1, <2>2, <1>4
    <2> QED
      BY <2>1, <2>2
  <1> QED
    BY <1>5, <1>6, <1>7, <1>8, <1>9

-----------------------------------------------------------------------------
(* The receivers.                                                          *)

LEMMA SetupTyped ==
    ASSUME ReceiveTypeOK
    PROVE  /\ setup \in Setups /\ setup.buf \in Nat /\ setup.burst \in Nat
           /\ 1 <= setup.buf /\ setup.sizes \subseteq Nat \ {0}
           /\ size \in Seq(Nat \ {0}) /\ Len(size) \in Nat
           /\ \A x \in 1..Len(size) : size[x] \in Nat /\ 1 <= size[x]
  <1>1. setup \in Setups /\ size \in Seq(setup.sizes)
    BY DEF ReceiveTypeOK
  <1>2. /\ setup.buf \in Nat \ {0} /\ setup.burst \in Nat \ {0}
        /\ setup.sizes \subseteq Nat \ {0}
    BY <1>1, ReceiveAssumption
  <1>3. size \in Seq(Nat \ {0})
    BY <1>1, <1>2
  <1> QED
    BY <1>1, <1>2, <1>3

\* The bytes that have not been handled are bytes of packets.
LEMMA StreamTyped ==
    ASSUME ReceiveTypeOK
    PROVE  /\ Stream \in Seq(Byte) /\ Len(Stream) = Len(rxBuf) + Len(wire)
           /\ Len(rxBuf) \in Nat /\ Len(wire) \in Nat
           /\ \A i \in 1..Len(rxBuf) : Stream[i] = rxBuf[i]
           /\ \A i \in 1..Len(wire) : Stream[Len(rxBuf) + i] = wire[i]
           /\ OfPackets(Stream, Len(Stream), size, Len(size))
  <1>1. rxBuf \in Seq(Byte) /\ wire \in Seq(Byte)
    BY DEF ReceiveTypeOK
  <1>2. /\ Stream \in Seq(Byte) /\ Len(Stream) = Len(rxBuf) + Len(wire)
        /\ Len(rxBuf) \in Nat /\ Len(wire) \in Nat
        /\ \A i \in 1..Len(rxBuf) : Stream[i] = rxBuf[i]
        /\ \A i \in 1..Len(wire) : Stream[Len(rxBuf) + i] = wire[i]
    BY <1>1 DEF Stream
  <1>3. \A b \in Byte : b[1] \in 1..Len(size) /\ b[2] \in 1..size[b[1]]
    BY DEF Byte
  <1>4. \A j \in 1..Len(Stream) : Stream[j] \in Byte
    BY <1>2
  <1> QED
    BY <1>2, <1>3, <1>4 DEF OfPackets

\* A packet that comes next is one that was sent.
LEMMA NextPacket ==
    ASSUME ReceiveTypeOK, StreamInv, Len(rxBuf) + Len(wire) # 0
    PROVE  /\ Len(handled) \in Nat /\ Len(handled) < Len(size)
           /\ Stream[1] = <<Len(handled) + 1, 1>> /\ Len(Stream) # 0
  <1>1. Len(handled) \in Nat /\ Len(size) \in Nat
    BY DEF ReceiveTypeOK
  <1>2. Len(Stream) # 0 /\ 1 \in 1..Len(Stream)
    BY StreamTyped
  <1>3. Stream[1] = <<Len(handled) + 1, 1>>
    BY <1>2 DEF StreamInv, StartsWith
  <1>4. Stream[1][1] \in 1..Len(size)
    BY <1>2, StreamTyped DEF OfPackets
  <1>5. Len(handled) + 1 \in 1..Len(size)
    BY <1>3, <1>4
  <1> QED
    BY <1>1, <1>2, <1>3, <1>5

\* A connection is idle before the first packet.
LEMMA ReceiveInitial == ReceiveInit => ReceiveInv
  <1> SUFFICES ASSUME ReceiveInit PROVE ReceiveInv
    OBVIOUS
  <1>1. setup \in Setups /\ setup.buf \in Nat /\ setup.burst \in Nat
    BY ReceiveAssumption DEF ReceiveInit
  <1>2. ReceiveTypeOK
    <2>1. 0 <= MaxPackets /\ 0 <= setup.buf /\ 0 \in 0..setup.burst
      BY <1>1, ReceiveAssumption
    <2>2. Len(size) = 0 /\ Len(rxBuf) = 0
      BY DEF ReceiveInit
    <2>3. /\ size \in Seq(setup.sizes) /\ wire \in Seq(Byte) /\ rxBuf \in Seq(Byte)
          /\ handled \in Seq(0..MaxPackets)
      BY DEF ReceiveInit
    <2> QED
      BY <1>1, <2>1, <2>2, <2>3 DEF ReceiveInit, ReceiveTypeOK
  <1>3. Stream = <<>> /\ Len(Stream) = 0 /\ Len(handled) = 0 /\ Len(size) = 0
    BY DEF ReceiveInit, Stream
  <1>4. StreamInv
    BY <1>3 DEF StreamInv, Intact, StartsWith
  <1>5. RoomInv
    BY <1>3 DEF RoomInv
  <1>6. HandledInOrder
    BY <1>3 DEF HandledInOrder
  <1> QED
    BY <1>2, <1>4, <1>5, <1>6 DEF ReceiveInv, ReceiveInit

\* The bytes of a packet.
LEMMA PacketBytes ==
    ASSUME NEW T, NEW s \in Nat, NEW p, \A i \in 1..s : <<p, i>> \in T
    PROVE  /\ [i \in 1..s |-> <<p, i>>] \in Seq(T)
           /\ Len([i \in 1..s |-> <<p, i>>]) = s
           /\ \A j \in 1..s : [i \in 1..s |-> <<p, i>>][j] = <<p, j>>
  OBVIOUS

\* One more packet is on its way.
LEMMA PeerSendsStep ==
    ASSUME ReceiveInv, NEW s \in setup.sizes, PeerSends(s)
    PROVE  ReceiveInv'
  <1> DEFINE more == [i \in 1..s |-> <<Len(size) + 1, i>>]
  <1>1. /\ open /\ Len(size) < MaxPackets /\ size' = Append(size, s) /\ wire' = wire \o more
        /\ UNCHANGED <<setup, rxBuf, burst, parsing, handled, open>>
    BY DEF PeerSends
  <1>2. ReceiveTypeOK /\ s \in Nat /\ 1 <= s
    BY SetupTyped DEF ReceiveInv
  <1>3. /\ size' \in Seq(setup.sizes) /\ Len(size') = Len(size) + 1 /\ size'[Len(size) + 1] = s
        /\ \A x \in 1..Len(size) : size'[x] = size[x]
        /\ Len(size) \in Nat
    BY <1>1, <1>2 DEF ReceiveTypeOK
  <1>4. Byte \subseteq Byte'
    BY <1>3 DEF Byte
  <1>5. more \in Seq(Byte') /\ Len(more) = s /\ \A i \in 1..s : more[i] = <<Len(size) + 1, i>>
    <2>1. \A i \in 1..s : <<Len(size) + 1, i>> \in Byte'
      <3>1. Len(size) + 1 \in 1..Len(size')
        BY <1>3
      <3> QED
        BY <1>3, <3>1 DEF Byte
    <2> QED
      BY <2>1, <1>2, PacketBytes
  <1> HIDE DEF more
  <1>6. wire \in Seq(Byte') /\ rxBuf \in Seq(Byte')
    BY <1>2, <1>4 DEF ReceiveTypeOK
  <1>7. ReceiveTypeOK'
    <2>1. wire' \in Seq(Byte') /\ rxBuf' \in Seq(Byte')
      BY <1>1, <1>5, <1>6
    <2>2. Len(size') <= MaxPackets
      BY <1>1, <1>3, ReceiveAssumption
    <2> QED
      BY <1>1, <1>2, <1>3, <2>1, <2>2 DEF ReceiveTypeOK
  <1>8. ASSUME KeepsUp' PROVE KeepsUp
    <2> DEFINE Fitted(x) == IF Is("broker", "ESP32") THEN x <= setup.buf
                            ELSE x - 1 + setup.burst <= setup.buf
    <2>1. setup.platform = "ESP32" \/ \A i \in 1..Len(size') : Fitted(size'[i])
      BY <1>1, <1>8 DEF KeepsUp, AllFit, Fits, Is
    <2> HIDE DEF Fitted
    <2>2. setup.platform = "ESP32" \/ \A i \in 1..Len(size) : Fitted(size[i])
      BY <2>1, <1>3
    <2> QED
      BY <2>2 DEF Fitted, KeepsUp, AllFit, Fits
  <1>9. ASSUME StreamInv
        PROVE  /\ StreamInv'
               /\ Len(handled) = Len(size) => rxBuf = <<>>
    <2>1. Stream' = Stream \o more
      <3>1. (rxBuf \o wire) \o more = rxBuf \o (wire \o more)
        BY <1>5, <1>6
      <3> QED
        BY <3>1, <1>1 DEF Stream
    <2> DEFINE l == Len(Stream)
    <2>2. Stream \in Seq(Byte') /\ l \in Nat
      BY <1>2, <1>6 DEF Stream
    <2>3. /\ Len(Stream') = l + s
          /\ \A i \in 1..l : Stream'[i] = Stream[i]
          /\ \A i \in 1..s : Stream'[l + i] = <<Len(size) + 1, i>>
      <3>1. /\ Len(Stream \o more) = l + s
            /\ \A i \in 1..l : (Stream \o more)[i] = Stream[i]
            /\ \A i \in 1..s : (Stream \o more)[l + i] = more[i]
        BY <2>2, <1>2, <1>5, Concatenation
      <3> QED
        BY <3>1, <2>1, <1>5
    <2>4. OfPackets(Stream, l, size, Len(size)) /\ Intact(Stream, l, size, Len(size))
      BY <1>2, <1>9, StreamTyped DEF StreamInv
    <2>5. \A x \in 1..Len(size) : size[x] \in Nat
      BY <1>2, SetupTyped
    <2>6. StartsWith(Stream, l, Len(handled) + 1, Len(size))
      BY <1>9 DEF StreamInv
    <2> HIDE DEF l
    <2>7. Intact(Stream', l + s, size', Len(size) + 1)
      <3>1. Longer(Stream, l, size, Len(size), Stream', s, size')
        BY <1>2, <1>3, <2>3, <2>5 DEF Longer
      <3> QED
        BY <3>1, <2>2, <2>4, <1>2, <1>3, OneMore
    <2>8. StartsWith(Stream', l + s, Len(handled) + 1, Len(size) + 1)
      <3>1. CASE l = 0
        <4>1. 1 \in 1..s /\ l + 1 = 1 /\ l + s # 0
          BY <3>1, <1>2
        <4>2. Stream'[1] = <<Len(size) + 1, 1>>
          BY <4>1, <2>3
        <4>3. Len(handled) + 1 = Len(size) + 1
          BY <3>1, <2>6 DEF StartsWith
        <4> QED
          BY <4>1, <4>2, <4>3 DEF StartsWith
      <3>2. CASE l # 0
        <4>1. 1 \in 1..l /\ l + s # 0
          BY <3>2, <2>2, <1>2
        <4>2. Stream[1] = <<Len(handled) + 1, 1>>
          BY <3>2, <2>6 DEF StartsWith
        <4> QED
          BY <4>1, <4>2, <2>3 DEF StartsWith
      <3> QED
        BY <3>1, <3>2
    <2>9. handled' = handled /\ Len(size') = Len(size) + 1
      BY <1>1, <1>3
    <2>10. StreamInv'
      BY <2>3, <2>7, <2>8, <2>9 DEF StreamInv
    <2>11. ASSUME Len(handled) = Len(size) PROVE rxBuf = <<>>
      <3>1. Len(rxBuf) + Len(wire) = 0
        BY <2>11, <1>2, <1>3, <1>9, NextPacket
      <3>2. Len(rxBuf) \in Nat /\ Len(wire) \in Nat
        BY <1>2, StreamTyped
      <3>3. Len(rxBuf) = 0
        BY <3>1, <3>2
      <3> QED
        BY <3>3, <1>6
    <2> QED
      BY <2>10, <2>11
  <1>10. ASSUME StreamInv, RoomInv PROVE RoomInv'
    <2> SUFFICES ASSUME ~parsing, Len(handled) < Len(size) + 1
                 PROVE  Len(rxBuf) - burst < size'[Len(handled) + 1]
      BY <1>1, <1>3 DEF RoomInv
    <2>1. Len(handled) \in Nat /\ burst \in Nat
      BY <1>2, SetupTyped DEF ReceiveTypeOK
    <2>2. CASE Len(handled) < Len(size)
      <3>1. Len(handled) + 1 \in 1..Len(size)
        BY <2>1, <2>2, <1>3
      <3> QED
        BY <3>1, <2>2, <1>3, <1>10 DEF RoomInv
    <2>3. CASE Len(handled) = Len(size)
      <3>1. Len(rxBuf) = 0
        BY <2>3, <1>9, <1>10
      <3>2. size'[Len(handled) + 1] = s
        BY <2>3, <1>3
      <3> QED
        BY <3>1, <3>2, <2>1, <1>2
    <2> QED
      BY <2>1, <2>2, <2>3, <1>3
  <1> QED
    BY <1>1, <1>7, <1>8, <1>9, <1>10 DEF ReceiveInv, HandledInOrder

\* What arrives comes off the wire, and all else stays.
LEMMA ArrivesTyped ==
    ASSUME ReceiveTypeOK, NEW k \in 1..setup.burst, Arrives(k)
    PROVE  /\ k \in Nat /\ 1 <= k /\ k <= Len(wire) /\ burst \in Nat
           /\ burst + k <= setup.burst /\ open /\ ~parsing
           /\ UNCHANGED <<setup, size, handled, Byte>>
           /\ rxBuf \in Seq(Byte) /\ wire \in Seq(Byte)
           /\ SubSeq(wire, 1, k) \in Seq(Byte) /\ Len(SubSeq(wire, 1, k)) = k
           /\ wire' \in Seq(Byte')
           /\ (rxBuf \o SubSeq(wire, 1, k)) \o wire' = Stream
  <1>1. /\ open /\ ~parsing /\ k <= Len(wire) /\ burst + k <= setup.burst
        /\ wire' = SubSeq(wire, k + 1, Len(wire)) /\ UNCHANGED <<setup, size, handled>>
    BY DEF Arrives
  <1>2. UNCHANGED Byte
    BY <1>1 DEF Byte
  <1>3. rxBuf \in Seq(Byte) /\ wire \in Seq(Byte) /\ burst \in Nat /\ Len(wire) \in Nat
    BY SetupTyped DEF ReceiveTypeOK
  <1>4. k \in Nat /\ 1 <= k /\ k \in 0..Len(wire)
    BY <1>1, <1>3, SetupTyped
  <1>5. SubSeq(wire, 1, k) \in Seq(Byte) /\ Len(SubSeq(wire, 1, k)) = k
    <2>1. 1 \in Nat \ {0} /\ 1 <= k + 1 /\ (k + 1) - 1 = k
      BY <1>4
    <2> QED
      BY <2>1, <1>1, <1>3, <1>4, Part
  <1>6. SubSeq(wire, k + 1, Len(wire)) \in Seq(Byte)
    BY <1>3, <1>4
  <1>7. (rxBuf \o SubSeq(wire, 1, k)) \o SubSeq(wire, k + 1, Len(wire)) = rxBuf \o wire
    BY <1>3, <1>4, MovesOver
  <1> QED
    BY <1>1, <1>2, <1>3, <1>4, <1>5, <1>6, <1>7 DEF Stream

\* A burst fits behind what is left of the packet that comes next.
LEMMA BurstFits ==
    ASSUME ReceiveInv, KeepsUp, setup.platform # "ESP32",
           NEW k \in 1..setup.burst, Arrives(k)
    PROVE  /\ Len(rxBuf) + k <= setup.buf
           /\ Len(handled) < Len(size)
           /\ Len(rxBuf) - burst < size[Len(handled) + 1]
  <1>1. ReceiveTypeOK /\ AllFit
    BY DEF ReceiveInv, KeepsUp
  <1>2. /\ k \in Nat /\ 1 <= k /\ k <= Len(wire) /\ burst \in Nat
        /\ burst + k <= setup.burst /\ open /\ ~parsing
    BY <1>1, ArrivesTyped
  <1>3. StreamInv /\ RoomInv
    BY <1>2 DEF ReceiveInv
  <1>4. Len(rxBuf) \in Nat /\ Len(wire) \in Nat
    BY <1>1, StreamTyped
  <1>5. Len(handled) \in Nat /\ Len(handled) < Len(size)
    <2>1. Len(rxBuf) + Len(wire) # 0
      BY <1>2, <1>4
    <2> QED
      BY <2>1, <1>1, <1>3, NextPacket
  <1> DEFINE s == size[Len(handled) + 1]
  <1>6. Len(handled) + 1 \in 1..Len(size)
    BY <1>1, <1>5, SetupTyped
  <1>7. s \in Nat /\ s - 1 + setup.burst <= setup.buf
    BY <1>1, <1>6, SetupTyped DEF AllFit, Fits, Is
  <1>8. Len(rxBuf) - burst < s
    BY <1>2, <1>3, <1>5 DEF RoomInv
  <1>9. setup.burst \in Nat /\ setup.buf \in Nat
    BY <1>1, SetupTyped
  <1> HIDE DEF s
  <1>10. Len(rxBuf) + k <= setup.buf
    BY <1>2, <1>4, <1>7, <1>8, <1>9
  <1> QED
    BY <1>5, <1>8, <1>10 DEF s

\* Whatever way a receiver takes in a piece, it keeps its promises if the piece
\* ends up behind what it had, or the connection is closed.
LEMMA PieceStep ==
    ASSUME ReceiveInv, NEW k \in 1..setup.burst, Arrives(k),
           rxBuf' \in Seq(Byte), Len(rxBuf') <= setup.buf,
           burst' \in 0..setup.burst, parsing' \in BOOLEAN, open' \in BOOLEAN,
           ~open' => ~parsing',
           KeepsUp /\ open' =>
               /\ rxBuf' = rxBuf \o SubSeq(wire, 1, k)
               /\ ~parsing' => burst' = burst + k /\ setup.platform # "ESP32"
    PROVE  ReceiveInv'
  <1>1. /\ UNCHANGED <<setup, size, handled, Byte>> /\ wire' \in Seq(Byte') /\ open
        /\ (rxBuf \o SubSeq(wire, 1, k)) \o wire' = Stream
        /\ k \in Nat /\ burst \in Nat /\ rxBuf \in Seq(Byte)
        /\ SubSeq(wire, 1, k) \in Seq(Byte) /\ Len(SubSeq(wire, 1, k)) = k
    BY ArrivesTyped DEF ReceiveInv
  <1>2. ReceiveTypeOK'
    BY <1>1 DEF ReceiveInv, ReceiveTypeOK
  <1>3. KeepsUp' = KeepsUp
    BY <1>1 DEF KeepsUp, AllFit, Fits, Is
  <1>4. ASSUME KeepsUp PROVE HandledInOrder'
    BY <1>1, <1>4 DEF ReceiveInv, HandledInOrder
  <1>5. ASSUME KeepsUp, open' PROVE StreamInv' /\ RoomInv'
    <2>1. Stream' = Stream
      BY <1>1, <1>5 DEF Stream
    <2>2. StreamInv
      BY <1>1, <1>5 DEF ReceiveInv
    <2>3. StreamInv'
      BY <1>1, <2>1, <2>2 DEF StreamInv
    <2>4. ASSUME ~parsing', Len(handled) < Len(size)
          PROVE  Len(rxBuf') - burst' < size[Len(handled) + 1]
      <3>1. /\ burst' = burst + k /\ setup.platform # "ESP32"
            /\ Len(rxBuf') = Len(rxBuf) + k /\ Len(rxBuf) \in Nat
        BY <1>1, <1>5, <2>4
      <3>2. Len(rxBuf) - burst < size[Len(handled) + 1]
        BY <1>5, <3>1, BurstFits
      <3>3. (Len(rxBuf) + k) - (burst + k) = Len(rxBuf) - burst
        BY <1>1, <3>1
      <3> QED
        BY <3>1, <3>2, <3>3
    <2>5. RoomInv'
      BY <1>1, <2>4 DEF RoomInv
    <2> QED
      BY <2>3, <2>5
  <1> QED
    BY <1>2, <1>3, <1>4, <1>5 DEF ReceiveInv

LEMMA ClientReadsStep ==
    ASSUME ReceiveInv, NEW k \in 1..setup.burst, ClientReads(k)
    PROVE  ReceiveInv'
  <1>1. Arrives(k) /\ burst' = burst
    BY DEF ClientReads
  <1>2. /\ rxBuf \in Seq(Byte) /\ SubSeq(wire, 1, k) \in Seq(Byte)
        /\ Len(SubSeq(wire, 1, k)) = k /\ k \in Nat /\ open
    BY <1>1, ArrivesTyped DEF ReceiveInv
  <1>3. burst' \in 0..setup.burst /\ 0 <= setup.buf
    BY <1>1, SetupTyped DEF ReceiveInv, ReceiveTypeOK
  <1>4. CASE Len(rxBuf) + k > setup.buf
    <2>1. open' = FALSE /\ rxBuf' = <<>> /\ parsing' = FALSE
      BY <1>4 DEF ClientReads, Close
    <2>2. rxBuf' \in Seq(Byte) /\ Len(rxBuf') = 0
      BY <2>1
    <2> QED
      BY <1>1, <1>3, <2>1, <2>2, PieceStep
  <1>5. CASE ~(Len(rxBuf) + k > setup.buf)
    <2>1. rxBuf' = rxBuf \o SubSeq(wire, 1, k) /\ parsing' = TRUE /\ open' = open
      BY <1>5 DEF ClientReads, Piece
    <2>2. rxBuf' \in Seq(Byte) /\ Len(rxBuf') = Len(rxBuf) + k /\ Len(rxBuf) \in Nat
      BY <1>2, <2>1
    <2>3. Len(rxBuf') <= setup.buf
      BY <1>2, <1>5, <2>2, SetupTyped DEF ReceiveInv
    <2> QED
      BY <1>1, <1>2, <1>3, <2>1, <2>2, <2>3, PieceStep
  <1> QED
    BY <1>4, <1>5

LEMMA ReadConnStep ==
    ASSUME ReceiveInv, NEW k \in 1..setup.burst, ReadConn(k)
    PROVE  ReceiveInv'
  <1>1. /\ Arrives(k) /\ Len(rxBuf) + k <= setup.buf
        /\ rxBuf' = rxBuf \o SubSeq(wire, 1, k) /\ parsing' = TRUE
        /\ UNCHANGED <<burst, open>>
    BY DEF ReadConn, Piece
  <1>2. /\ rxBuf \in Seq(Byte) /\ SubSeq(wire, 1, k) \in Seq(Byte)
        /\ Len(SubSeq(wire, 1, k)) = k /\ k \in Nat /\ open
    BY <1>1, ArrivesTyped DEF ReceiveInv
  <1>3. burst' \in 0..setup.burst
    BY <1>1 DEF ReceiveInv, ReceiveTypeOK
  <1>4. rxBuf' \in Seq(Byte) /\ Len(rxBuf') <= setup.buf
    BY <1>1, <1>2
  <1> QED
    BY <1>1, <1>2, <1>3, <1>4, PieceStep

\* A pbuf that does not fit is left out, and the buffer is not overrun.
LEMMA FittingTyped ==
    ASSUME NEW S, NEW buf \in Seq(S), NEW pbuf \in Seq(S), Len(buf) <= setup.buf
    PROVE  Fitting(buf, pbuf) \in Seq(S) /\ Len(Fitting(buf, pbuf)) <= setup.buf
  BY DEF Fitting

\* Two pbufs that fit are taken, one after the other.
LEMMA BothFit ==
    ASSUME NEW S, NEW a \in Seq(S), NEW b \in Seq(S), NEW x \in Seq(S),
           setup.buf \in Nat, Len(a) + (Len(b) + Len(x)) <= setup.buf
    PROVE  Fitting(Fitting(a, b), x) = a \o (b \o x)
  <1>1. Len(a) \in Nat /\ Len(b) \in Nat /\ Len(x) \in Nat
    OBVIOUS
  <1>2. Len(a) + Len(b) <= setup.buf
    BY <1>1
  <1>3. Fitting(a, b) = a \o b
    BY <1>2 DEF Fitting
  <1>4. a \o b \in Seq(S) /\ Len(a \o b) = Len(a) + Len(b)
    OBVIOUS
  <1>5. Len(a \o b) + Len(x) <= setup.buf
    BY <1>1, <1>4
  <1>6. Fitting(a \o b, x) = (a \o b) \o x
    BY <1>5 DEF Fitting
  <1>7. (a \o b) \o x = a \o (b \o x)
    BY SMTT(30), Associates
  <1> QED
    BY <1>3, <1>6, <1>7, Zenon

LEMMA ClientRecvStep ==
    ASSUME ReceiveInv, NEW k \in 1..setup.burst, NEW j \in 1..k, ClientRecv(j, k)
    PROVE  ReceiveInv'
  <1> DEFINE front == SubSeq(wire, 1, j)
             rest  == SubSeq(wire, j + 1, k)
  <1>1. /\ Is("client", "RP2040") /\ Arrives(k)
        /\ rxBuf' = Fitting(Fitting(rxBuf, front), rest) /\ parsing' = TRUE
        /\ UNCHANGED <<burst, open>>
    BY DEF ClientRecv
  <1>2. /\ rxBuf \in Seq(Byte) /\ wire \in Seq(Byte) /\ k \in Nat /\ k <= Len(wire)
        /\ open /\ j \in Nat /\ 1 <= j /\ j <= k
    <2>1. /\ rxBuf \in Seq(Byte) /\ wire \in Seq(Byte) /\ k \in Nat /\ k <= Len(wire)
          /\ open
      BY <1>1, ArrivesTyped DEF ReceiveInv
    <2> QED
      BY <2>1
  <1>3. /\ front \in Seq(Byte) /\ Len(front) = j
        /\ rest \in Seq(Byte) /\ Len(rest) = k - j
        /\ front \o rest = SubSeq(wire, 1, k)
    BY <1>2, CutsInTwo
  <1> HIDE DEF front, rest
  <1>4. rxBuf' \in Seq(Byte) /\ Len(rxBuf') <= setup.buf
    <2>1. Len(rxBuf) <= setup.buf
      BY DEF ReceiveInv, ReceiveTypeOK
    <2>2. Fitting(rxBuf, front) \in Seq(Byte) /\ Len(Fitting(rxBuf, front)) <= setup.buf
      BY <1>2, <1>3, <2>1, FittingTyped
    <2> QED
      BY <1>1, <1>3, <2>2, FittingTyped
  <1>5. ASSUME KeepsUp PROVE rxBuf' = rxBuf \o SubSeq(wire, 1, k)
    <2>1. setup.platform # "ESP32"
      BY <1>1 DEF Is
    <2>2. Len(rxBuf) + k <= setup.buf /\ Len(rxBuf) \in Nat /\ setup.buf \in Nat
      BY <1>1, <1>2, <1>5, <2>1, BurstFits, SetupTyped DEF ReceiveInv
    <2>3. Len(rxBuf) + (Len(front) + Len(rest)) <= setup.buf
      BY <1>2, <1>3, <2>2
    <2>4. Fitting(Fitting(rxBuf, front), rest) = rxBuf \o (front \o rest)
      <3>1. rxBuf \in Seq(Byte) /\ front \in Seq(Byte) /\ rest \in Seq(Byte)
        BY <1>2, <1>3
      <3>2. setup.buf \in Nat
        BY <2>2
      <3> QED
        BY <3>1, <3>2, <2>3, BothFit
    <2> QED
      BY <1>1, <1>3, <2>4
  <1>6. burst' \in 0..setup.burst
    BY <1>1 DEF ReceiveInv, ReceiveTypeOK
  <1> QED
    BY <1>1, <1>2, <1>4, <1>5, <1>6, PieceStep

LEMMA BrokerRecvStep ==
    ASSUME ReceiveInv, NEW k \in 1..setup.burst, BrokerRecv(k)
    PROVE  ReceiveInv'
  <1> DEFINE room == setup.buf - Len(rxBuf)
             some == IF k < room THEN k ELSE room
  <1>1. /\ Is("broker", "RP2040") /\ Arrives(k)
        /\ rxBuf' = rxBuf \o SubSeq(wire, 1, some) /\ burst' = burst + k
        /\ UNCHANGED <<parsing, open>>
    BY DEF BrokerRecv
  <1>2. /\ rxBuf \in Seq(Byte) /\ wire \in Seq(Byte) /\ k \in Nat /\ k <= Len(wire)
        /\ burst \in Nat /\ burst + k <= setup.burst /\ open /\ ~parsing
    BY <1>1, ArrivesTyped DEF ReceiveInv
  <1>3. setup.buf \in Nat /\ setup.burst \in Nat /\ Len(rxBuf) \in Nat /\ Len(rxBuf) <= setup.buf
    BY <1>2, SetupTyped DEF ReceiveInv, ReceiveTypeOK
  <1>4. some \in Nat /\ some <= Len(wire) /\ Len(rxBuf) + some <= setup.buf
    BY <1>2, <1>3
  <1> HIDE DEF some
  <1>5. SubSeq(wire, 1, some) \in Seq(Byte) /\ Len(SubSeq(wire, 1, some)) = some
    BY <1>2, <1>4
  <1>6. rxBuf' \in Seq(Byte) /\ Len(rxBuf') <= setup.buf
    BY <1>1, <1>2, <1>4, <1>5
  <1>7. setup.platform # "ESP32"
    BY <1>1 DEF Is
  <1>8. ASSUME KeepsUp PROVE some = k
    <2>1. Len(rxBuf) + k <= setup.buf
      BY <1>1, <1>7, <1>8, BurstFits
    <2> QED
      BY <1>2, <1>3, <2>1 DEF some
  <1>9. burst' \in 0..setup.burst
    BY <1>1, <1>2, <1>3
  <1> QED
    <2>1. parsing' \in BOOLEAN /\ open' \in BOOLEAN /\ open'
      BY <1>1, <1>2 DEF ReceiveInv, ReceiveTypeOK
    <2> QED
      BY <1>1, <1>6, <1>7, <1>8, <1>9, <2>1, PieceStep

\* loop() of the broker on RP2040 starts the parse loop.
LEMMA BrokerServicesStep ==
    ASSUME ReceiveInv, BrokerServices
    PROVE  ReceiveInv'
  <1>1. /\ open /\ parsing' = TRUE /\ burst' = 0
        /\ UNCHANGED <<setup, size, wire, rxBuf, handled, open>>
    BY DEF BrokerServices
  <1>2. UNCHANGED <<Byte, Stream>>
    BY <1>1 DEF Byte, Stream
  <1>3. 0 \in 0..setup.burst
    BY SetupTyped DEF ReceiveInv
  <1>4. ReceiveTypeOK'
    BY <1>1, <1>2, <1>3 DEF ReceiveInv, ReceiveTypeOK
  <1>5. KeepsUp' = KeepsUp
    BY <1>1 DEF KeepsUp, AllFit, Fits, Is
  <1>6. StreamInv' = StreamInv /\ RoomInv' /\ HandledInOrder' = HandledInOrder
    BY <1>1, <1>2 DEF StreamInv, RoomInv, HandledInOrder
  <1> QED
    BY <1>1, <1>4, <1>5, <1>6 DEF ReceiveInv

\* The parse loop sees a whole packet: it is the next one, and the rest of the
\* stream starts with the one after it.
LEMMA ParseStep ==
    ASSUME ReceiveInv, Parse
    PROVE  ReceiveInv'
  <1> DEFINE k    == rxBuf[1][1]
             s    == size[k]
             done == IF SubSeq(rxBuf, 1, s) = Whole(k) THEN k ELSE 0
  <1>1. /\ parsing /\ rxBuf # <<>> /\ rxBuf[1][2] = 1 /\ s <= Len(rxBuf)
        /\ handled' = Append(handled, done)
        /\ rxBuf' = SubSeq(rxBuf, s + 1, Len(rxBuf))
        /\ UNCHANGED <<setup, size, wire, burst, parsing, open>>
    BY DEF Parse, AtStart, Need
  <1>2. ReceiveTypeOK /\ open
    BY <1>1 DEF ReceiveInv
  <1>3. rxBuf \in Seq(Byte) /\ wire \in Seq(Byte) /\ Len(rxBuf) \in Nat /\ Len(rxBuf) # 0
    BY <1>1, <1>2 DEF ReceiveTypeOK
  <1>4. k \in 1..Len(size) /\ s \in Nat /\ 1 <= s /\ k \in 0..MaxPackets
    <2>1. 1 \in 1..Len(rxBuf)
      BY <1>3
    <2>2. rxBuf[1] \in Byte
      BY <1>3, <2>1
    <2>3. k \in 1..Len(size)
      BY <2>2 DEF Byte
    <2> HIDE DEF k
    <2>4. s \in Nat /\ 1 <= s
      BY <2>3, <1>2, SetupTyped
    <2>5. k \in 0..MaxPackets
      BY <2>3, <1>2, ReceiveAssumption DEF ReceiveTypeOK
    <2> QED
      BY <2>3, <2>4, <2>5
  <1>5. /\ rxBuf' \in Seq(Byte) /\ Len(rxBuf') = Len(rxBuf) - s
    <2> HIDE DEF s
    <2> QED
      BY <1>1, <1>3, <1>4
  <1>6. UNCHANGED Byte
    BY <1>1 DEF Byte
  <1>7. ReceiveTypeOK'
    <2>1. handled' \in Seq(0..MaxPackets)
      <3>1. done \in 0..MaxPackets
        BY <1>4, ReceiveAssumption
      <3> HIDE DEF done
      <3> QED
        BY <3>1, <1>1, <1>2 DEF ReceiveTypeOK
    <2>2. Len(rxBuf') <= setup.buf
      <3>1. Len(rxBuf) <= setup.buf /\ setup.buf \in Nat
        BY <1>2, SetupTyped DEF ReceiveTypeOK
      <3> HIDE DEF s
      <3> QED
        BY <3>1, <1>3, <1>4, <1>5
    <2> QED
      BY <1>1, <1>2, <1>5, <1>6, <2>1, <2>2 DEF ReceiveTypeOK
  <1>8. KeepsUp' = KeepsUp
    BY <1>1 DEF KeepsUp, AllFit, Fits, Is
  <1>9. ASSUME KeepsUp PROVE HandledInOrder' /\ StreamInv' /\ RoomInv'
    <2> DEFINE l   == Len(Stream)
               top == Len(size)
    <2>1. StreamInv /\ HandledInOrder
      BY <1>2, <1>9 DEF ReceiveInv
    <2>2. /\ Stream \in Seq(Byte) /\ l = Len(rxBuf) + Len(wire) /\ l \in Nat /\ Len(wire) \in Nat
          /\ \A i \in 1..Len(rxBuf) : Stream[i] = rxBuf[i]
          /\ OfPackets(Stream, l, size, top) /\ Intact(Stream, l, size, top)
      BY <1>2, <2>1, StreamTyped DEF StreamInv
    <2>3. Len(handled) \in Nat /\ Stream[1] = <<Len(handled) + 1, 1>> /\ l # 0
      <3>1. Len(rxBuf) + Len(wire) # 0
        BY <1>3, <2>2
      <3> QED
        BY <3>1, <1>2, <2>1, NextPacket
    <2>4. k = Len(handled) + 1 /\ Stream[1] = <<k, 1>> /\ k \in Nat
      <3>1. 1 \in 1..Len(rxBuf)
        BY <1>3
      <3>2. rxBuf[1] = <<Len(handled) + 1, 1>>
        BY <3>1, <2>2, <2>3
      <3> QED
        BY <3>2, <2>3
    <2>5. top \in Nat /\ \A x \in 1..top : size[x] \in Nat
      BY <1>2, SetupTyped
    <2> HIDE DEF k, l, top
    <2>6. /\ s \in 1..l /\ \A i \in 1..s : Stream[i] = <<k, i>>
          /\ IF s = l THEN k = top ELSE Stream[s + 1] = <<k + 1, 1>>
      <3>1. FirstIs(Stream, l, size, top, k)
        BY <2>3, <2>4, <2>5 DEF FirstIs
      <3>2. top \in Nat /\ l \in Nat /\ k \in Nat
        BY <2>2, <2>4, <2>5
      <3>3. OfPackets(Stream, l, size, top) /\ Intact(Stream, l, size, top)
        BY <2>2
      <3> QED
        BY <3>1, <3>2, <3>3, FirstWhole
    <2> HIDE DEF s
    <2>7. SubSeq(rxBuf, 1, s) = Whole(k)
      <3>1. Whole(k) = [i \in 1..s |-> <<k, i>>]
        BY DEF Whole, s
      <3>2. \A i \in 1..s : <<k, i>> \in Nat \X Nat
        BY <2>4
      <3>3. /\ Whole(k) \in Seq(Nat \X Nat) /\ Len(Whole(k)) = s
            /\ \A i \in 1..s : Whole(k)[i] = <<k, i>>
        BY <3>1, <3>2, <1>4, PacketBytes
      <3>4. /\ SubSeq(rxBuf, 1, s) \in Seq(Byte) /\ Len(SubSeq(rxBuf, 1, s)) = s
            /\ \A i \in 1..s : SubSeq(rxBuf, 1, s)[i] = rxBuf[i]
        BY <1>1, <1>3, <1>4, Front
      <3>5. ASSUME NEW i \in 1..s PROVE SubSeq(rxBuf, 1, s)[i] = Whole(k)[i]
        <4>1. i \in 1..Len(rxBuf)
          BY <1>1, <1>3, <1>4
        <4>2. rxBuf[i] = <<k, i>>
          BY <4>1, <2>2, <2>6
        <4> QED
          BY <4>2, <3>3, <3>4
      <3>6. SubSeq(rxBuf, 1, s) \in Seq((Nat \X Nat) \cup Byte)
            /\ Whole(k) \in Seq((Nat \X Nat) \cup Byte)
        BY <3>3, <3>4
      <3> QED
        BY <3>3, <3>4, <3>5, <3>6, SameElements
    <2>8. handled' = Append(handled, k) /\ handled \in Seq(0..MaxPackets)
      BY <2>7, <1>1, <1>2 DEF ReceiveTypeOK
    <2>9. Len(handled') = Len(handled) + 1
      BY <2>8
    <2>10. HandledInOrder'
      <3>1. ASSUME NEW i \in 1..(Len(handled) + 1) PROVE handled'[i] = i
        <4>1. CASE i \in 1..Len(handled)
          BY <4>1, <2>1, <2>8 DEF HandledInOrder
        <4>2. CASE i = Len(handled) + 1
          BY <4>2, <2>4, <2>8
        <4> QED
          BY <4>1, <4>2, <2>3
      <3> QED
        BY <3>1, <2>9 DEF HandledInOrder
    <2>11. Stream' = SubSeq(Stream, s + 1, l)
      <3>1. s \in 0..Len(rxBuf)
        BY <1>1, <1>3, <1>4
      <3>2. SubSeq(rxBuf, s + 1, Len(rxBuf)) \o wire
                = SubSeq(rxBuf \o wire, s + 1, Len(rxBuf \o wire))
        BY <3>1, <1>3, DropsFront
      <3> QED
        BY <3>2, <1>1 DEF Stream, l
    <2>12. Len(Stream') = l - s /\ \A m \in 1..(l - s) : Stream'[m] = Stream[m + s]
      <3>1. s + 1 \in Nat \ {0} /\ s + 1 <= l + 1 /\ (l + 1) - (s + 1) = l - s
        <4>1. l \in Nat /\ s \in Nat /\ 1 <= s /\ s <= l
          BY <2>2, <2>6
        <4> QED
          BY <4>1
      <3>2. Len(Stream) = l
        BY DEF l
      <3> QED
        BY <3>1, <3>2, <2>2, <2>6, <2>11
    <2>13. Intact(Stream', l - s, size, top)
      BY <2>2, <2>5, <2>6, <2>12, FirstOff
    <2>14. StartsWith(Stream', l - s, k + 1, top)
      <3>1. CASE s = l
        BY <3>1, <2>2, <2>6 DEF StartsWith
      <3>2. CASE s # l
        <4>1. 1 \in 1..(l - s) /\ l - s # 0 /\ 1 + s = s + 1
          BY <3>2, <2>2, <2>6
        <4> QED
          BY <4>1, <3>2, <2>6, <2>12 DEF StartsWith
      <3> QED
        BY <3>1, <3>2
    <2>15. StreamInv'
      <3>1. Len(handled') + 1 = k + 1 /\ Len(size') = top /\ size' = size
        BY <1>1, <2>4, <2>9 DEF top
      <3> QED
        BY <3>1, <2>12, <2>13, <2>14 DEF StreamInv
    <2>16. RoomInv'
      BY <1>1 DEF RoomInv
    <2> QED
      BY <2>10, <2>15, <2>16
  <1> QED
    BY <1>1, <1>2, <1>7, <1>8, <1>9 DEF ReceiveInv

\* A stream that is a stream of packets starts with a first byte.
LEMMA AtStartOfPacket ==
    ASSUME ReceiveInv, KeepsUp, open, rxBuf # <<>>
    PROVE  /\ rxBuf[1] = <<Len(handled) + 1, 1>> /\ AtStart
           /\ Need = size[Len(handled) + 1]
  <1>1. ReceiveTypeOK /\ StreamInv
    BY DEF ReceiveInv
  <1>2. rxBuf \in Seq(Byte) /\ Len(rxBuf) \in Nat /\ Len(rxBuf) # 0
    BY <1>1 DEF ReceiveTypeOK
  <1>3. /\ 1 \in 1..Len(rxBuf) /\ Len(rxBuf) + Len(wire) # 0
        /\ Stream[1] = rxBuf[1]
    BY <1>1, <1>2, StreamTyped
  <1>4. rxBuf[1] = <<Len(handled) + 1, 1>>
    BY <1>1, <1>3, NextPacket
  <1> QED
    BY <1>4 DEF AtStart, Need

\* Bytes from the middle of a packet are parsed only where a burst overran the
\* buffer before.
LEMMA ParseGarbageStep ==
    ASSUME ReceiveInv, ParseGarbage
    PROVE  ReceiveInv'
  <1>1. /\ parsing /\ rxBuf # <<>> /\ ~AtStart /\ handled' = Append(handled, 0)
        /\ UNCHANGED <<setup, size, wire, burst, parsing, open>>
    BY DEF ParseGarbage
  <1>2. PICK k \in 1..Len(rxBuf) : rxBuf' = SubSeq(rxBuf, k + 1, Len(rxBuf))
    BY DEF ParseGarbage
  <1>3. ReceiveTypeOK /\ open
    BY <1>1 DEF ReceiveInv
  <1>4. rxBuf \in Seq(Byte) /\ Len(rxBuf) \in Nat
    BY <1>3 DEF ReceiveTypeOK
  <1>5. rxBuf' \in Seq(Byte) /\ Len(rxBuf') = Len(rxBuf) - k
    BY <1>2, <1>4
  <1>6. UNCHANGED Byte
    BY <1>1 DEF Byte
  <1>7. Len(rxBuf') <= setup.buf
    BY <1>2, <1>3, <1>4, <1>5, SetupTyped DEF ReceiveTypeOK
  <1>8. handled' \in Seq(0..MaxPackets)
    BY <1>1, <1>3, ReceiveAssumption DEF ReceiveTypeOK
  <1>9. ReceiveTypeOK'
    BY <1>1, <1>3, <1>5, <1>6, <1>7, <1>8 DEF ReceiveTypeOK
  <1>10. ~KeepsUp /\ KeepsUp' = KeepsUp
    BY <1>1, <1>3, AtStartOfPacket DEF KeepsUp, AllFit, Fits, Is
  <1> QED
    BY <1>1, <1>9, <1>10 DEF ReceiveInv

\* The parse loop stops where less than a packet is left, or gives up.
LEMMA ParseEndsStep ==
    ASSUME ReceiveInv, ParseEnds
    PROVE  ReceiveInv'
  <1>1. /\ parsing /\ ~(AtStart /\ Need <= Len(rxBuf))
        /\ UNCHANGED <<setup, size, wire, burst, handled>>
    BY DEF ParseEnds
  <1>2. ReceiveTypeOK /\ open
    BY <1>1 DEF ReceiveInv
  <1>3. UNCHANGED Byte
    BY <1>1 DEF Byte
  <1>4. KeepsUp' = KeepsUp /\ HandledInOrder' = HandledInOrder
    BY <1>1 DEF KeepsUp, AllFit, Fits, Is, HandledInOrder
  <1>5. CASE open' = FALSE /\ rxBuf' = <<>> /\ parsing' = FALSE
    <2>1. rxBuf' \in Seq(Byte) /\ Len(rxBuf') <= setup.buf
      BY <1>2, <1>5, SetupTyped
    <2>2. ReceiveTypeOK'
      BY <1>1, <1>2, <1>3, <1>5, <2>1 DEF ReceiveTypeOK
    <2> QED
      BY <2>2, <1>4, <1>5 DEF ReceiveInv
  <1>6. CASE parsing' = FALSE /\ UNCHANGED <<rxBuf, open>>
    <2>1. ReceiveTypeOK'
      BY <1>1, <1>2, <1>3, <1>6 DEF ReceiveTypeOK
    <2>2. StreamInv' = StreamInv
      BY <1>1, <1>6 DEF StreamInv, Stream
    <2>3. ASSUME KeepsUp PROVE RoomInv'
      <3> SUFFICES ASSUME Len(handled) < Len(size)
                   PROVE  Len(rxBuf) - burst < size[Len(handled) + 1]
        BY <1>1, <1>6 DEF RoomInv
      <3>1. Len(handled) + 1 \in 1..Len(size) /\ burst \in Nat
        BY <1>2, SetupTyped DEF ReceiveTypeOK
      <3> DEFINE s == size[Len(handled) + 1]
      <3>2. s \in Nat /\ 1 <= s /\ Len(rxBuf) \in Nat
        BY <3>1, <1>2, SetupTyped, StreamTyped
      <3>3. CASE rxBuf = <<>>
        <4>1. Len(rxBuf) = 0
          BY <3>3
        <4> HIDE DEF s
        <4>2. Len(rxBuf) - burst < s
          BY <4>1, <3>1, <3>2
        <4> QED
          BY <4>2 DEF s
      <3>4. CASE rxBuf # <<>>
        <4>1. ~(s <= Len(rxBuf))
          BY <3>4, <2>3, <1>1, <1>2, AtStartOfPacket
        <4> HIDE DEF s
        <4>2. Len(rxBuf) - burst < s
          BY <4>1, <3>1, <3>2
        <4> QED
          BY <4>2 DEF s
      <3> QED
        BY <3>3, <3>4
    <2> QED
      BY <2>1, <2>2, <2>3, <1>2, <1>4, <1>6 DEF ReceiveInv
  <1>7. \/ open' = FALSE /\ rxBuf' = <<>> /\ parsing' = FALSE
        \/ parsing' = FALSE /\ UNCHANGED <<rxBuf, open>>
    BY DEF ParseEnds, Close
  <1> QED
    BY <1>5, <1>6, <1>7

\* No step of the peer, of TCP or of the receiver breaks the invariant.
LEMMA ReceiveStep == ReceiveInv /\ [ReceiveNext]_receiveVars => ReceiveInv'
  <1> SUFFICES ASSUME ReceiveInv, [ReceiveNext]_receiveVars PROVE ReceiveInv'
    OBVIOUS
  <1>1. ASSUME NEW s \in setup.sizes, PeerSends(s) PROVE ReceiveInv'
    BY <1>1, PeerSendsStep
  <1>2. CASE Receive
    <2>1. ASSUME NEW k \in 1..setup.burst, ClientReads(k) PROVE ReceiveInv'
      BY <2>1, ClientReadsStep
    <2>2. ASSUME NEW k \in 1..setup.burst, ReadConn(k) PROVE ReceiveInv'
      BY <2>2, ReadConnStep
    <2>3. ASSUME NEW k \in 1..setup.burst, BrokerRecv(k) PROVE ReceiveInv'
      BY <2>3, BrokerRecvStep
    <2>4. ASSUME NEW k \in 1..setup.burst, NEW j \in 1..k, ClientRecv(j, k) PROVE ReceiveInv'
      BY <2>4, ClientRecvStep
    <2> QED
      BY <1>2, <2>1, <2>2, <2>3, <2>4 DEF Receive
  <1>3. CASE BrokerServices
    BY <1>3, BrokerServicesStep
  <1>4. CASE Parse
    BY <1>4, ParseStep
  <1>5. CASE ParseGarbage
    BY <1>5, ParseGarbageStep
  <1>6. CASE ParseEnds
    BY <1>6, ParseEndsStep
  <1>7. CASE UNCHANGED receiveVars
    BY <1>7 DEF receiveVars, ReceiveInv, ReceiveTypeOK, Byte, StreamInv, Stream, RoomInv,
                HandledInOrder, KeepsUp, AllFit, Fits, Is
  <1> QED
    BY <1>1, <1>2, <1>3, <1>4, <1>5, <1>6, <1>7 DEF ReceiveNext

\* The invariant of the receivers, for every setup.
THEOREM ReceiveInvariance == ReceiveSpec => []ReceiveInv
  <1> QED
    BY ReceiveInitial, ReceiveStep, PTL DEF ReceiveSpec

\* Every variable keeps its type, and no buffer is overrun, whatever the peer
\* sends and however TCP cuts it.
THEOREM ReceiveTypeCorrect == ReceiveSpec => []ReceiveTypeOK
  <1>1. ReceiveInv => ReceiveTypeOK
    BY DEF ReceiveInv
  <1> QED
    BY <1>1, ReceiveInvariance, PTL

\* The packets handed to processPacket() are those the peer sent, whole and in
\* order, on ESP32 always and on RP2040 as long as bursts fit behind an
\* incomplete packet.
THEOREM ReceivedInOrder == ReceiveSpec => []InOrder
  <1>1. ReceiveInv => InOrder
    BY DEF ReceiveInv, InOrder, KeepsUp
  <1> QED
    BY <1>1, ReceiveInvariance, PTL

-----------------------------------------------------------------------------
(* The broker.                                                             *)

-----------------------------------------------------------------------------
(* The inductive strengthening.                                            *)

\* A client that has not said CONNECT yet has subscribed to nothing.
AskedInv == \A s \in Slot : conns[s].active /\ ~conns[s].connected => asked[s] = {}

\* What is counted is finite, whatever Topic and Filter are.
CountInv ==
    /\ IsFiniteSet(Kept)
    /\ \A s \in Slot : IsFiniteSet(conns[s].subscriptions)

BrokerInv == /\ BrokerTypeOK /\ AskedInv /\ CountInv
        /\ SubscriptionsOwn /\ RetainedIsLatest /\ SubscriberUpToDate

-----------------------------------------------------------------------------
(* Sets that grow and shrink by one.                                       *)

\* A finite set below its limit has room for one more.
LEMMA GrowsByOne ==
    ASSUME NEW S, NEW x, NEW m \in Nat, IsFiniteSet(S), Cardinality(S) < m
    PROVE  IsFiniteSet(S \cup {x}) /\ Cardinality(S \cup {x}) <= m
  <1>1. Cardinality(S) \in Nat
    BY FS_CardinalityType
  <1> QED
    BY <1>1, FS_AddElement

\* Part of a finite set is finite and within the same limit.
LEMMA Shrinks ==
    ASSUME NEW S, NEW T, NEW m \in Nat, IsFiniteSet(S), Cardinality(S) <= m, T \subseteq S
    PROVE  IsFiniteSet(T) /\ Cardinality(T) <= m
  <1>1. Cardinality(S) \in Nat /\ IsFiniteSet(T) /\ Cardinality(T) <= Cardinality(S)
    BY FS_CardinalityType, FS_Subset
  <1>2. Cardinality(T) \in Nat
    BY <1>1, FS_CardinalityType
  <1> QED
    BY <1>1, <1>2

\* A set of numbers has a least one.
LEMMA SmallestNat ==
    ASSUME NEW T, T \subseteq Nat, T # {}
    PROVE  \E m \in T : \A r \in T : m <= r
  <1>1. \E m \in T : \A r \in T : <<r, m>> \notin OpToRel(<, Nat)
    BY NatLessThanWellFounded, WFMin
  <1>2. \A r, m \in Nat : r < m => <<r, m>> \in OpToRel(<, Nat)
    BY Zenon DEF OpToRel
  <1>3. \E m \in T : \A r \in T : ~(r < m)
    BY <1>1, <1>2, Zenon
  <1> QED
    BY <1>3

\* Nothing is within every limit.
LEMMA NoneAtAll == IsFiniteSet({}) /\ \A m \in Nat : Cardinality({}) <= m
  BY FS_EmptySet

-----------------------------------------------------------------------------
(* Connections.                                                            *)

\* A slot in the hands of a client.
OwnSlot(conn, wanted) ==
    /\ IsFiniteSet(conn.subscriptions) /\ Cardinality(conn.subscriptions) <= MaxConnSubs
    /\ conn.subscriptions = IF conn.connected THEN wanted ELSE {}
    /\ conn.active /\ ~conn.connected => wanted = {}

\* What the invariant says of one slot.
LEMMA SlotFacts ==
    ASSUME BrokerInv, NEW s \in Slot
    PROVE  conns[s] \in Conn /\ asked[s] \in SUBSET Filter /\ OwnSlot(conns[s], asked[s])
  BY DEF BrokerInv, BrokerTypeOK, AskedInv, CountInv, SubscriptionsOwn, OwnSlot

\* One slot changes: its invariants are those of its new contents.
LEMMA SlotStep ==
    ASSUME BrokerInv, NEW s \in Slot, NEW conn \in Conn, NEW wanted \in SUBSET Filter,
           OwnSlot(conn, wanted),
           conns' = [conns EXCEPT ![s] = conn], asked' = [asked EXCEPT ![s] = wanted]
    PROVE  /\ conns' \in [Slot -> Conn] /\ asked' \in [Slot -> SUBSET Filter]
           /\ AskedInv' /\ SubscriptionsOwn'
           /\ \A r \in Slot : IsFiniteSet(conns'[r].subscriptions)
           /\ conns'[s] = conn /\ \A r \in Slot : r # s => conns'[r] = conns[r]
  <1>1. /\ conns \in [Slot -> Conn] /\ asked \in [Slot -> SUBSET Filter]
        /\ \A r \in Slot : OwnSlot(conns[r], asked[r])
    BY SlotFacts DEF BrokerInv, BrokerTypeOK
  <1>2. /\ conns' \in [Slot -> Conn] /\ asked' \in [Slot -> SUBSET Filter]
        /\ conns'[s] = conn /\ asked'[s] = wanted
        /\ \A r \in Slot : r # s => conns'[r] = conns[r] /\ asked'[r] = asked[r]
    BY <1>1
  <1>3. \A r \in Slot : OwnSlot(conns'[r], asked'[r])
    BY <1>1, <1>2
  <1> QED
    BY <1>2, <1>3 DEF OwnSlot, AskedInv, SubscriptionsOwn

\* What is retained stays, and with it what is said about it.
LEMMA RetainedSame ==
    ASSUME BrokerInv, UNCHANGED <<retained, n, last, lastKept>>
    PROVE  /\ RetainedIsLatest' /\ IsFiniteSet(Kept)' /\ Kept' = Kept
           /\ retained' \in [Topic -> 0..MaxRouted] /\ n' \in 0..MaxRouted
           /\ last' \in [Topic -> 0..MaxRouted] /\ lastKept' \in [Topic -> 0..MaxRouted]
  BY DEF BrokerInv, BrokerTypeOK, RetainedIsLatest, Kept, CountInv

\* A slot that becomes free.
LEMMA CloseStep ==
    ASSUME BrokerInv, NEW s \in Slot, CloseConn(s)
    PROVE  BrokerInv'
  <1> DEFINE conn == [conns[s] EXCEPT !.active = FALSE, !.connected = FALSE, !.subscriptions = {}]
  <1>1. conns[s] \in Conn /\ asked[s] \in SUBSET Filter
    BY SlotFacts
  <1>2. conn \in Conn /\ ~conn.connected /\ ~conn.active /\ conn.subscriptions = {}
    BY <1>1 DEF Conn
  <1>3. conns' = [conns EXCEPT ![s] = conn] /\ asked' = [asked EXCEPT ![s] = asked[s]]
    BY <1>1 DEF CloseConn, ghosts, BrokerInv, BrokerTypeOK
  <1> HIDE DEF conn
  <1>4. OwnSlot(conn, asked[s])
    BY <1>2, NoneAtAll, BrokerAssumption DEF OwnSlot
  <1>5. /\ conns' \in [Slot -> Conn] /\ asked' \in [Slot -> SUBSET Filter]
        /\ AskedInv' /\ SubscriptionsOwn'
        /\ \A r \in Slot : IsFiniteSet(conns'[r].subscriptions)
        /\ conns'[s] = conn /\ \A r \in Slot : r # s => conns'[r] = conns[r]
    BY <1>1, <1>2, <1>3, <1>4, SlotStep
  <1>6. /\ gone' \subseteq Slot /\ drops' = drops
        /\ UNCHANGED <<retained, n, seen, missed, last, lastKept>>
    BY DEF CloseConn, ghosts, BrokerInv, BrokerTypeOK
  <1>7. SubscriberUpToDate'
    <2>1. \A t \in Topic : Subscribers(t)' \subseteq Subscribers(t)
      BY <1>2, <1>5 DEF Subscribers
    <2> QED
      BY <1>6, <2>1 DEF SubscriberUpToDate, BrokerInv
  <1> QED
    BY <1>5, <1>6, <1>7, RetainedSame DEF BrokerInv, BrokerTypeOK, CountInv

\* A slot that is taken.
LEMMA AcceptStep ==
    ASSUME BrokerInv, Accept
    PROVE  BrokerInv'
  <1> DEFINE s == CHOOSE s \in FreeSlots : \A r \in FreeSlots : s <= r
             conn == [conns[s] EXCEPT !.active = TRUE, !.connected = FALSE, !.subscriptions = {}]
             none == [t \in Topic |-> 0]
  <1>1. s \in FreeSlots
    <2>1. FreeSlots \subseteq Nat /\ FreeSlots # {}
      BY BrokerAssumption DEF Accept, FreeSlots, Slot
    <2>2. \E m \in FreeSlots : \A r \in FreeSlots : m <= r
      BY <2>1, SmallestNat
    <2> QED
      BY <2>2
  <1>2. s \in Slot /\ ~conns[s].active
    BY <1>1 DEF FreeSlots
  <1>3. /\ conns' = [conns EXCEPT ![s] = [conns[s] EXCEPT !.active = TRUE,
                                    !.connected = FALSE, !.subscriptions = {}]]
        /\ asked' = [asked EXCEPT ![s] = {}] /\ seen' = [seen EXCEPT ![s] = none]
        /\ missed' = missed \ {s} /\ UNCHANGED <<gone, retained, n, drops, last, lastKept>>
    BY DEF Accept
  <1> HIDE DEF s
  <1>4. conns[s] \in Conn
    BY <1>2, SlotFacts
  <1>5. conn \in Conn /\ ~conn.connected /\ conn.subscriptions = {}
    BY <1>4 DEF Conn
  <1>6. conns' = [conns EXCEPT ![s] = conn]
    BY <1>3
  <1> HIDE DEF conn
  <1>7. OwnSlot(conn, {})
    BY <1>5, NoneAtAll, BrokerAssumption DEF OwnSlot
  <1>8. /\ conns' \in [Slot -> Conn] /\ asked' \in [Slot -> SUBSET Filter]
        /\ AskedInv' /\ SubscriptionsOwn'
        /\ \A r \in Slot : IsFiniteSet(conns'[r].subscriptions)
        /\ conns'[s] = conn /\ \A r \in Slot : r # s => conns'[r] = conns[r]
    BY <1>2, <1>3, <1>5, <1>6, <1>7, SlotStep
  <1>9. /\ seen' \in [Slot -> [Topic -> 0..MaxRouted]] /\ missed' \subseteq Slot
        /\ \A r \in Slot : r # s => seen'[r] = seen[r]
    <2>1. none \in [Topic -> 0..MaxRouted]
      BY BrokerAssumption
    <2> QED
      BY <1>2, <1>3, <2>1 DEF BrokerInv, BrokerTypeOK
  <1>10. SubscriberUpToDate'
    <2>1. \A t \in Topic : Subscribers(t)' \subseteq Subscribers(t) \ {s}
      BY <1>5, <1>8 DEF Subscribers
    <2> QED
      BY <1>3, <1>9, <2>1 DEF SubscriberUpToDate, BrokerInv
  <1> QED
    BY <1>3, <1>8, <1>9, <1>10, RetainedSame DEF BrokerInv, BrokerTypeOK, CountInv

-----------------------------------------------------------------------------
(* Packets.                                                                *)

\* What sending retained messages does: whoever missed none got them all.
LEMMA Sent ==
    ASSUME BrokerInv, NEW s \in Slot, NEW topics, SendRetained(s, topics)
    PROVE  /\ drops' \in 0..MaxDrops
           /\ seen' \in [Slot -> [Topic -> 0..MaxRouted]]
           /\ missed' \subseteq Slot /\ missed \subseteq missed'
           /\ \A r \in Slot : r # s => seen'[r] = seen[r]
           /\ s \notin missed' => \A t \in Topic :
                seen'[s][t] = IF t \in topics /\ retained[t] # 0
                              THEN retained[t] ELSE seen[s][t]
  <1>1. PICK lost \in SUBSET (topics \cap Kept) :
            /\ Dropping(lost)
            /\ seen' = [seen EXCEPT ![s] = [t \in Topic |->
                   IF t \in (topics \cap Kept) \ lost THEN retained[t] ELSE seen[s][t]]]
            /\ missed' = IF lost = {} THEN missed ELSE missed \cup {s}
    BY DEF SendRetained
  <1> DEFINE got == [t \in Topic |->
                IF t \in (topics \cap Kept) \ lost THEN retained[t] ELSE seen[s][t]]
  <1>2. drops' \in 0..MaxDrops
    <2>1. drops \in Nat
      BY DEF BrokerInv, BrokerTypeOK
    <2> QED
      BY <1>1, <2>1, BrokerAssumption DEF Dropping
  <1>3. /\ seen \in [Slot -> [Topic -> 0..MaxRouted]] /\ missed \subseteq Slot
        /\ retained \in [Topic -> 0..MaxRouted]
    BY DEF BrokerInv, BrokerTypeOK
  <1>4. got \in [Topic -> 0..MaxRouted]
    BY <1>3
  <1>5. seen' = [seen EXCEPT ![s] = got]
    BY <1>1
  <1>6. lost = {} => \A t \in Topic :
            got[t] = IF t \in topics /\ retained[t] # 0 THEN retained[t] ELSE seen[s][t]
    BY DEF Kept
  <1> HIDE DEF got
  <1> QED
    BY <1>1, <1>2, <1>3, <1>4, <1>5, <1>6

\* handleConnect() starts a session without subscriptions.
LEMMA ConnectStep ==
    ASSUME BrokerInv, NEW s \in Slot, NEW keepAlive \in BOOLEAN,
           HandleConnect(s, keepAlive)
    PROVE  BrokerInv'
  <1> DEFINE conn == [conns[s] EXCEPT !.connected = TRUE, !.keepAlive = keepAlive]
  <1>1. conns[s] \in Conn /\ asked[s] \in SUBSET Filter /\ OwnSlot(conns[s], asked[s])
    BY SlotFacts
  <1>2. /\ conn \in Conn /\ conn.connected /\ conn.subscriptions = conns[s].subscriptions
    <2>1. conns[s].active
      BY DEF HandleConnect, Hears
    <2> QED
      BY <1>1, <2>1 DEF Conn
  <1>3. conns' = [conns EXCEPT ![s] = conn] /\ asked' = [asked EXCEPT ![s] = asked[s]]
    BY <1>1 DEF HandleConnect, BrokerInv, BrokerTypeOK
  <1> HIDE DEF conn
  <1>4. OwnSlot(conn, asked[s])
    BY <1>1, <1>2 DEF OwnSlot, HandleConnect, Hears
  <1>5. /\ conns' \in [Slot -> Conn] /\ asked' \in [Slot -> SUBSET Filter]
        /\ AskedInv' /\ SubscriptionsOwn'
        /\ \A r \in Slot : IsFiniteSet(conns'[r].subscriptions)
        /\ conns'[s] = conn /\ \A r \in Slot : r # s => conns'[r] = conns[r]
    BY <1>1, <1>2, <1>3, <1>4, SlotStep
  <1>6. /\ SendRetained(s, Topic)
        /\ UNCHANGED <<gone, retained, n, last, lastKept>>
    BY DEF HandleConnect
  <1>7. SubscriberUpToDate'
    <2> SUFFICES ASSUME NEW r \in Slot, NEW t \in Topic,
                        r \in Subscribers(t)' \ missed',
                        retained[t] # 0, retained[t] = last[t]
                 PROVE  seen'[r][t] = last[t]
      BY <1>6 DEF SubscriberUpToDate
    <2>1. CASE r = s
      BY <1>6, <2>1, Sent
    <2>2. CASE r # s
      BY <1>5, <1>6, <2>2, Sent DEF Subscribers, SubscriberUpToDate, BrokerInv
    <2> QED
      BY <2>1, <2>2
  <1> QED
    BY <1>5, <1>6, <1>7, Sent, RetainedSame DEF BrokerInv, BrokerTypeOK, CountInv

\* handleSubscribe() adds a subscription, and hands out what is retained of it.
LEMMA SubscribeStep ==
    ASSUME BrokerInv, NEW s \in Slot, NEW f \in Filter,
           HandleSubscribe(s, f)
    PROVE  BrokerInv'
  <1> DEFINE topics == {t \in Topic : Matches(f, t)}
  <1>1. conns[s] \in Conn /\ asked[s] \in SUBSET Filter /\ OwnSlot(conns[s], asked[s])
    BY SlotFacts
  <1>2. conns[s].connected /\ SendRetained(s, topics)
        /\ UNCHANGED <<gone, retained, n, last, lastKept>>
    BY DEF HandleSubscribe
  <1> HIDE DEF topics
  <1>3. PICK conn \in Conn, wanted \in SUBSET Filter :
            /\ conns' = [conns EXCEPT ![s] = conn] /\ asked' = [asked EXCEPT ![s] = wanted]
            /\ OwnSlot(conn, wanted) /\ conn.connected
            /\ conn.subscriptions \subseteq conns[s].subscriptions \cup {f}
    <2>1. CASE Cardinality(conns[s].subscriptions) < MaxConnSubs
      <3> DEFINE conn == [conns[s] EXCEPT !.subscriptions = conns[s].subscriptions \cup {f}]
                 wanted == asked[s] \cup {f}
      <3>1. /\ conn \in Conn /\ conn.subscriptions = conns[s].subscriptions \cup {f}
            /\ conn.connected /\ conn.active
        BY <1>1, <1>2 DEF Conn
      <3>2. conns' = [conns EXCEPT ![s] = conn] /\ asked' = [asked EXCEPT ![s] = wanted]
        BY <2>1 DEF HandleSubscribe
      <3> HIDE DEF conn
      <3>3. OwnSlot(conn, wanted)
        <4>1. /\ IsFiniteSet(conn.subscriptions) /\ Cardinality(conn.subscriptions) <= MaxConnSubs
          <5>1. MaxConnSubs \in Nat /\ IsFiniteSet(conns[s].subscriptions)
            BY <1>1, BrokerAssumption DEF OwnSlot
          <5>2. /\ IsFiniteSet(conns[s].subscriptions \cup {f})
                /\ Cardinality(conns[s].subscriptions \cup {f}) <= MaxConnSubs
            BY <2>1, <5>1, GrowsByOne
          <5> QED
            BY <3>1, <5>2
        <4> QED
          BY <1>1, <1>2, <3>1, <4>1 DEF OwnSlot
      <3>4. wanted \in SUBSET Filter
        BY <1>1
      <3> QED
        BY <3>1, <3>2, <3>3, <3>4
    <2>2. CASE ~(Cardinality(conns[s].subscriptions) < MaxConnSubs)
      <3>1. UNCHANGED <<conns, asked>>
        BY <2>2 DEF HandleSubscribe
      <3>2. /\ conns' = [conns EXCEPT ![s] = conns[s]]
            /\ asked' = [asked EXCEPT ![s] = asked[s]]
        BY <3>1 DEF BrokerInv, BrokerTypeOK
      <3> QED
        BY <1>1, <1>2, <3>2
    <2> QED
      BY <2>1, <2>2
  <1>4. /\ conns' \in [Slot -> Conn] /\ asked' \in [Slot -> SUBSET Filter]
        /\ AskedInv' /\ SubscriptionsOwn'
        /\ \A r \in Slot : IsFiniteSet(conns'[r].subscriptions)
        /\ conns'[s] = conn /\ \A r \in Slot : r # s => conns'[r] = conns[r]
    BY <1>3, SlotStep
  <1>5. SubscriberUpToDate'
    <2> SUFFICES ASSUME NEW r \in Slot, NEW t \in Topic,
                        r \in Subscribers(t)' \ missed',
                        retained[t] # 0, retained[t] = last[t]
                 PROVE  seen'[r][t] = last[t]
      BY <1>2 DEF SubscriberUpToDate
    <2>1. CASE r = s /\ t \in topics
      BY <1>2, <2>1, Sent
    <2>2. CASE r = s /\ t \notin topics
      <3>1. s \in Subscribers(t)
        BY <1>2, <1>3, <1>4, <2>2 DEF Subscribers, topics
      <3> QED
        BY <1>2, <2>2, <3>1, Sent DEF SubscriberUpToDate, BrokerInv
    <2>3. CASE r # s
      BY <1>2, <1>4, <2>3, Sent DEF Subscribers, SubscriberUpToDate, BrokerInv
    <2> QED
      BY <2>1, <2>2, <2>3
  <1> QED
    BY <1>2, <1>4, <1>5, Sent, RetainedSame DEF BrokerInv, BrokerTypeOK, CountInv

\* handleUnsubscribe() takes one away.
LEMMA UnsubscribeStep ==
    ASSUME BrokerInv, NEW s \in Slot, NEW f \in Filter,
           HandleUnsubscribe(s, f)
    PROVE  BrokerInv'
  <1> DEFINE conn == [conns[s] EXCEPT !.subscriptions = conns[s].subscriptions \ {f}]
             wanted == asked[s] \ {f}
  <1>1. conns[s] \in Conn /\ asked[s] \in SUBSET Filter /\ OwnSlot(conns[s], asked[s])
    BY SlotFacts
  <1>2. /\ conns[s].connected
        /\ UNCHANGED <<gone, retained, n, drops, seen, missed, last, lastKept>>
    BY DEF HandleUnsubscribe
  <1>3. /\ conn \in Conn /\ conn.subscriptions = conns[s].subscriptions \ {f}
        /\ conn.connected /\ wanted \in SUBSET Filter
    BY <1>1, <1>2 DEF Conn
  <1>4. conns' = [conns EXCEPT ![s] = conn] /\ asked' = [asked EXCEPT ![s] = wanted]
    BY DEF HandleUnsubscribe
  <1> HIDE DEF conn
  <1>5. OwnSlot(conn, wanted)
    <2>1. /\ IsFiniteSet(conn.subscriptions) /\ Cardinality(conn.subscriptions) <= MaxConnSubs
      BY <1>1, <1>3, Shrinks, BrokerAssumption DEF OwnSlot
    <2> QED
      BY <1>1, <1>2, <1>3, <2>1 DEF OwnSlot
  <1> HIDE DEF wanted
  <1>6. /\ conns' \in [Slot -> Conn] /\ asked' \in [Slot -> SUBSET Filter]
        /\ AskedInv' /\ SubscriptionsOwn'
        /\ \A r \in Slot : IsFiniteSet(conns'[r].subscriptions)
        /\ conns'[s] = conn /\ \A r \in Slot : r # s => conns'[r] = conns[r]
    BY <1>1, <1>3, <1>4, <1>5, SlotStep
  <1>7. SubscriberUpToDate'
    <2>1. \A t \in Topic : Subscribers(t)' \subseteq Subscribers(t)
      BY <1>2, <1>3, <1>6 DEF Subscribers
    <2> QED
      BY <1>2, <2>1 DEF SubscriberUpToDate, BrokerInv
  <1> QED
    BY <1>2, <1>6, <1>7, RetainedSame DEF BrokerInv, BrokerTypeOK, CountInv

-----------------------------------------------------------------------------
(* Routing.                                                                *)

\* The place of a topic: kept entries are counted, and only the last message
\* to be kept, or nothing, is.
LEMMA RouteRetains ==
    ASSUME BrokerInv, NEW t \in Topic, NEW retain \in BOOLEAN,
           NEW empty \in BOOLEAN, RoutePublish(t, retain, empty)
    PROVE  /\ retained' \in [Topic -> 0..MaxRouted]
           /\ lastKept' \in [Topic -> 0..MaxRouted]
           /\ \A u \in Topic : u # t => retained'[u] = retained[u]
           /\ RetainedIsLatest' /\ IsFiniteSet(Kept)'
  <1>1. /\ n \in Nat /\ n + 1 \in 0..MaxRouted /\ n + 1 # 0
        /\ retained \in [Topic -> 0..MaxRouted] /\ lastKept \in [Topic -> 0..MaxRouted]
        /\ \A u \in Topic : retained[u] \in {0, lastKept[u]}
        /\ IsFiniteSet(Kept) /\ Cardinality(Kept) <= MaxRetained
        /\ MaxRetained \in Nat /\ 0 \in 0..MaxRouted
    BY BrokerAssumption DEF BrokerInv, BrokerTypeOK, CountInv, RetainedIsLatest, RoutePublish
  <1>2. lastKept' = IF retain THEN [lastKept EXCEPT ![t] = IF empty THEN 0 ELSE n + 1]
                    ELSE lastKept
    BY DEF RoutePublish
  <1>3. /\ retained' \in [Topic -> 0..MaxRouted]
        /\ \A u \in Topic : u # t => retained'[u] = retained[u]
        /\ retained'[t] \in {0, lastKept'[t]}
        /\ retained'[t] = 0 \/ t \in Kept \/ Cardinality(Kept) < MaxRetained
    <2>1. CASE ~retain
      BY <1>1, <1>2, <2>1 DEF RoutePublish, Kept
    <2>2. CASE retain /\ empty
      BY <1>1, <1>2, <2>2 DEF RoutePublish, Retain
    <2>3. CASE retain /\ ~empty
      <3>1. CASE t \in Kept \/ Cardinality(Kept) < MaxRetained
        BY <1>1, <1>2, <2>3, <3>1 DEF RoutePublish, Retain
      <3>2. CASE ~(t \in Kept \/ Cardinality(Kept) < MaxRetained)
        BY <1>1, <1>2, <2>3, <3>2 DEF RoutePublish, Retain, Kept
      <3> QED
        BY <3>1, <3>2
    <2> QED
      BY <2>1, <2>2, <2>3
  <1>4. /\ lastKept' \in [Topic -> 0..MaxRouted]
        /\ \A u \in Topic : u # t => lastKept'[u] = lastKept[u]
    BY <1>1, <1>2
  <1>5. IsFiniteSet(Kept') /\ Cardinality(Kept') <= MaxRetained
    <2>1. CASE Kept' \subseteq Kept
      BY <1>1, <2>1, Shrinks
    <2>2. CASE ~(Kept' \subseteq Kept)
      <3>1. Kept' = Kept \cup {t} /\ Cardinality(Kept) < MaxRetained
        BY <1>3, <2>2 DEF Kept
      <3> QED
        BY <1>1, <3>1, GrowsByOne
    <2> QED
      BY <2>1, <2>2
  <1> QED
    BY <1>1, <1>3, <1>4, <1>5 DEF RetainedIsLatest

\* routePublish() retains the message and tells the subscribers.
LEMMA RouteStep ==
    ASSUME BrokerInv, NEW t \in Topic, NEW retain \in BOOLEAN,
           NEW empty \in BOOLEAN, RoutePublish(t, retain, empty),
           UNCHANGED <<conns, gone, asked>>
    PROVE  BrokerInv'
  <1>1. PICK lost \in SUBSET Subscribers(t) :
            /\ Dropping(lost)
            /\ seen' = [s \in Slot |-> IF s \in Subscribers(t) \ lost
                                       THEN [seen[s] EXCEPT ![t] = n + 1] ELSE seen[s]]
            /\ missed' = missed \cup lost
    BY DEF RoutePublish
  <1>2. /\ n' = n + 1 /\ n' \in 0..MaxRouted
        /\ last' = [last EXCEPT ![t] = n + 1] /\ last' \in [Topic -> 0..MaxRouted]
        /\ last \in [Topic -> 0..MaxRouted]
    BY BrokerAssumption DEF BrokerInv, BrokerTypeOK, RoutePublish
  <1>3. drops' \in 0..MaxDrops
    <2>1. drops \in Nat
      BY DEF BrokerInv, BrokerTypeOK
    <2> QED
      BY <1>1, <2>1, BrokerAssumption DEF Dropping
  <1>4. /\ seen' \in [Slot -> [Topic -> 0..MaxRouted]]
        /\ \A s \in Slot, u \in Topic :
             seen'[s][u] = IF u = t /\ s \in Subscribers(t) \ lost
                           THEN n + 1 ELSE seen[s][u]
    BY <1>1, <1>2 DEF BrokerInv, BrokerTypeOK
  <1>5. missed' \subseteq Slot
    BY <1>1 DEF BrokerInv, BrokerTypeOK, Subscribers
  <1>6. SubscriberUpToDate'
    <2> SUFFICES ASSUME NEW s \in Slot, NEW u \in Topic,
                        s \in Subscribers(u) \ missed',
                        retained'[u] # 0, retained'[u] = last'[u]
                 PROVE  seen'[s][u] = last'[u]
      BY DEF SubscriberUpToDate, Subscribers
    <2>1. CASE u = t
      BY <1>1, <1>2, <1>4, <2>1
    <2>2. CASE u # t
      <3>1. /\ retained[u] = retained'[u] /\ last'[u] = last[u]
            /\ s \in Subscribers(u) \ missed
        BY <1>1, <1>2, <2>2, RouteRetains
      <3> QED
        BY <1>4, <2>2, <3>1 DEF SubscriberUpToDate, BrokerInv
    <2> QED
      BY <2>1, <2>2
  <1>7. /\ conns' \in [Slot -> Conn] /\ gone' \subseteq Slot
        /\ asked' \in [Slot -> SUBSET Filter]
        /\ AskedInv' /\ SubscriptionsOwn'
        /\ \A s \in Slot : IsFiniteSet(conns'[s].subscriptions)
    BY DEF BrokerInv, BrokerTypeOK, AskedInv, SubscriptionsOwn, CountInv
  <1> QED
    BY <1>2, <1>3, <1>4, <1>5, <1>6, <1>7, RouteRetains DEF BrokerInv, BrokerTypeOK, CountInv

-----------------------------------------------------------------------------
(* The theorems.                                                           *)

\* At first nobody is connected and nothing is retained.
LEMMA BrokerInitInv == BrokerInit => BrokerInv
  <1> SUFFICES ASSUME BrokerInit PROVE BrokerInv
    OBVIOUS
  <1>1. BrokerTypeOK
    <2>1. Free \in Conn
      BY DEF Free, Conn
    <2> QED
      BY <2>1, BrokerAssumption DEF BrokerInit, BrokerTypeOK
  <1>2. \A s \in Slot : conns[s] = Free /\ asked[s] = {}
    BY DEF BrokerInit
  <1>3. \A s \in Slot : ~conns[s].active /\ ~conns[s].connected /\ conns[s].subscriptions = {}
    BY <1>2 DEF Free
  <1>4. Kept = {} /\ \A t \in Topic : retained[t] = 0
    BY DEF BrokerInit, Kept
  <1>5. AskedInv /\ CountInv
    BY <1>3, <1>4, NoneAtAll DEF AskedInv, CountInv
  <1>6. SubscriptionsOwn /\ RetainedIsLatest
    BY <1>3, <1>4, NoneAtAll, BrokerAssumption DEF SubscriptionsOwn, RetainedIsLatest
  <1>7. SubscriberUpToDate
    BY <1>4 DEF SubscriberUpToDate
  <1> QED
    BY <1>1, <1>5, <1>6, <1>7 DEF BrokerInv

\* The invariant speaks of the variables only.
LEMMA StutterInv == BrokerInv /\ UNCHANGED brokerVars => BrokerInv'
  BY DEF brokerVars, ghosts, BrokerInv, BrokerTypeOK, AskedInv, CountInv, SubscriptionsOwn,
         RetainedIsLatest, SubscriberUpToDate, Kept, Subscribers

\* A client that vanishes changes nothing the broker knows.
LEMMA VanishStep ==
    ASSUME BrokerInv, NEW s \in Slot, ClientVanishes(s)
    PROVE  BrokerInv'
  <1>1. gone' \subseteq Slot /\ UNCHANGED <<conns, retained, n, drops, ghosts>>
    BY DEF ClientVanishes, BrokerInv, BrokerTypeOK
  <1> QED
    BY <1>1 DEF ghosts, BrokerInv, BrokerTypeOK, AskedInv, CountInv, SubscriptionsOwn,
                RetainedIsLatest, SubscriberUpToDate, Kept, Subscribers

\* Every step keeps the invariant.
LEMMA NextInv == BrokerInv /\ [BrokerNext]_brokerVars => BrokerInv'
  <1> SUFFICES ASSUME BrokerInv, [BrokerNext]_brokerVars PROVE BrokerInv'
    OBVIOUS
  <1>1. CASE Accept
    BY <1>1, AcceptStep
  <1>2. ASSUME NEW t \in Topic, NEW retain \in BOOLEAN, DevicePublishes(t, retain)
        PROVE  BrokerInv'
    BY <1>2, RouteStep DEF DevicePublishes
  <1>3. ASSUME NEW s \in Slot, HandlePacket(s)
        PROVE  BrokerInv'
    <2>1. ASSUME NEW keepAlive \in BOOLEAN, HandleConnect(s, keepAlive)
          PROVE  BrokerInv'
      BY <2>1, ConnectStep
    <2>2. ASSUME NEW f \in Filter, HandleSubscribe(s, f) \/ HandleUnsubscribe(s, f)
          PROVE  BrokerInv'
      BY <2>2, SubscribeStep, UnsubscribeStep
    <2>3. ASSUME NEW t \in Topic, NEW retain \in BOOLEAN, NEW empty \in BOOLEAN,
                 HandlePublish(s, t, retain, empty)
          PROVE  BrokerInv'
      BY <2>3, RouteStep DEF HandlePublish
    <2> QED
      BY <1>3, <2>1, <2>2, <2>3 DEF HandlePacket
  <1>4. ASSUME NEW s \in Slot, CloseByClient(s) \/ KeepAliveTimeout(s)
        PROVE  BrokerInv'
    BY <1>4, CloseStep DEF CloseByClient, KeepAliveTimeout
  <1>5. ASSUME NEW s \in Slot, ClientVanishes(s)
        PROVE  BrokerInv'
    BY <1>5, VanishStep
  <1>6. CASE UNCHANGED brokerVars
    BY <1>6, StutterInv
  <1> QED
    BY <1>1, <1>2, <1>3, <1>4, <1>5, <1>6 DEF BrokerNext

\* The inductive invariant, for every value of the constants.
THEOREM BrokerInvariance == BrokerSpec => []BrokerInv
  <1>1. BrokerInit => BrokerInv
    BY BrokerInitInv
  <1>2. BrokerInv /\ [BrokerNext]_brokerVars => BrokerInv'
    BY NextInv
  <1> QED
    BY <1>1, <1>2, PTL DEF BrokerSpec

\* Every variable keeps its type.
THEOREM BrokerTypeCorrect == BrokerSpec => []BrokerTypeOK
  <1>1. BrokerInv => BrokerTypeOK
    BY DEF BrokerInv
  <1> QED
    BY <1>1, BrokerInvariance, PTL

\* A slot holds the subscriptions of its present client only, up to the
\* limit: closeConn(), acceptNew(), handleSubscribe(), handleUnsubscribe().
THEOREM OwnSubscriptions == BrokerSpec => []SubscriptionsOwn
  <1>1. BrokerInv => SubscriptionsOwn
    BY DEF BrokerInv
  <1> QED
    BY <1>1, BrokerInvariance, PTL

\* What routePublish() keeps for a topic is the last message to be retained,
\* or nothing, and it never keeps more than the limit.
THEOREM LatestRetained == BrokerSpec => []RetainedIsLatest
  <1>1. BrokerInv => RetainedIsLatest
    BY DEF BrokerInv
  <1> QED
    BY <1>1, BrokerInvariance, PTL

\* A subscriber that no full send buffer cost a message knows the retained
\* state of its topics, whichever of PUBLISH and SUBSCRIBE came first.
THEOREM UpToDate == BrokerSpec => []SubscriberUpToDate
  <1>1. BrokerInv => SubscriberUpToDate
    BY DEF BrokerInv
  <1> QED
    BY <1>1, BrokerInvariance, PTL
=============================================================================
