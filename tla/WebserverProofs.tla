--------------------------- MODULE WebserverProofs ---------------------------
(***************************************************************************)
(* The safety properties of the web server on RP2040 for every number of   *)
(* slots, of connections and of segments, every size of its buffers, every *)
(* page and every file.                                                    *)
(***************************************************************************)
EXTENDS Webserver, FiniteSetTheorems, SequenceTheorems, TLAPS

-----------------------------------------------------------------------------
(* The inductive strengthening.                                            *)

\* A slot and the connection in it agree on the request: what of an upload is
\* missing is still to come or was cut off, and only a whole request is
\* pending, until it is answered.
Request(slot, c) ==
    /\ slot.kind = c.kind
    /\ slot.kind = "none" => slot.state = "recv" /\ slot.rx < RxCap
    /\ IF slot.kind = "upload"
       THEN slot.got + c.rest + c.cut = BodyLen /\ slot.waiting = (slot.got < BodyLen)
       ELSE c.rest = 0 /\ c.cut = 0 /\ ~slot.waiting
    /\ IF slot.state = "recv"
       THEN /\ c.served = 0
            /\ slot.pending = (slot.kind # "none" /\ c.rest = 0 /\ c.cut = 0)
       ELSE c.served = 1 /\ ~slot.pending /\ c.rest = 0 /\ c.cut = 0

\* How much of the body has been written.
Progress(slot) == IF slot.streaming THEN slot.sent ELSE slot.next

\* Nothing of the answer is written before its turn; then what is written is
\* the body up to where the slot stands, unless something was refused.
Answer(slot, c) ==
    /\ slot.state = "recv" => /\ slot.next = 0 /\ slot.read = 0 /\ slot.sent = 0
                              /\ ~slot.streaming
                              /\ c.flight = 0 /\ c.out = <<>> /\ ~c.lost
    /\ slot.state = "send" => slot.streaming = (slot.kind = "file")
    /\ slot.state = "ws" => ~slot.streaming
    /\ slot.next <= Total(slot.kind)
    /\ slot.state = "send" /\ ~c.lost =>
          /\ c.out = [i \in 1 .. Progress(slot) |-> i]
          /\ slot.streaming => slot.read = slot.sent

\* A slot with its connection, and a free one.
Occupied(s, slot, c) ==
    c.st = "open" /\ c.arg = s /\ ~c.fin /\ Request(slot, c) /\ Answer(slot, c)

Empty(slot) == ~slot.body /\ ~slot.streaming /\ slot.next = 0

SlotsInv ==
    \A s \in Slot : IF slots[s].pcb = Null THEN Empty(slots[s])
                    ELSE Occupied(s, slots[s], conn[slots[s].pcb])

\* What the pointer of a connection leads to.
ConnsInv ==
    \A p \in Pcb :
        /\ conn[p].st \in {"none", "closed"} => conn[p].arg = Null
        /\ conn[p].st = "open" => InSlot(p)
        /\ conn[p].st \in {"refused", "robbed"} => conn[p].arg # Null /\ ~InSlot(p)

Streaming == {s \in Slot : slots[s].streaming}

InWebsocket(slot) == slot.pcb # Null /\ slot.state = "ws"

ListsInv ==
    /\ \A s \in Slot : clients[s] = IF InWebsocket(slots[s]) THEN 1 ELSE 0
    /\ files = Cardinality(Streaming)

IInv == TypeOK /\ SlotsInv /\ ConnsInv /\ ListsInv

-----------------------------------------------------------------------------
(* The constants.                                                          *)

\* A set of numbers has a least one.
LEMMA SmallestNat ==
    ASSUME NEW T, T \subseteq Nat, T # {}
    PROVE  \E m \in T : \A r \in T : m <= r
  <1>1. \E m \in T : \A r \in T : <<r, m>> \notin OpToRel(<, Nat)
    BY NatLessThanWellFounded, WFMin
  <1>2. \A r, m \in Nat : r < m => <<r, m>> \in OpToRel(<, Nat)
    BY Zenon DEF OpToRel
  <1>3. \E m \in T : \A r \in T : ~(r < m)
    BY <1>1, <1>2, Zenon
  <1> QED
    BY <1>3

\* A finite set of numbers has a greatest one.
LEMMA GreatestNat ==
    ASSUME NEW S, IsFiniteSet(S), S \subseteq Nat, S # {}
    PROVE  \E m \in S : \A e \in S : e <= m
  <1> DEFINE HasMax(T) == \E m \in T : \A e \in T : e <= m
             U == {Cardinality(T) : T \in {Q \in SUBSET S : Q # {} /\ ~HasMax(Q)}}
  <1> SUFFICES ASSUME ~HasMax(S) PROVE FALSE
    OBVIOUS
  <1>1. U \subseteq Nat
    BY FS_Subset, FS_CardinalityType
  <1>2. U # {}
    OBVIOUS
  <1>3. PICK k \in U : \A r \in U : k <= r
    BY <1>1, <1>2, SmallestNat
  <1>4. PICK T \in SUBSET S : T # {} /\ ~HasMax(T) /\ k = Cardinality(T)
    BY <1>3
  <1>5. PICK x \in T : TRUE
    BY <1>4
  <1>6. IsFiniteSet(T) /\ Cardinality(T) \in Nat
    BY FS_Subset, FS_CardinalityType
  <1>7. Cardinality(T \ {x}) = Cardinality(T) - 1
    BY <1>5, <1>6, FS_RemoveElement
  <1>8. CASE T \ {x} = {}
    BY <1>4, <1>5, <1>8
  <1>9. CASE T \ {x} # {} /\ HasMax(T \ {x})
    <2>1. PICK m \in T \ {x} : \A e \in T \ {x} : e <= m
      BY <1>9
    <2>2. m \in Nat /\ x \in Nat /\ T \subseteq Nat
      BY <2>1
    <2>3. CASE x <= m
      BY <1>4, <2>1, <2>2, <2>3
    <2>4. CASE m <= x
      <3>1. \A e \in T : e <= x
        BY <2>1, <2>2, <2>4
      <3> QED
        BY <1>4, <3>1
    <2> QED
      BY <2>2, <2>3, <2>4
  <1>10. CASE T \ {x} # {} /\ ~HasMax(T \ {x})
    <2>1. Cardinality(T \ {x}) \in U
      BY <1>10
    <2> HIDE DEF U
    <2>2. Cardinality(T) <= Cardinality(T \ {x})
      BY <1>3, <1>4, <2>1
    <2> QED
      BY <1>6, <1>7, <2>2
  <1> QED
    BY <1>8, <1>9, <1>10

\* The lengths of answers are numbers, and a page ends within itself.
LEMMA Lengths ==
    /\ PageLen \in Nat /\ \A e \in PageEnds : e <= PageLen
    /\ \A kind : Total(kind) \in Nat /\ (kind # "file" => Total(kind) <= PageLen)
  <1>1. \E m \in PageEnds : \A e \in PageEnds : e <= m
    <2>1. PageEnds \subseteq Nat /\ IsFiniteSet(PageEnds) /\ PageEnds # {}
      BY WebserverAssumption
    <2> QED
      BY <2>1, GreatestNat
  <1>2. PageLen \in PageEnds /\ \A e \in PageEnds : e <= PageLen
    BY <1>1 DEF PageLen
  <1>3. PageLen \in Nat
    BY <1>2, WebserverAssumption
  <1> QED
    BY <1>2, <1>3, WebserverAssumption DEF Total

\* There are MaxConn slots.
LEMMA SlotsFinite == IsFiniteSet(Slot) /\ Cardinality(Slot) = MaxConn
  BY FS_Interval, WebserverAssumption DEF Slot

-----------------------------------------------------------------------------
(* One slot and its connection at a time.                                  *)

\* What the invariant says of a slot in use.
LEMMA SlotFacts ==
    ASSUME IInv, NEW s \in Slot, slots[s].pcb # Null
    PROVE  /\ slots[s] \in SlotRecord /\ slots[s].pcb \in Pcb
           /\ conn[slots[s].pcb] \in ConnRecord
           /\ Occupied(s, slots[s], conn[slots[s].pcb])
  <1>1. slots[s] \in SlotRecord
    BY DEF IInv, TypeOK
  <1>2. slots[s].pcb \in Pcb
    BY <1>1 DEF SlotRecord
  <1> QED
    BY <1>1, <1>2 DEF IInv, TypeOK, SlotsInv

\* What it says of a connection whose tcp_arg names a slot.
LEMMA ConnFacts ==
    ASSUME IInv, NEW p \in Pcb, InSlot(p)
    PROVE  /\ conn[p].arg \in Slot /\ slots[conn[p].arg].pcb = p /\ p # Null
           /\ slots[conn[p].arg] \in SlotRecord /\ conn[p] \in ConnRecord
           /\ conn[p].st = "open"
           /\ Occupied(conn[p].arg, slots[conn[p].arg], conn[p])
  <1>1. conn[p] \in ConnRecord /\ p # Null
    BY WebserverAssumption DEF IInv, TypeOK
  <1>2. conn[p].arg \in Slot
    BY <1>1 DEF ConnRecord, InSlot
  <1>3. slots[conn[p].arg].pcb = p
    BY DEF InSlot
  <1> QED
    BY <1>1, <1>2, <1>3, SlotFacts DEF Occupied

\* Whoever is in a slot has its pointer lead there, and no other slot.
LEMMA OneSlot ==
    ASSUME IInv, NEW s \in Slot, NEW r \in Slot, slots[s].pcb # Null,
           slots[r].pcb = slots[s].pcb
    PROVE  r = s
  BY SlotFacts DEF Occupied

\* There are at most MaxConn WebSocket clients.
LEMMA StreamingFinite ==
    ASSUME IInv
    PROVE  IsFiniteSet(Streaming) /\ Cardinality(Streaming) \in 0 .. MaxConn
  <1>1. Streaming \in SUBSET Slot
    BY DEF Streaming
  <1>2. IsFiniteSet(Streaming) /\ Cardinality(Streaming) <= MaxConn
    BY <1>1, SlotsFinite, FS_Subset
  <1> QED
    BY <1>2, FS_CardinalityType, WebserverAssumption

\* Both go on together.
LEMMA BecomesStep ==
    ASSUME IInv, NEW s \in Slot, NEW slot \in SlotRecord, NEW c \in ConnRecord,
           slots[s].pcb # Null, slot.pcb = slots[s].pcb,
           slot.streaming = slots[s].streaming,
           (slot.state = "ws") = (slots[s].state = "ws"),
           Occupied(s, slot, c),
           slots' = [slots EXCEPT ![s] = slot],
           conn' = [conn EXCEPT ![slots[s].pcb] = c],
           UNCHANGED <<clients, files>>
    PROVE  IInv'
  <1> DEFINE p == slots[s].pcb
  <1>1. p \in Pcb /\ conn[p].arg = s /\ p # Null
    BY SlotFacts DEF Occupied
  <1>2. /\ slots \in [Slot -> SlotRecord] /\ conn \in [Pcb -> ConnRecord]
        /\ \A r \in Slot : r # s => slots[r].pcb # p
    BY OneSlot DEF IInv, TypeOK
  <1>3. /\ slots' \in [Slot -> SlotRecord] /\ conn' \in [Pcb -> ConnRecord]
        /\ slots'[s] = slot /\ conn'[p] = c
        /\ \A r \in Slot : r # s => slots'[r] = slots[r]
        /\ \A x \in Pcb : x # p => conn'[x] = conn[x]
    BY <1>1, <1>2
  <1>4. TypeOK'
    BY <1>3 DEF IInv, TypeOK
  <1>5. SlotsInv'
    <2> SUFFICES ASSUME NEW r \in Slot
                 PROVE  IF slots'[r].pcb = Null THEN Empty(slots'[r])
                        ELSE Occupied(r, slots'[r], conn'[slots'[r].pcb])
      BY DEF SlotsInv
    <2>1. CASE r = s
      BY <1>1, <1>3, <2>1
    <2>2. CASE r # s /\ slots[r].pcb = Null
      BY <1>3, <2>2 DEF IInv, SlotsInv
    <2>3. CASE r # s /\ slots[r].pcb # Null
      BY <1>2, <1>3, <2>3, SlotFacts
    <2> QED
      BY <2>1, <2>2, <2>3
  <1>6. ConnsInv'
    <2> SUFFICES ASSUME NEW x \in Pcb
                 PROVE  /\ conn'[x].st \in {"none", "closed"} => conn'[x].arg = Null
                        /\ conn'[x].st = "open" => InSlot(x)'
                        /\ conn'[x].st \in {"refused", "robbed"} =>
                             conn'[x].arg # Null /\ ~InSlot(x)'
      BY DEF ConnsInv
    <2>1. CASE x = p
      <3>1. c.st = "open" /\ c.arg = s
        BY DEF Occupied
      <3>2. s # Null
        BY <1>1, SlotFacts DEF Occupied, IInv, ConnsInv, InSlot
      <3> QED
        BY <1>1, <1>3, <2>1, <3>1, <3>2 DEF InSlot
    <2>2. CASE x # p
      <3>1. conn[x].arg # Null => conn[x].arg \in Slot
        BY <1>2 DEF ConnRecord
      <3>2. InSlot(x)' <=> InSlot(x)
        BY <1>3, <2>2, <3>1 DEF InSlot
      <3> QED
        BY <1>3, <2>2, <3>2 DEF IInv, ConnsInv
    <2> QED
      BY <2>1, <2>2
  <1>7. ListsInv'
    <2>1. Streaming' = Streaming
      BY <1>3 DEF Streaming
    <2> QED
      BY <1>3, <2>1 DEF IInv, ListsInv, InWebsocket
  <1> QED
    BY <1>4, <1>5, <1>6, <1>7 DEF IInv

\* A released slot is empty.
LEMMA ReleasedType ==
    ASSUME NEW slot \in SlotRecord
    PROVE  Released(slot) \in SlotRecord /\ Empty(Released(slot))
           /\ Released(slot).pcb = Null
  <1>1. 0 \in 0 .. PageLen /\ 0 \in 0 .. (PollLimit + PingPolls) /\ 0 \in 0 .. RxCap
        /\ 0 \in 0 .. BodyLen /\ 0 \in 0 .. FileSize
    BY Lengths, WebserverAssumption
  <1> QED
    BY <1>1 DEF Released, SlotRecord, Empty

\* A slot is given up, its connection ends or, robbed of it, does not; other
\* connections may end at the same time, if they are in no slot.
LEMMA ReleaseStep ==
    ASSUME IInv, NEW s \in Slot, Release(s),
           clients' = IF slots[s].state = "ws" THEN Disconnected(s) ELSE clients,
           conn' \in [Pcb -> ConnRecord],
           \A x \in Pcb :
              IF x = slots[s].pcb
              THEN \/ conn'[x].st \in {"none", "closed"} /\ conn'[x].arg = Null
                   \/ conn'[x].st = "robbed" /\ conn'[x].arg = s
              ELSE \/ conn'[x] = conn[x]
                   \/ ~InSlot(x) /\ conn'[x].st = "none" /\ conn'[x].arg = Null
    PROVE  IInv'
  <1> DEFINE free == Released(slots[s])
  <1>1. slots \in [Slot -> SlotRecord] /\ conn \in [Pcb -> ConnRecord]
    BY DEF IInv, TypeOK
  <1>2. free \in SlotRecord /\ Empty(free) /\ free.pcb = Null /\ ~free.streaming
    BY <1>1, ReleasedType DEF Empty
  <1>3. slots' = [slots EXCEPT ![s] = free]
    BY DEF Release
  <1> HIDE DEF free
  <1>4. /\ slots' \in [Slot -> SlotRecord] /\ slots'[s] = free
        /\ \A r \in Slot : r # s => slots'[r] = slots[r]
    BY <1>1, <1>2, <1>3
  <1>5. /\ \A r \in Slot : clients'[r] = IF InWebsocket(slots'[r]) THEN 1 ELSE 0
        /\ clients' \in [Slot -> Nat]
    BY <1>2, <1>4 DEF IInv, TypeOK, ListsInv, InWebsocket, Disconnected
  <1>6. files' = Cardinality(Streaming') /\ files' \in 0 .. MaxConn
    <2>1. files = Cardinality(Streaming) /\ files \in 0 .. MaxConn
      BY DEF IInv, TypeOK, ListsInv
    <2>2. CASE slots[s].streaming
      <3>1. Streaming' = Streaming \ {s} /\ s \in Streaming
        BY <1>2, <1>4, <2>2 DEF Streaming
      <3>2. Cardinality(Streaming \ {s}) = Cardinality(Streaming) - 1
            /\ Cardinality(Streaming \ {s}) \in Nat
        BY <3>1, StreamingFinite, FS_RemoveElement, FS_CardinalityType
      <3>3. files' = files - 1
        BY <2>2 DEF Release
      <3> QED
        BY <2>1, <3>1, <3>2, <3>3, WebserverAssumption
    <2>3. CASE ~slots[s].streaming
      <3>1. Streaming' = Streaming
        BY <1>2, <1>4, <2>3 DEF Streaming
      <3> QED
        BY <2>1, <2>3, <3>1 DEF Release
    <2> QED
      BY <2>2, <2>3
  <1>7. SlotsInv'
    <2> SUFFICES ASSUME NEW r \in Slot
                 PROVE  IF slots'[r].pcb = Null THEN Empty(slots'[r])
                        ELSE Occupied(r, slots'[r], conn'[slots'[r].pcb])
      BY DEF SlotsInv
    <2>1. CASE r = s
      BY <1>2, <1>4, <2>1
    <2>2. CASE r # s /\ slots[r].pcb = Null
      BY <1>4, <2>2 DEF IInv, SlotsInv
    <2>3. CASE r # s /\ slots[r].pcb # Null
      <3>1. slots[r].pcb \in Pcb /\ Occupied(r, slots[r], conn[slots[r].pcb])
        BY <2>3, SlotFacts
      <3>2. slots[r].pcb # slots[s].pcb
        BY <2>3, OneSlot
      <3>3. InSlot(slots[r].pcb)
        BY <3>1 DEF Occupied, IInv, ConnsInv
      <3> QED
        BY <1>4, <2>3, <3>1, <3>2, <3>3
    <2> QED
      BY <2>1, <2>2, <2>3
  <1>8. ConnsInv'
    <2> SUFFICES ASSUME NEW x \in Pcb
                 PROVE  /\ conn'[x].st \in {"none", "closed"} => conn'[x].arg = Null
                        /\ conn'[x].st = "open" => InSlot(x)'
                        /\ conn'[x].st \in {"refused", "robbed"} =>
                             conn'[x].arg # Null /\ ~InSlot(x)'
      BY DEF ConnsInv
    <2>0. x # Null
      BY WebserverAssumption
    <2>1. CASE x = slots[s].pcb
      <3>1. s # Null
        BY <2>0, <2>1, SlotFacts DEF Occupied, IInv, ConnsInv, InSlot
      <3> QED
        BY <1>2, <1>4, <2>0, <2>1, <3>1 DEF InSlot
    <2>2. CASE x # slots[s].pcb /\ conn'[x] = conn[x]
      <3>1. conn[x].arg # Null => conn[x].arg \in Slot
        BY <1>1 DEF ConnRecord
      <3>2. InSlot(x)' <=> InSlot(x)
        BY <1>2, <1>4, <2>0, <2>2, <3>1 DEF InSlot
      <3> QED
        BY <2>2, <3>2 DEF IInv, ConnsInv
    <2>3. CASE x # slots[s].pcb /\ conn'[x].st = "none" /\ conn'[x].arg = Null
      BY <2>3
    <2> QED
      BY <2>1, <2>2, <2>3
  <1> QED
    BY <1>4, <1>5, <1>6, <1>7, <1>8 DEF IInv, TypeOK, ListsInv

-----------------------------------------------------------------------------
(* The ways to end a connection.                                           *)

\* A connection that is not there, or not any more, names no slot.
LEMMA NoConnType ==
    /\ NoConn \in ConnRecord /\ NoConn.st = "none" /\ NoConn.arg = Null
    /\ \A c \in ConnRecord :
         Closed(c) \in ConnRecord /\ Closed(c).st = "closed" /\ Closed(c).arg = Null
  <1>1. 0 \in 0 .. Window /\ 0 \in 0 .. BodyLen /\ 0 \in 0 .. MaxTalk /\ 0 \in Nat
    BY WebserverAssumption
  <1>2. <<>> \in Seq(Nat)
    OBVIOUS
  <1>3. NoConn \in ConnRecord
    BY <1>1, <1>2 DEF NoConn, ConnRecord
  <1>4. ASSUME NEW c \in ConnRecord
        PROVE  Closed(c) \in ConnRecord /\ Closed(c).st = "closed" /\ Closed(c).arg = Null
    <2>1. c.fin \in BOOLEAN
      BY DEF ConnRecord
    <2> QED
      BY <1>1, <1>2, <2>1 DEF Closed, NoConn, ConnRecord
  <1> QED
    BY <1>3, <1>4 DEF NoConn

\* The connection of a slot ends as e.
LEMMA EndStep ==
    ASSUME IInv, NEW s \in Slot, slots[s].pcb # Null, Release(s),
           clients' = IF slots[s].state = "ws" THEN Disconnected(s) ELSE clients,
           NEW e \in ConnRecord, e.st \in {"none", "closed"}, e.arg = Null,
           conn' = [conn EXCEPT ![slots[s].pcb] = e]
    PROVE  IInv'
  <1>1. conn \in [Pcb -> ConnRecord] /\ slots[s].pcb \in Pcb
    BY SlotFacts DEF IInv, TypeOK
  <1>2. /\ conn' \in [Pcb -> ConnRecord] /\ conn'[slots[s].pcb] = e
        /\ \A x \in Pcb : x # slots[s].pcb => conn'[x] = conn[x]
    BY <1>1
  <1> QED
    BY <1>2, ReleaseStep

\* The connection of a slot is closed and the slot released.
LEMMA FinishStep ==
    ASSUME IInv, NEW s \in Slot, slots[s].pcb # Null, slots[s].state # "ws", Finish(s)
    PROVE  IInv'
  <1> DEFINE e == Closed(conn[slots[s].pcb])
  <1>1. e \in ConnRecord /\ e.st = "closed" /\ e.arg = Null
    BY SlotFacts, NoConnType
  <1>2. Release(s) /\ clients' = clients
        /\ conn' = [conn EXCEPT ![slots[s].pcb] = e]
    BY SlotFacts DEF Finish
  <1> HIDE DEF e
  <1> QED
    BY <1>1, <1>2, EndStep

-----------------------------------------------------------------------------
(* What the peer sends.                                                    *)

\* The slot and the connection of a segment.
LEMMA TalksFacts ==
    ASSUME IInv, NEW p \in Pcb, NEW s \in Slot, Talks(p, s)
    PROVE  /\ slots[s].pcb = p /\ p # Null /\ s = conn[p].arg
           /\ slots[s] \in SlotRecord /\ conn[p] \in ConnRecord
           /\ conn[p].talk + 1 \in 0 .. MaxTalk
           /\ Occupied(s, slots[s], conn[p])
  <1>1. InSlot(p) /\ s = conn[p].arg /\ conn[p].talk < MaxTalk
    BY DEF Talks
  <1>2. conn[p] \in ConnRecord
    BY DEF IInv, TypeOK
  <1>3. conn[p].talk \in Nat
    BY <1>2 DEF ConnRecord
  <1> QED
    BY <1>1, <1>3, ConnFacts, WebserverAssumption

\* A segment of p: what slot and c say has become of both.
LEMMA SaidStep ==
    ASSUME IInv, NEW p \in Pcb, NEW s \in Slot, Talks(p, s),
           NEW slot \in SlotRecord, NEW c \in ConnRecord,
           slot.pcb = slots[s].pcb, slot.streaming = slots[s].streaming,
           (slot.state = "ws") = (slots[s].state = "ws"),
           c.talk = conn[p].talk, Occupied(s, slot, c),
           slots' = [slots EXCEPT ![s] = slot], conn' = Said(p, c),
           UNCHANGED <<clients, files>>
    PROVE  IInv'
  <1> DEFINE d == [c EXCEPT !.talk = @ + 1]
  <1>1. slots[s].pcb = p /\ p # Null /\ conn[p].talk + 1 \in 0 .. MaxTalk
    BY TalksFacts
  <1>2. d \in ConnRecord
    BY <1>1 DEF ConnRecord
  <1>3. Occupied(s, slot, d)
    BY DEF Occupied, Request, Answer, ConnRecord
  <1>4. conn' = [conn EXCEPT ![slots[s].pcb] = d]
    BY <1>1 DEF Said
  <1> HIDE DEF d
  <1> QED
    BY <1>1, <1>2, <1>3, <1>4, BecomesStep

\* The limits are numbers.
LEMMA Zeros ==
    /\ 0 \in 0 .. (PollLimit + PingPolls) /\ 0 \in 0 .. BodyLen
    /\ PollLimit + PingPolls \in Nat /\ RxCap \in Nat /\ BodyLen \in Nat
    /\ Window \in Nat /\ FileSize \in Nat
  BY WebserverAssumption

\* Bytes arrive that complete no header.
LEMMA RecvPartStep ==
    ASSUME IInv, NEW p \in Pcb, NEW s \in Slot, RecvPart(p, s)
    PROVE  IInv'
  <1>1. /\ Talks(p, s) /\ slots[s].state = "recv"
        /\ slots[s].pcb = p /\ p # Null
        /\ slots[s] \in SlotRecord /\ conn[p] \in ConnRecord
        /\ Occupied(s, slots[s], conn[p])
    BY TalksFacts DEF RecvPart
  <1>2. CASE slots[s].rx + 1 >= RxCap
    BY <1>1, <1>2, FinishStep DEF RecvPart
  <1>3. CASE ~(slots[s].rx + 1 >= RxCap)
    <2> DEFINE rx == slots[s].rx + 1
               slot == [slots[s] EXCEPT !.rx = rx, !.polls = 0]
    <2>1. rx \in 0 .. RxCap /\ rx < RxCap
      BY <1>1, <1>3, Zeros DEF SlotRecord
    <2>2. slots' = [slots EXCEPT ![s] = slot] /\ conn' = Said(p, conn[p])
          /\ UNCHANGED <<clients, files>>
      BY <1>3 DEF RecvPart, IInv, TypeOK
    <2> HIDE DEF rx
    <2>3. slot \in SlotRecord
      BY <1>1, <2>1, Zeros DEF SlotRecord
    <2>4. /\ slot.pcb = slots[s].pcb /\ slot.streaming = slots[s].streaming
          /\ slot.state = slots[s].state
      BY <1>1 DEF SlotRecord
    <2>5. Occupied(s, slot, conn[p])
      BY <1>1, <2>1 DEF Occupied, Request, Answer, Progress, SlotRecord
    <2> HIDE DEF slot
    <2> QED
      BY <1>1, <2>2, <2>3, <2>4, <2>5, SaidStep
  <1> QED
    BY <1>2, <1>3

\* A request that is still to come.
LEMMA Awaiting ==
    ASSUME IInv, NEW p \in Pcb, NEW s \in Slot, Talks(p, s),
           slots[s].state = "recv", conn[p].kind = "none"
    PROVE  /\ slots[s].pcb = p /\ p # Null
           /\ slots[s] \in SlotRecord /\ conn[p] \in ConnRecord
           /\ Occupied(s, slots[s], conn[p])
           /\ slots[s].kind = "none" /\ slots[s].rx + 1 \in 0 .. RxCap
           /\ conn[p].rest = 0 /\ conn[p].cut = 0 /\ conn[p].served = 0
           /\ ~slots[s].waiting /\ slots[s].next = 0
  <1>1. /\ slots[s].pcb = p /\ p # Null
        /\ slots[s] \in SlotRecord /\ conn[p] \in ConnRecord
        /\ Occupied(s, slots[s], conn[p])
    BY TalksFacts
  <1>2. slots[s].kind = "none" /\ slots[s].rx < RxCap
    BY <1>1 DEF Occupied, Request
  <1>3. slots[s].rx + 1 \in 0 .. RxCap
    BY <1>1, <1>2, Zeros DEF SlotRecord
  <1> QED
    BY <1>1, <1>2, <1>3 DEF Occupied, Request, Answer

\* The request is whole and marked for loop().
LEMMA RecvRequestStep ==
    ASSUME IInv, NEW p \in Pcb, NEW s \in Slot, RecvRequest(p, s)
    PROVE  IInv'
  <1>1. Talks(p, s) /\ slots[s].state = "recv" /\ conn[p].kind = "none"
    BY DEF RecvRequest
  <1>2. PICK kind \in Whole :
            /\ slots' = [slots EXCEPT ![s].kind = kind, ![s].pending = TRUE,
                                      ![s].rx = @ + 1, ![s].polls = 0]
            /\ conn' = Said(p, [conn[p] EXCEPT !.kind = kind])
    BY DEF RecvRequest
  <1> DEFINE rx == slots[s].rx + 1
             slot == [slots[s] EXCEPT !.kind = kind, !.pending = TRUE,
                                      !.rx = rx, !.polls = 0]
             c == [conn[p] EXCEPT !.kind = kind]
  <1>3. /\ kind \in Kinds /\ kind # "none" /\ kind # "upload"
    BY DEF Whole
  <1>4. slots' = [slots EXCEPT ![s] = slot] /\ conn' = Said(p, c)
        /\ UNCHANGED <<clients, files>>
    BY <1>2 DEF RecvRequest, IInv, TypeOK
  <1>5. /\ slots[s].pcb = p /\ p # Null
        /\ slots[s] \in SlotRecord /\ conn[p] \in ConnRecord
        /\ Occupied(s, slots[s], conn[p])
        /\ slots[s].kind = "none" /\ rx \in 0 .. RxCap
        /\ conn[p].rest = 0 /\ conn[p].cut = 0 /\ conn[p].served = 0
        /\ ~slots[s].waiting /\ slots[s].next = 0
    BY <1>1, Awaiting
  <1> HIDE DEF rx
  <1>6. slot \in SlotRecord /\ c \in ConnRecord
    BY <1>3, <1>5, Zeros DEF SlotRecord, ConnRecord
  <1>7. /\ slot.pcb = slots[s].pcb /\ slot.streaming = slots[s].streaming
        /\ slot.state = slots[s].state /\ c.talk = conn[p].talk
    BY <1>5 DEF SlotRecord, ConnRecord
  <1>8. Occupied(s, slot, c)
    <2>1. Request(slot, c)
      BY <1>1, <1>3, <1>5 DEF Request, SlotRecord, ConnRecord
    <2>2. Answer(slot, c)
      BY <1>1, <1>5, Lengths DEF Occupied, Answer, SlotRecord, ConnRecord
    <2> QED
      BY <1>5, <2>1, <2>2 DEF Occupied, ConnRecord
  <1> HIDE DEF slot, c
  <1> QED
    BY <1>1, <1>4, <1>6, <1>7, <1>8, SaidStep

\* The header of an upload is whole.
LEMMA RecvUploadStep ==
    ASSUME IInv, NEW p \in Pcb, NEW s \in Slot, RecvUpload(p, s)
    PROVE  IInv'
  <1>1. Talks(p, s) /\ slots[s].state = "recv" /\ conn[p].kind = "none"
        /\ "upload" \in Kinds
    BY DEF RecvUpload
  <1>2. PICK b \in 0 .. BodyLen : \E k \in 0 .. b :
            /\ slots' = [slots EXCEPT ![s] = [slots[s] EXCEPT
                   !.kind = "upload", !.rx = @ + 1, !.polls = 0, !.got = k,
                   !.pending = (k = BodyLen), !.waiting = (k < BodyLen),
                   !.body = (k < BodyLen)]]
            /\ conn' = Said(p, [conn[p] EXCEPT !.kind = "upload",
                                    !.rest = BodyLen - b, !.cut = b - k])
    BY DEF RecvUpload
  <1>3. PICK k \in 0 .. b :
            /\ slots' = [slots EXCEPT ![s] = [slots[s] EXCEPT
                   !.kind = "upload", !.rx = @ + 1, !.polls = 0, !.got = k,
                   !.pending = (k = BodyLen), !.waiting = (k < BodyLen),
                   !.body = (k < BodyLen)]]
            /\ conn' = Said(p, [conn[p] EXCEPT !.kind = "upload",
                                    !.rest = BodyLen - b, !.cut = b - k])
    BY <1>2
  <1> DEFINE rx == slots[s].rx + 1
             whole == k = BodyLen
             part == k < BodyLen
             rest == BodyLen - b
             cut == b - k
             slot == [slots[s] EXCEPT !.kind = "upload", !.rx = rx, !.polls = 0,
                         !.got = k, !.pending = whole, !.waiting = part, !.body = part]
             c == [conn[p] EXCEPT !.kind = "upload", !.rest = rest, !.cut = cut]
  <1>4. slots' = [slots EXCEPT ![s] = slot] /\ conn' = Said(p, c)
        /\ UNCHANGED <<clients, files>>
    BY <1>3 DEF RecvUpload
  <1>5. /\ slots[s].pcb = p /\ p # Null
        /\ slots[s] \in SlotRecord /\ conn[p] \in ConnRecord
        /\ Occupied(s, slots[s], conn[p])
        /\ slots[s].kind = "none" /\ rx \in 0 .. RxCap
        /\ conn[p].rest = 0 /\ conn[p].cut = 0 /\ conn[p].served = 0
        /\ ~slots[s].waiting /\ slots[s].next = 0
    BY <1>1, Awaiting
  <1>6. /\ k \in 0 .. BodyLen /\ rest \in 0 .. BodyLen /\ cut \in 0 .. BodyLen
        /\ k + rest + cut = BodyLen /\ part = (k < BodyLen)
        /\ whole = (rest = 0 /\ cut = 0)
    BY Zeros
  <1>b. whole \in BOOLEAN /\ part \in BOOLEAN
    OBVIOUS
  <1> HIDE DEF rx, whole, part, rest, cut
  <1>7. slot \in SlotRecord /\ c \in ConnRecord
    <2>0. slots[s] \in SlotRecord /\ "upload" \in Kinds /\ rx \in 0 .. RxCap
          /\ k \in 0 .. BodyLen
      BY <1>1, <1>5, <1>6
    <2>1. slot \in SlotRecord
      BY <2>0, <1>b, Zeros DEF SlotRecord
    <2>2. c \in ConnRecord
      BY <1>1, <1>5, <1>6 DEF ConnRecord
    <2> QED
      BY <2>1, <2>2
  <1>8. /\ slot.pcb = slots[s].pcb /\ slot.streaming = slots[s].streaming
        /\ slot.state = slots[s].state /\ c.talk = conn[p].talk
    BY <1>5 DEF SlotRecord, ConnRecord
  <1>9. Occupied(s, slot, c)
    <2>1. Request(slot, c)
      BY <1>1, <1>5, <1>6 DEF Request, SlotRecord, ConnRecord
    <2>2. Answer(slot, c)
      BY <1>1, <1>5, Lengths DEF Occupied, Answer, SlotRecord, ConnRecord
    <2> QED
      BY <1>5, <2>1, <2>2 DEF Occupied, ConnRecord
  <1> HIDE DEF slot, c
  <1> QED
    BY <1>1, <1>4, <1>7, <1>8, <1>9, SaidStep

\* A part of the body arrives.
LEMMA RecvBodyStep ==
    ASSUME IInv, NEW p \in Pcb, NEW s \in Slot, RecvBody(p, s)
    PROVE  IInv'
  <1>1. /\ Talks(p, s) /\ slots[s].state = "recv" /\ slots[s].waiting
        /\ conn[p].rest > 0
        /\ slots[s].pcb = p /\ p # Null
        /\ slots[s] \in SlotRecord /\ conn[p] \in ConnRecord
        /\ Occupied(s, slots[s], conn[p])
    BY TalksFacts DEF RecvBody
  <1> DEFINE got == slots[s].got + 1
             rest == conn[p].rest - 1
             whole == got = BodyLen
             part == got < BodyLen
             slot == [slots[s] EXCEPT !.got = got, !.polls = 0,
                                      !.waiting = part, !.pending = whole]
             c == [conn[p] EXCEPT !.rest = rest]
  <1>2. slots' = [slots EXCEPT ![s] = slot] /\ conn' = Said(p, c)
        /\ UNCHANGED <<clients, files>>
    BY DEF RecvBody
  <1>3. /\ slots[s].kind = "upload" /\ slots[s].got + conn[p].rest + conn[p].cut = BodyLen
        /\ conn[p].served = 0
    BY <1>1 DEF Occupied, Request
  <1>4. slots[s].got \in 0 .. BodyLen /\ conn[p].rest \in 0 .. BodyLen
        /\ conn[p].cut \in 0 .. BodyLen /\ BodyLen \in Nat
    BY <1>1, Zeros DEF SlotRecord, ConnRecord
  <1>5. /\ got \in 0 .. BodyLen /\ rest \in 0 .. BodyLen
        /\ got + rest + conn[p].cut = BodyLen
        /\ part = (got < BodyLen) /\ whole = (rest = 0 /\ conn[p].cut = 0)
    BY <1>1, <1>3, <1>4
  <1>b. whole \in BOOLEAN /\ part \in BOOLEAN
    OBVIOUS
  <1> HIDE DEF got, rest, whole, part
  <1>6. slot \in SlotRecord /\ c \in ConnRecord
    <2>0. slots[s] \in SlotRecord /\ got \in 0 .. BodyLen
      BY <1>1, <1>5
    <2>1. slot \in SlotRecord
      BY <2>0, <1>b, Zeros DEF SlotRecord
    <2>2. c \in ConnRecord
      BY <1>1, <1>5 DEF ConnRecord
    <2> QED
      BY <2>1, <2>2
  <1>7. /\ slot.pcb = slots[s].pcb /\ slot.streaming = slots[s].streaming
        /\ slot.state = slots[s].state /\ c.talk = conn[p].talk
    BY <1>1 DEF SlotRecord, ConnRecord
  <1>8. Occupied(s, slot, c)
    <2>1. Request(slot, c)
      BY <1>1, <1>3, <1>5 DEF Occupied, Request, SlotRecord, ConnRecord
    <2>2. Answer(slot, c)
      BY <1>1 DEF Occupied, Answer, Progress, SlotRecord, ConnRecord
    <2> QED
      BY <1>1, <2>1, <2>2 DEF Occupied, ConnRecord
  <1> HIDE DEF slot, c
  <1> QED
    BY <1>1, <1>2, <1>6, <1>7, <1>8, SaidStep

\* What arrives later is ignored, or frames of a WebSocket.
LEMMA RecvLaterStep ==
    ASSUME IInv, NEW p \in Pcb, NEW s \in Slot, RecvIgnored(p, s) \/ RecvFrames(p, s)
    PROVE  IInv'
  <1>1. /\ Talks(p, s)
        /\ slots[s].pcb = p /\ p # Null
        /\ slots[s] \in SlotRecord /\ conn[p] \in ConnRecord
        /\ Occupied(s, slots[s], conn[p])
    BY TalksFacts DEF RecvIgnored, RecvFrames
  <1> DEFINE slot == [slots[s] EXCEPT !.polls = 0]
  <1>2. slots' = [slots EXCEPT ![s] = slot] /\ UNCHANGED <<clients, files>>
    BY DEF RecvIgnored, RecvFrames
  <1>3. slot \in SlotRecord
    BY <1>1, Zeros DEF SlotRecord
  <1>4. /\ slot.pcb = slots[s].pcb /\ slot.streaming = slots[s].streaming
        /\ slot.state = slots[s].state
    BY <1>1 DEF SlotRecord
  <1>5. Occupied(s, slot, conn[p])
    BY <1>1 DEF Occupied, Request, Answer, Progress, SlotRecord
  <1>6. CASE RecvIgnored(p, s)
    <2>1. conn' = Said(p, conn[p])
      BY <1>6 DEF RecvIgnored
    <2> HIDE DEF slot
    <2> QED
      BY <1>1, <1>2, <1>3, <1>4, <1>5, <2>1, SaidStep
  <1>7. CASE RecvFrames(p, s)
    <2>1. PICK w \in {0, 1} :
              /\ conn[p].flight + w <= Window
              /\ conn' = Said(p, [conn[p] EXCEPT !.flight = @ + w])
      BY <1>7 DEF RecvFrames
    <2>2. slots[s].state = "ws"
      BY <1>7 DEF RecvFrames
    <2> DEFINE flight == conn[p].flight + w
               c == [conn[p] EXCEPT !.flight = flight]
    <2>0. conn[p].flight \in 0 .. Window
      BY <1>1 DEF ConnRecord
    <2>3. flight \in 0 .. Window
      BY <2>0, <2>1, Zeros
    <2>4. conn' = Said(p, c)
      BY <2>1
    <2> HIDE DEF flight
    <2>5. c \in ConnRecord /\ c.talk = conn[p].talk
      BY <1>1, <2>3 DEF ConnRecord
    <2>6. Occupied(s, slot, c)
      BY <1>1, <1>5, <2>2 DEF Occupied, Request, Answer, ConnRecord, SlotRecord
    <2> HIDE DEF slot, c
    <2> QED
      BY <1>1, <1>2, <1>3, <1>4, <2>4, <2>5, <2>6, SaidStep
  <1> QED
    BY <1>6, <1>7

\* Every way a segment ends the connection.
LEMMA RecvEndStep ==
    ASSUME IInv, NEW p \in Pcb, NEW s \in Slot,
           \/ RecvRefused(p, s) \/ RecvUploadNoMemory(p, s)
           \/ RecvClose(p, s) \/ RecvFin(p, s)
    PROVE  IInv'
  <1>1. CASE RecvRefused(p, s) \/ RecvUploadNoMemory(p, s)
    BY <1>1, TalksFacts, FinishStep DEF RecvRefused, RecvUploadNoMemory
  <1>2. CASE RecvClose(p, s)
    <2>1. Talks(p, s) /\ slots[s].state = "ws" /\ clients' = Disconnected(s) /\ Release(s)
          /\ conn' = [conn EXCEPT ![p] = Closed(conn[p])]
      BY <1>2 DEF RecvClose
    <2> DEFINE e == Closed(conn[p])
    <2>2. slots[s].pcb = p /\ p # Null /\ conn[p] \in ConnRecord
      BY <2>1, TalksFacts
    <2>3. e \in ConnRecord /\ e.st = "closed" /\ e.arg = Null
      BY <2>2, NoConnType
    <2> HIDE DEF e
    <2> QED
      BY <2>1, <2>2, <2>3, EndStep DEF e
  <1>3. CASE RecvFin(p, s)
    <2>1. /\ InSlot(p) /\ s = conn[p].arg /\ OnClose(s)
          /\ conn' = [conn EXCEPT ![p] = Closed([conn[p] EXCEPT !.fin = TRUE])]
      BY <1>3 DEF RecvFin
    <2> DEFINE e == Closed([conn[p] EXCEPT !.fin = TRUE])
    <2>2. slots[s].pcb = p /\ p # Null /\ conn[p] \in ConnRecord
      BY <2>1, ConnFacts
    <2>3. [conn[p] EXCEPT !.fin = TRUE] \in ConnRecord
      BY <2>2 DEF ConnRecord
    <2>4. e \in ConnRecord /\ e.st = "closed" /\ e.arg = Null
      BY <2>3, NoConnType
    <2>5. conn' = [conn EXCEPT ![p] = e]
      BY <2>1
    <2> HIDE DEF e
    <2> QED
      BY <2>1, <2>2, <2>4, <2>5, EndStep DEF OnClose
  <1> QED
    BY <1>1, <1>2, <1>3

-----------------------------------------------------------------------------
(* Sending.                                                                *)

\* The numbers up to n, and on to n + k.
LEMMA CountOn ==
    ASSUME NEW n \in Nat, NEW k \in Nat
    PROVE  /\ [i \in 1 .. k |-> n + i] \in Seq(Nat)
           /\ [i \in 1 .. n |-> i] \in Seq(Nat)
           /\ [i \in 1 .. n |-> i] \o [i \in 1 .. k |-> n + i] = [i \in 1 .. n + k |-> i]
           /\ Append([i \in 1 .. n |-> i], n + 1) = [i \in 1 .. n + 1 |-> i]
  <1> DEFINE a == [i \in 1 .. n |-> i]
             b == [i \in 1 .. k |-> n + i]
             d == [i \in 1 .. n + k |-> i]
             e == [i \in 1 .. n + 1 |-> i]
  <1>1. a \in Seq(Nat) /\ Len(a) = n /\ \A i \in 1 .. n : a[i] = i
    <2>1. a \in [1 .. n -> Nat]
      OBVIOUS
    <2> QED
      BY <2>1, IsASeq, LenProperties
  <1>2. b \in Seq(Nat) /\ Len(b) = k /\ \A i \in 1 .. k : b[i] = n + i
    <2>1. b \in [1 .. k -> Nat]
      OBVIOUS
    <2> QED
      BY <2>1, IsASeq, LenProperties
  <1>3. d \in Seq(Nat) /\ Len(d) = n + k /\ \A i \in 1 .. n + k : d[i] = i
    <2>1. d \in [1 .. n + k -> Nat] /\ n + k \in Nat
      OBVIOUS
    <2> QED
      BY <2>1, IsASeq, LenProperties
  <1>4. e \in Seq(Nat) /\ Len(e) = n + 1 /\ \A i \in 1 .. n + 1 : e[i] = i
    <2>1. e \in [1 .. n + 1 -> Nat] /\ n + 1 \in Nat
      OBVIOUS
    <2> QED
      BY <2>1, IsASeq, LenProperties
  <1> HIDE DEF a, b, d, e
  <1>5. a \o b = d
    <2>1. /\ a \o b \in Seq(Nat) /\ Len(a \o b) = n + k
          /\ \A i \in 1 .. n + k : (a \o b)[i] = IF i <= n THEN a[i] ELSE b[i - n]
      <3>1. a \in Seq(Nat) /\ b \in Seq(Nat) /\ Len(a) = n /\ Len(b) = k
        BY <1>1, <1>2
      <3>2. /\ a \o b \in Seq(Nat) /\ Len(a \o b) = Len(a) + Len(b)
            /\ \A i \in 1 .. Len(a) + Len(b) :
                  (a \o b)[i] = IF i <= Len(a) THEN a[i] ELSE b[i - Len(a)]
        BY ONLY <3>1, ConcatProperties, ZenonT(30)
      <3> QED
        BY <3>1, <3>2, ZenonT(30)
    <2>2. \A i \in 1 .. n + k : (a \o b)[i] = d[i]
      BY SMTT(30), <1>1, <1>2, <1>3, <2>1
    <2> QED
      BY <1>3, <2>1, <2>2, SeqEqual
  <1>6. Append(a, n + 1) = e
    <2>1. n + 1 \in Nat
      OBVIOUS
    <2>2. /\ Append(a, n + 1) \in Seq(Nat) /\ Len(Append(a, n + 1)) = n + 1
          /\ \A i \in 1 .. n + 1 :
               Append(a, n + 1)[i] = IF i <= n THEN a[i] ELSE n + 1
      BY <1>1, <2>1, AppendProperties
    <2>3. \A i \in 1 .. n + 1 : Append(a, n + 1)[i] = e[i]
      BY <1>1, <1>4, <2>2
    <2> QED
      BY <1>4, <2>2, <2>3, SeqEqual
  <1> QED
    BY <1>1, <1>2, <1>5, <1>6 DEF a, b, d, e

\* tcpSendChunk() goes on where the slot stands.
LEMMA ChunkStep ==
    ASSUME NEW s, NEW slot \in SlotRecord, NEW c \in ConnRecord, Occupied(s, slot, c),
           slot.state = "send", ~slot.streaming, NEW now \in SendChunk(slot, c)
    PROVE  /\ now.slot \in SlotRecord /\ now.conn \in ConnRecord
           /\ Occupied(s, now.slot, now.conn)
           /\ now.slot.pcb = slot.pcb /\ ~now.slot.streaming /\ now.slot.state = "send"
           /\ now.slot.polls = slot.polls
  <1> DEFINE most == Least(Total(slot.kind) - slot.next, Window - c.flight)
  <1>1. /\ slot.kind # "file" /\ slot.next <= Total(slot.kind)
        /\ Total(slot.kind) \in Nat /\ Total(slot.kind) <= PageLen
        /\ slot.next \in 0 .. PageLen /\ c.flight \in 0 .. Window
        /\ PageLen \in Nat /\ Window \in Nat
    <2>1. slot.kind # "file" /\ slot.next <= Total(slot.kind)
      BY DEF Occupied, Answer
    <2>2. slot.next \in 0 .. PageLen /\ c.flight \in 0 .. Window
      BY DEF SlotRecord, ConnRecord
    <2> QED
      BY <2>1, <2>2, Lengths, Zeros
  <1>2. most \in Nat /\ slot.next + most <= Total(slot.kind) /\ c.flight + most <= Window
    BY <1>1 DEF Least
  <1>3. PICK k \in Nat :
            /\ k <= most
            /\ now = Now([slot EXCEPT !.next = @ + k],
                         [c EXCEPT !.flight = @ + k,
                                   !.out = @ \o [i \in 1 .. k |-> slot.next + i]])
    <2> DEFINE refused == {k \in 0 .. most - 1 : k = 0 \/ slot.next + k \in PageEnds}
               ks == {most} \cup (IF Refuses THEN refused ELSE {})
    <2>1. \E k \in ks :
             now = Now([slot EXCEPT !.next = @ + k],
                       [c EXCEPT !.flight = @ + k,
                                 !.out = @ \o [i \in 1 .. k |-> slot.next + i]])
      BY Zenon DEF SendChunk
    <2> HIDE DEF most
    <2>2. \A k \in ks : k \in Nat /\ k <= most
      BY <1>2
    <2> HIDE DEF ks
    <2> QED
      BY <2>1, <2>2, Zenon
  <1> DEFINE next == slot.next + k
             flight == c.flight + k
             out == c.out \o [i \in 1 .. k |-> slot.next + i]
             slot2 == [slot EXCEPT !.next = next]
             c2 == [c EXCEPT !.flight = flight, !.out = out]
  <1>4. now.slot = slot2 /\ now.conn = c2
    BY <1>3 DEF Now
  <1>5. /\ next \in 0 .. PageLen /\ next <= Total(slot.kind) /\ flight \in 0 .. Window
    BY <1>1, <1>2, <1>3
  <1>6. /\ out \in Seq(Nat)
        /\ c.out = [i \in 1 .. slot.next |-> i] => out = [i \in 1 .. next |-> i]
    <2>1. c.out \in Seq(Nat) /\ slot.next \in Nat
      BY <1>1 DEF ConnRecord
    <2>2. [i \in 1 .. k |-> slot.next + i] \in Seq(Nat)
      BY <2>1, CountOn
    <2>3. out \in Seq(Nat)
      BY <2>1, <2>2, ConcatProperties
    <2> QED
      BY <2>1, <2>3, CountOn
  <1> HIDE DEF most, next, flight, out
  <1>7. slot2 \in SlotRecord /\ c2 \in ConnRecord
    <2>1. slot2 \in SlotRecord
      BY <1>5 DEF SlotRecord
    <2>2. c2 \in ConnRecord
      BY <1>5, <1>6 DEF ConnRecord
    <2> QED
      BY <2>1, <2>2
  <1>8. Request(slot2, c2)
    BY DEF Occupied, Request, SlotRecord, ConnRecord
  <1>9. Answer(slot2, c2)
    <2>1. /\ slot2.state = "send" /\ ~slot2.streaming /\ slot2.next = next
          /\ slot2.kind = slot.kind /\ c2.out = out /\ c2.lost = c.lost
      BY DEF SlotRecord, ConnRecord
    <2>2. slot.kind # "file" /\ (~c.lost => c.out = [i \in 1 .. slot.next |-> i])
      BY <1>1 DEF Occupied, Answer, Progress
    <2> HIDE DEF slot2, c2
    <2> QED
      <3>1. Progress(slot2) = next
        BY <2>1 DEF Progress
      <3>2. ~c2.lost => c2.out = [i \in 1 .. Progress(slot2) |-> i]
        BY <1>6, <2>1, <2>2, <3>1
      <3>3. slot2.streaming = (slot2.kind = "file")
        <4>1. slot2.streaming \in BOOLEAN
          BY <1>7 DEF SlotRecord
        <4>2. slot2.streaming = FALSE
          BY <2>1, <4>1
        <4>3. (slot2.kind = "file") = FALSE
          BY <2>1, <2>2
        <4> QED
          BY <4>2, <4>3
      <3>4. slot2.next <= Total(slot2.kind)
        BY <1>5, <2>1
      <3> QED
        BY ONLY <2>1, <3>2, <3>3, <3>4, Zenon DEF Answer
  <1>10. slot2.pcb = slot.pcb /\ ~slot2.streaming /\ slot2.state = "send"
         /\ slot2.polls = slot.polls
    BY DEF SlotRecord
  <1>11. c2.st = c.st /\ c2.arg = c.arg /\ c2.fin = c.fin
    BY DEF ConnRecord
  <1> HIDE DEF slot2, c2
  <1> QED
    BY <1>4, <1>7, <1>8, <1>9, <1>10, <1>11 DEF Occupied

\* ... and so does tcpSendStreamChunk().
LEMMA StreamStep ==
    ASSUME NEW s, NEW slot \in SlotRecord, NEW c \in ConnRecord, Occupied(s, slot, c),
           slot.state = "send", slot.streaming, NEW now \in SendStreamChunk(slot, c)
    PROVE  /\ now.slot \in SlotRecord /\ now.conn \in ConnRecord
           /\ Occupied(s, now.slot, now.conn)
           /\ now.slot.pcb = slot.pcb /\ now.slot.streaming /\ now.slot.state = "send"
           /\ now.slot.polls = slot.polls
  <1>1. /\ slot.read \in 0 .. FileSize /\ slot.sent \in 0 .. FileSize
        /\ c.flight \in 0 .. Window /\ c.out \in Seq(Nat) /\ c.lost \in BOOLEAN
        /\ FileSize \in Nat /\ Window \in Nat
    <2>1. slot.read \in 0 .. FileSize /\ slot.sent \in 0 .. FileSize
      BY DEF SlotRecord
    <2>2. c.flight \in 0 .. Window /\ c.out \in Seq(Nat) /\ c.lost \in BOOLEAN
      BY DEF ConnRecord
    <2> QED
      BY <2>1, <2>2, Zeros
  <1>2. /\ slot.next <= Total(slot.kind) /\ slot.kind = "file"
        /\ ~c.lost => slot.read = slot.sent /\ c.out = [i \in 1 .. slot.sent |-> i]
    BY DEF Occupied, Answer, Progress
  \* What becomes of both.
  <1>3. ASSUME NEW slot2 \in SlotRecord, NEW c2 \in ConnRecord,
               now.slot = slot2, now.conn = c2,
               slot2.state = slot.state, slot2.streaming = slot.streaming,
               slot2.pcb = slot.pcb, slot2.polls = slot.polls,
               slot2.next = slot.next,
               Request(slot2, c2),
               slot2.kind = slot.kind,
               c2.st = c.st, c2.arg = c.arg, c2.fin = c.fin,
               ~c2.lost => /\ slot2.read = slot2.sent
                           /\ c2.out = [i \in 1 .. slot2.sent |-> i]
        PROVE  /\ now.slot \in SlotRecord /\ now.conn \in ConnRecord
               /\ Occupied(s, now.slot, now.conn)
               /\ now.slot.pcb = slot.pcb /\ now.slot.streaming
               /\ now.slot.state = "send" /\ now.slot.polls = slot.polls
    <2>1. Answer(slot2, c2)
      <3>1. slot2.state = "send" /\ slot2.streaming /\ Progress(slot2) = slot2.sent
        BY <1>3 DEF Progress
      <3>2. slot2.streaming = (slot2.kind = "file")
        BY <1>2, <1>3
      <3>3. slot2.next <= Total(slot2.kind)
        BY <1>2, <1>3
      <3>4. ~c2.lost => c2.out = [i \in 1 .. Progress(slot2) |-> i]
        BY <1>3, <3>1
      <3>5. slot2.state # "recv" /\ slot2.state # "ws"
        BY <3>1
      <3>6. ~c2.lost => slot2.read = slot2.sent
        BY <1>3
      <3> QED
        BY ONLY <3>1, <3>2, <3>3, <3>4, <3>5, <3>6, Zenon DEF Answer
    <2> QED
      BY <1>3, <2>1 DEF Occupied
  <1> DEFINE written == Now([slot EXCEPT !.read = @ + 1, !.sent = @ + 1],
                         [c EXCEPT !.flight = @ + 1, !.out = Append(@, slot.read + 1)])
             refused == Now([slot EXCEPT !.read = @ + 1], [c EXCEPT !.lost = TRUE])
             ended   == Now([slot EXCEPT !.sent = FileSize],
                         [c EXCEPT !.lost = @ \/ slot.read < FileSize])
  <1>4. \/ now = Now(slot, c)
        \/ /\ slot.sent < FileSize /\ c.flight < Window
           /\ \/ now = written /\ slot.read < FileSize
              \/ now = refused /\ slot.read < FileSize
              \/ now = ended
    BY <1>1 DEF SendStreamChunk
  <1>5. CASE now = Now(slot, c)
    BY <1>5 DEF Now
  <1>6. CASE /\ slot.sent < FileSize /\ c.flight < Window
             /\ now = written /\ slot.read < FileSize
    <2>1. /\ slot.read + 1 \in 0 .. FileSize /\ slot.sent + 1 \in 0 .. FileSize
          /\ c.flight + 1 \in 0 .. Window /\ slot.read \in Nat /\ slot.read + 1 \in Nat
      BY <1>1, <1>6
    <2>2. Append(c.out, slot.read + 1) \in Seq(Nat)
      BY <1>1, <2>1
    <2>3. ~c.lost => /\ slot.read + 1 = slot.sent + 1
                     /\ Append(c.out, slot.read + 1) = [i \in 1 .. slot.sent + 1 |-> i]
      BY <1>2, <2>1, CountOn
    <2> DEFINE read == slot.read + 1
               sent == slot.sent + 1
               flight == c.flight + 1
               out == Append(c.out, slot.read + 1)
               slot2 == [slot EXCEPT !.read = read, !.sent = sent]
               c2 == [c EXCEPT !.flight = flight, !.out = out]
    <2>4. now.slot = slot2 /\ now.conn = c2
      BY <1>6 DEF Now
    <2>5. ~c.lost => read = sent /\ out = [i \in 1 .. sent |-> i]
      BY <2>3
    <2> HIDE DEF read, sent, flight, out
    <2>6. slot2 \in SlotRecord
      BY <2>1 DEF SlotRecord, read, sent
    <2>7. c2 \in ConnRecord
      BY <2>1, <2>2 DEF ConnRecord, flight, out
    <2>8. /\ slot2.state = slot.state /\ slot2.streaming = slot.streaming
          /\ slot2.pcb = slot.pcb /\ slot2.polls = slot.polls /\ slot2.next = slot.next
          /\ slot2.kind = slot.kind /\ slot2.read = read /\ slot2.sent = sent
      BY DEF SlotRecord
    <2>9. /\ c2.st = c.st /\ c2.arg = c.arg /\ c2.fin = c.fin /\ c2.out = out
          /\ c2.lost = c.lost
      BY DEF ConnRecord
    <2>10. Request(slot2, c2)
      BY DEF Occupied, Request, SlotRecord, ConnRecord
    <2> HIDE DEF slot2, c2
    <2> QED
      BY <1>3, <2>4, <2>5, <2>6, <2>7, <2>8, <2>9, <2>10
  <1>7. CASE now = refused /\ slot.read < FileSize
    <2> DEFINE read == slot.read + 1
               slot2 == [slot EXCEPT !.read = read]
               c2 == [c EXCEPT !.lost = TRUE]
    <2>1. read \in 0 .. FileSize
      BY <1>1, <1>7
    <2>2. now.slot = slot2 /\ now.conn = c2
      BY <1>7 DEF Now
    <2> HIDE DEF read
    <2>3. slot2 \in SlotRecord /\ c2 \in ConnRecord
      BY <2>1 DEF SlotRecord, ConnRecord
    <2>4. /\ slot2.state = slot.state /\ slot2.streaming = slot.streaming
          /\ slot2.pcb = slot.pcb /\ slot2.polls = slot.polls /\ slot2.next = slot.next
          /\ slot2.kind = slot.kind
      BY DEF SlotRecord
    <2>5. c2.st = c.st /\ c2.arg = c.arg /\ c2.fin = c.fin /\ c2.lost
      BY DEF ConnRecord
    <2>6. Request(slot2, c2)
      BY DEF Occupied, Request, SlotRecord, ConnRecord
    <2> HIDE DEF slot2, c2
    <2> QED
      BY <1>3, <2>2, <2>3, <2>4, <2>5, <2>6
  <1>8. CASE now = ended
    <2> DEFINE lost == c.lost \/ slot.read < FileSize
               slot2 == [slot EXCEPT !.sent = FileSize]
               c2 == [c EXCEPT !.lost = lost]
    <2>1. lost \in BOOLEAN
      OBVIOUS
    <2>2. ~lost => /\ slot.read = FileSize
                   /\ c.out = [i \in 1 .. FileSize |-> i]
      <3>1. ~lost => slot.read = FileSize
        BY <1>1
      <3> QED
        BY <1>2, <3>1
    <2>3. now.slot = slot2 /\ now.conn = c2
      BY <1>8 DEF Now
    <2> HIDE DEF lost
    <2>4. slot2 \in SlotRecord
      BY SMTT(30), <1>1 DEF SlotRecord
    <2>5. c2 \in ConnRecord
      BY <2>1 DEF ConnRecord
    <2>6. /\ slot2.state = slot.state /\ slot2.streaming = slot.streaming
          /\ slot2.pcb = slot.pcb /\ slot2.polls = slot.polls /\ slot2.next = slot.next
          /\ slot2.kind = slot.kind /\ slot2.read = slot.read /\ slot2.sent = FileSize
      BY DEF SlotRecord
    <2>7. /\ c2.st = c.st /\ c2.arg = c.arg /\ c2.fin = c.fin /\ c2.out = c.out
          /\ c2.lost = lost
      BY DEF ConnRecord
    <2>8. Request(slot2, c2)
      BY DEF Occupied, Request, SlotRecord, ConnRecord
    <2> HIDE DEF slot2, c2
    <2> QED
      BY <1>3, <2>2, <2>3, <2>4, <2>5, <2>6, <2>7, <2>8
  <1> QED
    BY <1>4, <1>5, <1>6, <1>7, <1>8

\* onSent(): an acknowledgement, and what follows from it.
LEMMA SentStep ==
    ASSUME IInv, NEW p \in Pcb, Sent(p)
    PROVE  IInv'
  <1> DEFINE s == conn[p].arg
  <1>1. /\ s \in Slot /\ slots[s].pcb = p /\ p # Null
        /\ slots[s] \in SlotRecord /\ conn[p] \in ConnRecord
        /\ Occupied(s, slots[s], conn[p])
    BY ConnFacts DEF Sent
  <1>2. PICK n \in 1 .. conn[p].flight :
          LET slot == [slots[s] EXCEPT !.polls = 0]
              c == [conn[p] EXCEPT !.flight = @ - n]
              left == IF slot.streaming THEN slot.sent < FileSize
                                        ELSE slot.next < Total(slot.kind)
          IN \/ slot.state # "send" /\ Becomes(s, Now(slot, c))
             \/ /\ slot.state = "send" /\ slot.streaming /\ left
                /\ \E now \in SendStreamChunk(slot, c) : Becomes(s, now)
             \/ /\ slot.state = "send" /\ ~slot.streaming /\ left
                /\ \E now \in SendChunk(slot, c) : Becomes(s, now)
             \/ slot.state = "send" /\ ~left /\ Finish(s)
    BY DEF Sent
  <1> DEFINE flight == conn[p].flight - n
             slot == [slots[s] EXCEPT !.polls = 0]
             c == [conn[p] EXCEPT !.flight = flight]
  <1>3. \/ slot.state # "send" /\ Becomes(s, Now(slot, c))
        \/ /\ slot.state = "send" /\ slot.streaming
           /\ \E now \in SendStreamChunk(slot, c) : Becomes(s, now)
        \/ /\ slot.state = "send" /\ ~slot.streaming
           /\ \E now \in SendChunk(slot, c) : Becomes(s, now)
        \/ slot.state = "send" /\ Finish(s)
    BY <1>2
  <1>4. conn[p].flight \in 0 .. Window /\ Window \in Nat
    BY <1>1, Zeros DEF ConnRecord
  <1>5. flight \in 0 .. Window /\ conn[p].flight # 0
    BY <1>4
  <1>6. s \in Slot /\ slots[s].pcb = p /\ p # Null
    BY <1>1
  <1> HIDE DEF flight
  <1>7. slot \in SlotRecord /\ c \in ConnRecord
    <2>1. slot \in SlotRecord
      BY <1>1, Zeros DEF SlotRecord
    <2>2. c \in ConnRecord
      BY <1>1, <1>5 DEF ConnRecord
    <2> QED
      BY <2>1, <2>2
  <1>8. /\ slot.pcb = slots[s].pcb /\ slot.streaming = slots[s].streaming
        /\ slot.state = slots[s].state
    BY <1>1 DEF SlotRecord
  <1>9. Occupied(s, slot, c)
    <2>1. Request(slot, c)
      BY <1>1 DEF Occupied, Request, SlotRecord, ConnRecord
    <2>2. Answer(slot, c)
      <3>1. slots[s].state # "recv"
        BY <1>1, <1>5 DEF Occupied, Answer
      <3> QED
        BY <1>1, <3>1 DEF Occupied, Answer, Progress, SlotRecord, ConnRecord
    <2> QED
      BY <1>1, <2>1, <2>2 DEF Occupied, ConnRecord
  <1> HIDE DEF slot, c, s
  \* What Becomes asks of what it is given.
  <1>10. ASSUME NEW slot2 \in SlotRecord, NEW c2 \in ConnRecord, NEW now,
                now.slot = slot2, now.conn = c2, Occupied(s, slot2, c2),
                slot2.pcb = slots[s].pcb, slot2.streaming = slots[s].streaming,
                (slot2.state = "ws") = (slots[s].state = "ws"),
                Becomes(s, now)
         PROVE  IInv'
    <2>1. /\ slots' = [slots EXCEPT ![s] = slot2]
          /\ conn' = [conn EXCEPT ![slots[s].pcb] = c2]
          /\ UNCHANGED <<clients, files>>
      BY <1>10 DEF Becomes
    <2> QED
      BY <1>6, <1>10, <2>1, BecomesStep
  <1>11. CASE Becomes(s, Now(slot, c))
    BY <1>7, <1>8, <1>9, <1>10, <1>11 DEF Now
  <1>12. CASE /\ slot.state = "send" /\ slot.streaming
              /\ \E now \in SendStreamChunk(slot, c) : Becomes(s, now)
    <2>1. PICK now \in SendStreamChunk(slot, c) : Becomes(s, now)
      BY <1>12
    <2>2. /\ now.slot \in SlotRecord /\ now.conn \in ConnRecord
          /\ Occupied(s, now.slot, now.conn)
          /\ now.slot.pcb = slot.pcb /\ now.slot.streaming
          /\ now.slot.state = "send"
      BY <1>7, <1>9, <1>12, StreamStep
    <2>3. now.slot.streaming = slots[s].streaming
      BY <1>1, <1>8, <1>12, <2>2 DEF SlotRecord
    <2> QED
      BY <1>8, <1>10, <1>12, <2>1, <2>2, <2>3
  <1>13. CASE /\ slot.state = "send" /\ ~slot.streaming
              /\ \E now \in SendChunk(slot, c) : Becomes(s, now)
    <2>1. PICK now \in SendChunk(slot, c) : Becomes(s, now)
      BY <1>13
    <2>2. /\ now.slot \in SlotRecord /\ now.conn \in ConnRecord
          /\ Occupied(s, now.slot, now.conn)
          /\ now.slot.pcb = slot.pcb /\ ~now.slot.streaming
          /\ now.slot.state = "send"
      BY <1>7, <1>9, <1>13, ChunkStep
    <2>3. now.slot.streaming = slots[s].streaming
      BY <1>1, <1>8, <1>13, <2>2 DEF SlotRecord
    <2> QED
      BY <1>8, <1>10, <1>13, <2>1, <2>2, <2>3
  <1>14. CASE slot.state = "send" /\ Finish(s)
    BY <1>6, <1>8, <1>14, FinishStep
  <1> QED
    BY <1>3, <1>11, <1>12, <1>13, <1>14

-----------------------------------------------------------------------------
(* onPoll(), onErr() and the end of a pcb.                                 *)

\* The poll callback, with its timeouts and pings.
LEMMA PollStep ==
    ASSUME IInv, NEW p \in Pcb, Poll(p)
    PROVE  IInv'
  <1> DEFINE s == conn[p].arg
             polls == slots[s].polls + 1
  <1>1. /\ s \in Slot /\ slots[s].pcb = p /\ p # Null
        /\ slots[s] \in SlotRecord /\ conn[p] \in ConnRecord
        /\ Occupied(s, slots[s], conn[p])
    BY ConnFacts DEF Poll
  <1>2. \/ /\ IF slots[s].state = "ws" THEN polls < PingPolls ELSE polls <= PollLimit
           /\ Becomes(s, Now([slots[s] EXCEPT !.polls = polls], conn[p]))
        \/ /\ slots[s].state = "ws"
           /\ \E w \in {0, 1} :
               /\ conn[p].flight + w <= Window
               /\ Becomes(s, Now([slots[s] EXCEPT !.polls = 0],
                                 [conn[p] EXCEPT !.flight = @ + w]))
        \/ OnClose(s) /\ conn' = [conn EXCEPT ![p] = NoConn]
    BY DEF Poll
  \* Both go on, nothing but polls and flight changed.
  <1>3. ASSUME NEW k \in 0 .. (PollLimit + PingPolls), NEW flight \in 0 .. Window,
               flight = conn[p].flight \/ slots[s].state = "ws",
               Becomes(s, Now([slots[s] EXCEPT !.polls = k],
                              [conn[p] EXCEPT !.flight = flight]))
        PROVE  IInv'
    <2> DEFINE slot == [slots[s] EXCEPT !.polls = k]
               c == [conn[p] EXCEPT !.flight = flight]
    <2>1. /\ slots' = [slots EXCEPT ![s] = slot] /\ conn' = [conn EXCEPT ![p] = c]
          /\ UNCHANGED <<clients, files>>
      BY <1>1, <1>3 DEF Becomes, Now
    <2>2. slot \in SlotRecord
      BY <1>1 DEF SlotRecord
    <2>3. c \in ConnRecord
      BY <1>1 DEF ConnRecord
    <2>4. /\ slot.pcb = slots[s].pcb /\ slot.streaming = slots[s].streaming
          /\ slot.state = slots[s].state
      BY <1>1 DEF SlotRecord
    <2>5. Request(slot, c)
      BY <1>1 DEF Occupied, Request, SlotRecord, ConnRecord
    <2>6. Answer(slot, c)
      <3>1. slots[s].state = "recv" => flight = 0
        BY <1>1, <1>3 DEF Occupied, Answer
      <3> QED
        BY <1>1, <3>1 DEF Occupied, Answer, Progress, SlotRecord, ConnRecord
    <2>7. Occupied(s, slot, c)
      BY <1>1, <2>5, <2>6 DEF Occupied, ConnRecord
    <2> HIDE DEF slot, c, s
    <2> QED
      BY <1>1, <2>1, <2>2, <2>3, <2>4, <2>7, BecomesStep
  <1>4. slots[s].polls \in 0 .. (PollLimit + PingPolls) /\ conn[p].flight \in 0 .. Window
    BY <1>1 DEF SlotRecord, ConnRecord
  <1>5. CASE /\ IF slots[s].state = "ws" THEN polls < PingPolls ELSE polls <= PollLimit
             /\ Becomes(s, Now([slots[s] EXCEPT !.polls = polls], conn[p]))
    <2>1. polls \in 0 .. (PollLimit + PingPolls)
      BY <1>4, <1>5, WebserverAssumption
    <2>2. conn[p] = [conn[p] EXCEPT !.flight = conn[p].flight]
      BY <1>1 DEF ConnRecord
    <2> HIDE DEF polls, s
    <2> QED
      BY <1>3, <1>4, <1>5, <2>1, <2>2
  <1>6. CASE /\ slots[s].state = "ws"
             /\ \E w \in {0, 1} :
                 /\ conn[p].flight + w <= Window
                 /\ Becomes(s, Now([slots[s] EXCEPT !.polls = 0],
                                   [conn[p] EXCEPT !.flight = @ + w]))
    <2>1. PICK w \in {0, 1} :
             /\ conn[p].flight + w <= Window
             /\ Becomes(s, Now([slots[s] EXCEPT !.polls = 0],
                               [conn[p] EXCEPT !.flight = conn[p].flight + w]))
      BY <1>6
    <2> DEFINE flight == conn[p].flight + w
    <2>2. flight \in 0 .. Window
      BY <1>4, <2>1, Zeros
    <2>3. Becomes(s, Now([slots[s] EXCEPT !.polls = 0],
                         [conn[p] EXCEPT !.flight = flight]))
      BY <2>1
    <2> HIDE DEF flight, s
    <2> QED
      BY <1>3, <1>6, <2>2, <2>3, Zeros
  <1>7. CASE OnClose(s) /\ conn' = [conn EXCEPT ![p] = NoConn]
    <2> HIDE DEF s
    <2> QED
      BY <1>1, <1>7, NoConnType, EndStep DEF OnClose
  <1> QED
    BY <1>2, <1>5, <1>6, <1>7

\* onErr() gives up the slot that the pointer leads to, whoever has it.
LEMMA ErrStep ==
    ASSUME IInv, NEW p \in Pcb, Err(p)
    PROVE  IInv'
  <1> DEFINE s == conn[p].arg
             q == slots[s].pcb
  <1>0. conn \in [Pcb -> ConnRecord] /\ slots \in [Slot -> SlotRecord] /\ p # Null
    BY WebserverAssumption DEF IInv, TypeOK
  <1>1. CASE s = Null
    <2>1. conn' = [conn EXCEPT ![p] = NoConn] /\ UNCHANGED <<slots, clients, files>>
      BY <1>1 DEF Err
    <2>2. ~InSlot(p)
      BY <1>1 DEF InSlot
    <2>3. /\ conn' \in [Pcb -> ConnRecord] /\ conn'[p] = NoConn
          /\ \A x \in Pcb : x # p => conn'[x] = conn[x]
      BY <1>0, <2>1, NoConnType
    <2>4. SlotsInv'
      <3> SUFFICES ASSUME NEW r \in Slot, slots[r].pcb # Null
                   PROVE  Occupied(r, slots[r], conn'[slots[r].pcb])
        BY <2>1 DEF SlotsInv, IInv
      <3>1. slots[r].pcb # p
        BY <1>1, <1>0, <2>2, SlotFacts DEF Occupied, IInv, ConnsInv
      <3> QED
        BY <2>3, <3>1, SlotFacts
    <2>5. ConnsInv'
      BY <2>1, <2>3, NoConnType DEF ConnsInv, IInv, InSlot
    <2> QED
      BY <2>1, <2>3, <2>4, <2>5 DEF IInv, TypeOK, ListsInv, Streaming
  <1>2. CASE s # Null
    <2>1. /\ OnClose(s)
          /\ conn' = [x \in Pcb |->
                 CASE x = p -> NoConn
                   [] x = q /\ q # p /\ conn[p].st \in {"refused", "robbed"}
                        -> [NoConn EXCEPT !.st = "robbed", !.arg = s]
                   [] OTHER -> conn[x]]
      BY <1>2 DEF Err
    <2>2. s \in Slot /\ conn[p].st \in {"none", "open", "closed", "refused", "robbed"}
      <3>1. conn[p] \in ConnRecord
        BY <1>0
      <3> QED
        BY <1>2, <3>1 DEF ConnRecord
    <2>3. /\ conn[p].st = "open" => q = p
          /\ conn[p].st \in {"refused", "robbed"} => q # p /\ ~InSlot(p)
          /\ conn[p].st \in {"open", "refused", "robbed"}
      BY <1>2, <2>2 DEF IInv, ConnsInv, InSlot
    <2> DEFINE robbed == [NoConn EXCEPT !.st = "robbed", !.arg = s]
    <2>4. robbed \in ConnRecord /\ robbed.st = "robbed" /\ robbed.arg = s
      BY <2>2, NoConnType DEF ConnRecord
    <2>5. \A x \in Pcb :
             \/ x = p /\ conn'[x] = NoConn
             \/ x = q /\ x # p /\ conn'[x] = robbed
             \/ conn'[x] = conn[x] /\ x # p /\ (x # q \/ conn[p].st = "open")
      BY <2>1, <2>2, <2>3
    <2>6. conn' \in [Pcb -> ConnRecord]
      <3> HIDE DEF robbed
      <3>1. conn' = [x \in Pcb |-> conn'[x]]
        BY <2>1
      <3>2. \A x \in Pcb : conn'[x] \in ConnRecord
        BY <1>0, <2>4, <2>5, NoConnType
      <3> QED
        BY <3>1, <3>2
    <2>7. \A x \in Pcb :
            IF x = q
            THEN \/ conn'[x].st \in {"none", "closed"} /\ conn'[x].arg = Null
                 \/ conn'[x].st = "robbed" /\ conn'[x].arg = s
            ELSE \/ conn'[x] = conn[x]
                 \/ ~InSlot(x) /\ conn'[x].st = "none" /\ conn'[x].arg = Null
      <3> HIDE DEF robbed, q, s
      <3> QED
        BY <2>3, <2>4, <2>5, NoConnType
    <2> HIDE DEF robbed, s
    <2> QED
      BY <2>1, <2>2, <2>6, <2>7, ReleaseStep DEF OnClose
  <1> QED
    BY <1>1, <1>2

\* A closed connection ends.
LEMMA GoneStep ==
    ASSUME IInv, NEW p \in Pcb, Gone(p)
    PROVE  IInv'
  <1>1. /\ conn' = [conn EXCEPT ![p] = NoConn] /\ UNCHANGED <<slots, clients, files>>
        /\ conn[p].st # "open"
    BY DEF Gone
  <1>2. conn \in [Pcb -> ConnRecord]
    BY DEF IInv, TypeOK
  <1>3. /\ conn' \in [Pcb -> ConnRecord] /\ conn'[p] = NoConn
        /\ \A x \in Pcb : x # p => conn'[x] = conn[x]
    BY <1>1, <1>2, NoConnType
  <1>4. SlotsInv'
    <2> SUFFICES ASSUME NEW r \in Slot, slots[r].pcb # Null
                 PROVE  Occupied(r, slots[r], conn'[slots[r].pcb])
      BY <1>1 DEF SlotsInv, IInv
    <2>1. slots[r].pcb # p
      BY <1>1, SlotFacts DEF Occupied
    <2> QED
      BY <1>3, <2>1, SlotFacts
  <1>5. ConnsInv'
    BY <1>1, <1>3, NoConnType DEF ConnsInv, IInv, InSlot
  <1> QED
    BY <1>1, <1>3, <1>4, <1>5 DEF IInv, TypeOK, ListsInv, Streaming

-----------------------------------------------------------------------------
(* onAccept().                                                             *)

\* A connection is accepted, or refused without a free slot.
LEMMA AcceptStep ==
    ASSUME IInv, NEW p \in Pcb, Accept(p)
    PROVE  IInv'
  <1> DEFINE s == CHOOSE i \in Free : \A j \in Free : i <= j
             slot == [EmptySlot EXCEPT !.pcb = p]
             c == [NoConn EXCEPT !.st = "open", !.arg = s]
  <1>1. s \in Slot /\ slots[s].pcb = Null
    <2>1. Free \subseteq Nat /\ Free # {}
      BY WebserverAssumption DEF Accept, Free, Slot
    <2>2. \E i \in Free : \A j \in Free : i <= j
      BY <2>1, SmallestNat
    <2> QED
      BY <2>2 DEF Free
  <1>2. /\ slots' = [slots EXCEPT ![s] = slot] /\ conn' = [conn EXCEPT ![p] = c]
        /\ UNCHANGED <<clients, files>> /\ conn[p].st = "none"
    BY DEF Accept
  <1> HIDE DEF s
  <1>3. p # Null /\ slots \in [Slot -> SlotRecord] /\ conn \in [Pcb -> ConnRecord]
    BY WebserverAssumption DEF IInv, TypeOK
  <1>4. slot \in SlotRecord
    <2>1. /\ 0 \in 0 .. PageLen /\ 0 \in 0 .. (PollLimit + PingPolls) /\ 0 \in 0 .. RxCap
          /\ 0 \in 0 .. BodyLen /\ 0 \in 0 .. FileSize
      BY Lengths, WebserverAssumption
    <2> QED
      BY <2>1 DEF EmptySlot, SlotRecord
  <1>5. c \in ConnRecord
    BY <1>1, NoConnType DEF ConnRecord
  <1>6. slot.pcb = p /\ slot.state = "recv" /\ ~slot.streaming
    BY DEF EmptySlot
  <1>7. c.st = "open" /\ c.arg = s
    BY DEF NoConn
  <1>8. Occupied(s, slot, c)
    <2>1. Request(slot, c)
      <3>1. /\ slot.kind = "none" /\ slot.state = "recv" /\ slot.rx = 0
            /\ ~slot.waiting /\ slot.pending = FALSE
        BY DEF EmptySlot
      <3>2. c.kind = "none" /\ c.rest = 0 /\ c.cut = 0 /\ c.served = 0
        BY DEF NoConn
      <3>3. 0 < RxCap
        BY WebserverAssumption
      <3>4. (slot.kind # "none" /\ c.rest = 0 /\ c.cut = 0) = FALSE
        BY <3>1
      <3> HIDE DEF slot, c
      <3>5. slot.pending = (slot.kind # "none" /\ c.rest = 0 /\ c.cut = 0)
        BY <3>1, <3>4
      <3> QED
        BY <3>1, <3>2, <3>3, <3>5 DEF Request
    <2>2. Answer(slot, c)
      BY Lengths DEF Answer, EmptySlot, NoConn
    <2> QED
      BY <2>1, <2>2 DEF Occupied, NoConn
  <1> HIDE DEF slot, c
  <1>9. /\ slots' \in [Slot -> SlotRecord] /\ conn' \in [Pcb -> ConnRecord]
        /\ slots'[s] = slot /\ conn'[p] = c
        /\ \A r \in Slot : r # s => slots'[r] = slots[r]
        /\ \A x \in Pcb : x # p => conn'[x] = conn[x]
    BY <1>1, <1>2, <1>3, <1>4, <1>5
  <1>10. SlotsInv'
    <2> SUFFICES ASSUME NEW r \in Slot
                 PROVE  IF slots'[r].pcb = Null THEN Empty(slots'[r])
                        ELSE Occupied(r, slots'[r], conn'[slots'[r].pcb])
      BY DEF SlotsInv
    <2>1. CASE r = s
      BY <1>3, <1>6, <1>8, <1>9, <2>1
    <2>2. CASE r # s /\ slots[r].pcb = Null
      BY <1>9, <2>2 DEF IInv, SlotsInv
    <2>3. CASE r # s /\ slots[r].pcb # Null
      <3>1. slots[r].pcb # p /\ slots[r].pcb \in Pcb
        BY <1>2, <2>3, SlotFacts DEF Occupied
      <3> QED
        BY <1>9, <2>3, <3>1, SlotFacts
    <2> QED
      BY <2>1, <2>2, <2>3
  <1>11. ConnsInv'
    <2> SUFFICES ASSUME NEW x \in Pcb
                 PROVE  /\ conn'[x].st \in {"none", "closed"} => conn'[x].arg = Null
                        /\ conn'[x].st = "open" => InSlot(x)'
                        /\ conn'[x].st \in {"refused", "robbed"} =>
                             conn'[x].arg # Null /\ ~InSlot(x)'
      BY DEF ConnsInv
    <2>1. CASE x = p /\ s # Null
      BY <1>6, <1>7, <1>9, <2>1 DEF InSlot
    <2>2. CASE x # p
      <3>1. x # Null /\ (conn[x].arg # Null => conn[x].arg \in Slot)
        BY <1>3, WebserverAssumption DEF ConnRecord
      <3>2. InSlot(x)' <=> InSlot(x)
        BY <1>1, <1>6, <1>9, <2>2, <3>1 DEF InSlot
      <3> QED
        BY <1>9, <2>2, <3>2 DEF IInv, ConnsInv
    <2>3. s # Null
      BY <1>1, WebserverAssumption DEF Slot
    <2> QED
      BY <2>1, <2>2, <2>3
  <1>12. ListsInv'
    <2>1. Streaming' = Streaming
      <3>1. ~slots[s].streaming
        BY <1>1 DEF IInv, SlotsInv, Empty
      <3> QED
        BY <1>6, <1>9, <3>1 DEF Streaming
    <2>2. clients[s] = 0
      BY <1>1 DEF IInv, ListsInv, InWebsocket
    <2> QED
      BY <1>2, <1>6, <1>9, <2>1, <2>2 DEF IInv, ListsInv, InWebsocket
  <1> QED
    BY <1>2, <1>9, <1>10, <1>11, <1>12 DEF IInv, TypeOK

-----------------------------------------------------------------------------
(* Webserver::loop(), doHttpDispatch() and what other modules send.        *)

\* A request that waits for loop().
LEMMA PendingFacts ==
    ASSUME IInv, NEW s \in Slot, slots[s].pcb # Null, slots[s].pending
    PROVE  LET slot == slots[s]
               c == conn[slots[s].pcb]
           IN /\ slot.state = "recv" /\ slot.kind \in Kinds /\ slot.kind = c.kind
              /\ slot.next = 0 /\ slot.read = 0 /\ slot.sent = 0 /\ ~slot.streaming
              /\ slot.kind = "upload" => slot.got = BodyLen
              /\ ~slot.waiting
              /\ c.st = "open" /\ c.arg = s /\ ~c.fin /\ c.rest = 0 /\ c.cut = 0
              /\ c.served = 0 /\ c.flight = 0 /\ c.out = <<>> /\ ~c.lost
  <1> DEFINE slot == slots[s]
             c == conn[slots[s].pcb]
  <1>1. slot \in SlotRecord /\ c \in ConnRecord /\ Occupied(s, slot, c)
    BY SlotFacts
  <1> HIDE DEF slot, c
  <1>2. slot.state = "recv" /\ slot.pending = TRUE
    <2>1. slot.pending
      BY DEF slot
    <2>2. slot.pending \in BOOLEAN
      BY <1>1 DEF SlotRecord
    <2> QED
      BY <1>1, <2>1, <2>2 DEF Occupied, Request
  <1>3. slot.kind # "none" /\ c.rest = 0 /\ c.cut = 0 /\ c.served = 0 /\ slot.kind = c.kind
    BY <1>1, <1>2 DEF Occupied, Request
  <1>4. slot.kind \in Kinds
    BY <1>1, <1>3 DEF SlotRecord
  <1>5. ~slot.waiting /\ (slot.kind = "upload" => slot.got = BodyLen)
    <2>1. CASE slot.kind = "upload"
      <3>1. slot.got + c.rest + c.cut = BodyLen /\ slot.waiting = (slot.got < BodyLen)
        BY <1>1, <2>1 DEF Occupied, Request
      <3>2. slot.got \in 0 .. BodyLen
        BY <1>1 DEF SlotRecord
      <3>3. slot.got = BodyLen /\ (slot.got < BodyLen) = FALSE
        BY <1>3, <3>1, <3>2, Zeros
      <3> QED
        BY <3>1, <3>3
    <2>2. CASE slot.kind # "upload"
      BY <1>1, <2>2 DEF Occupied, Request
    <2> QED
      BY <2>1, <2>2
  <1>6. /\ slot.next = 0 /\ slot.read = 0 /\ slot.sent = 0 /\ ~slot.streaming
        /\ c.flight = 0 /\ c.out = <<>> /\ ~c.lost
        /\ c.st = "open" /\ c.arg = s /\ ~c.fin
    BY <1>1, <1>2 DEF Occupied, Answer
  <1> QED
    BY <1>2, <1>3, <1>4, <1>5, <1>6 DEF slot, c

\* The header is written, the body is not begun.
LEMMA HeaderStep ==
    ASSUME IInv, NEW s \in Slot, slots[s].pcb # Null, slots[s].pending,
           NEW c \in Answered(s),
           NEW state \in {"send", "ws"}, NEW streaming \in BOOLEAN,
           IF state = "send" THEN streaming = (slots[s].kind = "file") ELSE ~streaming
    PROVE  LET slot == [slots[s] EXCEPT !.pending = FALSE, !.state = state,
                                        !.streaming = streaming]
           IN /\ slot \in SlotRecord /\ c \in ConnRecord /\ Occupied(s, slot, c)
              /\ slot.pcb = slots[s].pcb /\ slot.state = state
              /\ slot.streaming = streaming
  <1> DEFINE old == slots[s]
             was == conn[slots[s].pcb]
             slot == [old EXCEPT !.pending = FALSE, !.state = state,
                                 !.streaming = streaming]
  <1>1. old \in SlotRecord /\ was \in ConnRecord
    BY SlotFacts
  <1>2. /\ old.state = "recv" /\ old.kind \in Kinds /\ old.kind = was.kind
        /\ old.next = 0 /\ old.read = 0 /\ old.sent = 0
        /\ old.kind = "upload" => old.got = BodyLen
        /\ ~old.waiting
        /\ was.st = "open" /\ was.arg = s /\ ~was.fin /\ was.rest = 0 /\ was.cut = 0
        /\ was.served = 0 /\ was.flight = 0 /\ was.out = <<>> /\ ~was.lost
    BY PendingFacts
  <1>3. \E ok \in BOOLEAN :
           c = [was EXCEPT !.served = @ + 1, !.lost = ~ok,
                           !.flight = IF ok THEN @ + 1 ELSE @]
    BY DEF Answered
  <1>4. PICK lost \in BOOLEAN, flight \in {0, 1} :
           c = [was EXCEPT !.served = 1, !.lost = lost, !.flight = flight]
    <2>1. PICK ok \in BOOLEAN :
             c = [was EXCEPT !.served = was.served + 1, !.lost = ~ok,
                             !.flight = IF ok THEN was.flight + 1 ELSE was.flight]
      BY <1>3
    <2>2. was.served + 1 = 1 /\ (IF ok THEN was.flight + 1 ELSE was.flight) \in {0, 1}
      BY <1>2
    <2> QED
      BY <2>1, <2>2
  <1> HIDE DEF was
  <1>5. c \in ConnRecord
    <2>1. flight \in 0 .. Window
      BY WebserverAssumption
    <2> QED
      BY <1>1, <1>4, <2>1 DEF ConnRecord
  <1>6. /\ c.st = "open" /\ c.arg = s /\ ~c.fin /\ c.kind = was.kind /\ c.rest = 0
        /\ c.cut = 0 /\ c.served = 1 /\ c.out = <<>>
    BY <1>1, <1>2, <1>4 DEF ConnRecord
  <1>7. /\ slot.pcb = old.pcb /\ slot.state = state /\ slot.streaming = streaming
        /\ slot.pending = FALSE /\ slot.kind = old.kind /\ slot.next = 0
        /\ slot.read = 0 /\ slot.sent = 0 /\ slot.waiting = old.waiting
        /\ slot.got = old.got
    BY <1>1, <1>2 DEF SlotRecord
  <1>8. slot \in SlotRecord
    <2> HIDE DEF old
    <2> QED
      BY <1>1 DEF SlotRecord
  <1>9. /\ state = "send" => streaming = (old.kind = "file")
        /\ state = "ws" => ~streaming
    OBVIOUS
  <1>10. old.kind # "none" /\ ~old.waiting /\ slot.waiting \in BOOLEAN
    <2>1. old.kind # "none"
      BY <1>2, WebserverAssumption
    <2> QED
      BY <1>2, <1>8, <2>1 DEF SlotRecord
  <1> HIDE DEF slot, old
  <1>11. Request(slot, c)
    <2>1. slot.kind = "upload" => slot.waiting = (slot.got < BodyLen)
      <3> SUFFICES ASSUME slot.kind = "upload" PROVE slot.waiting = (slot.got < BodyLen)
        OBVIOUS
      <3>1. (slot.got < BodyLen) = FALSE
        BY <1>2, <1>7, Zeros
      <3>2. slot.waiting = FALSE
        BY <1>7, <1>10
      <3> QED
        BY <3>1, <3>2
    <2>2. slot.kind = "upload" => slot.got + c.rest + c.cut = BodyLen
      BY <1>2, <1>6, <1>7, Zeros
    <2>3. slot.kind = c.kind /\ slot.kind # "none" /\ slot.state # "recv"
          /\ ~slot.waiting /\ ~slot.pending
      BY <1>2, <1>6, <1>7, <1>10
    <2> QED
      BY ONLY <1>6, <2>1, <2>2, <2>3, Zenon DEF Request
  <1>12. Answer(slot, c)
    <2>1. Progress(slot) = 0 /\ slot.state # "recv"
      BY <1>7 DEF Progress
    <2>2. c.out = [i \in 1 .. Progress(slot) |-> i]
      BY <1>6, <2>1
    <2>3. slot.next <= Total(slot.kind)
      BY <1>7, Lengths
    <2>4. slot.state = "send" => slot.streaming = (slot.kind = "file")
      BY <1>7, <1>9
    <2>5. slot.state = "ws" => ~slot.streaming
      BY <1>7, <1>9
    <2>6. slot.read = slot.sent
      BY <1>7
    <2> QED
      BY ONLY <2>1, <2>2, <2>3, <2>4, <2>5, <2>6, Zenon DEF Answer
  <1>13. Occupied(s, slot, c)
    BY <1>6, <1>11, <1>12 DEF Occupied
  <1> QED
    BY <1>5, <1>7, <1>8, <1>13 DEF slot, old

\* What doHttpDispatch() makes of a slot and its connection.
LEMMA DispatchStep ==
    ASSUME IInv, NEW s \in Slot, slots[s].pcb # Null, slots[s].pending,
           NEW now \in Dispatch(s)
    PROVE  /\ now.slot \in SlotRecord /\ now.conn \in ConnRecord
           /\ now.slot.streaming <=> slots[s].kind = "file"
           /\ InWebsocket(now.slot) <=> slots[s].kind = "socket"
           /\ \/ now.slot.pcb = slots[s].pcb /\ Occupied(s, now.slot, now.conn)
              \/ /\ now.slot.pcb = Null /\ Empty(now.slot)
                 /\ now.conn.st = "refused" /\ now.conn.arg = s
  <1> DEFINE Taken(state) == [slots[s] EXCEPT !.pending = FALSE, !.state = state]
  <1>1. slots[s] \in SlotRecord /\ ~slots[s].streaming /\ slots[s].streaming \in BOOLEAN
    <2>1. slots[s] \in SlotRecord /\ ~slots[s].streaming
      BY SlotFacts, PendingFacts
    <2> QED
      BY <2>1 DEF SlotRecord
  <1>2. CASE slots[s].kind = "nosocket"
    <2> DEFINE taken == Taken("recv")
               refused == [NoConn EXCEPT !.st = "refused", !.arg = s]
    <2>1. now = Now(Released(taken), refused)
      BY <1>2 DEF Dispatch
    <2>2. taken \in SlotRecord
      BY <1>1 DEF SlotRecord
    <2>3. refused \in ConnRecord /\ refused.st = "refused" /\ refused.arg = s
      BY NoConnType DEF ConnRecord
    <2> HIDE DEF taken, refused
    <2>4. now.slot = Released(taken) /\ now.conn = refused
      BY <2>1 DEF Now
    <2> QED
      BY <1>2, <2>2, <2>3, <2>4, ReleasedType DEF Empty, InWebsocket
  <1>3. CASE slots[s].kind = "socket"
    <2> DEFINE slot == [slots[s] EXCEPT !.pending = FALSE, !.state = "ws",
                                        !.streaming = FALSE]
    <2>1. PICK c \in Answered(s) : now = Now(Taken("ws"), c)
      BY <1>3 DEF Dispatch
    <2>2. slot = Taken("ws")
      BY <1>1 DEF SlotRecord
    <2>3. /\ slot \in SlotRecord /\ c \in ConnRecord /\ Occupied(s, slot, c)
          /\ slot.pcb = slots[s].pcb /\ slot.state = "ws" /\ slot.streaming = FALSE
      BY HeaderStep
    <2>4. now.slot = slot /\ now.conn = c
      BY <2>1, <2>2 DEF Now
    <2> HIDE DEF slot
    <2> QED
      BY <1>3, <2>3, <2>4 DEF InWebsocket
  <1>4. CASE slots[s].kind = "file"
    <2> DEFINE slot == [slots[s] EXCEPT !.pending = FALSE, !.state = "send",
                                        !.streaming = TRUE]
    <2>1. PICK c \in Answered(s) :
             now \in SendStreamChunk([Taken("send") EXCEPT !.streaming = TRUE], c)
      BY <1>4 DEF Dispatch
    <2>2. slot = [Taken("send") EXCEPT !.streaming = TRUE]
      BY <1>1 DEF SlotRecord
    <2>3. /\ slot \in SlotRecord /\ c \in ConnRecord /\ Occupied(s, slot, c)
          /\ slot.pcb = slots[s].pcb /\ slot.state = "send" /\ slot.streaming = TRUE
      BY <1>4, HeaderStep
    <2>4. now \in SendStreamChunk(slot, c)
      BY <2>1, <2>2
    <2> HIDE DEF slot
    <2>5. /\ now.slot \in SlotRecord /\ now.conn \in ConnRecord
          /\ Occupied(s, now.slot, now.conn)
          /\ now.slot.pcb = slot.pcb /\ now.slot.streaming /\ now.slot.state = "send"
      BY <2>3, <2>4, StreamStep
    <2> QED
      BY <1>4, <2>3, <2>5 DEF InWebsocket
  <1>5. CASE slots[s].kind \notin {"nosocket", "socket", "file"}
    <2> DEFINE slot == [slots[s] EXCEPT !.pending = FALSE, !.state = "send",
                                        !.streaming = FALSE]
    <2>1. PICK c \in Answered(s) : now \in SendChunk(Taken("send"), c)
      BY <1>5 DEF Dispatch
    <2>2. slot = Taken("send")
      BY <1>1 DEF SlotRecord
    <2>3. /\ slot \in SlotRecord /\ c \in ConnRecord /\ Occupied(s, slot, c)
          /\ slot.pcb = slots[s].pcb /\ slot.state = "send" /\ slot.streaming = FALSE
      BY <1>5, HeaderStep
    <2>4. now \in SendChunk(slot, c)
      BY <2>1, <2>2
    <2> HIDE DEF slot
    <2>5. /\ now.slot \in SlotRecord /\ now.conn \in ConnRecord
          /\ Occupied(s, now.slot, now.conn)
          /\ now.slot.pcb = slot.pcb /\ ~now.slot.streaming /\ now.slot.state = "send"
      BY <2>3, <2>4, ChunkStep
    <2> QED
      BY <1>5, <2>3, <2>5 DEF InWebsocket
  <1> QED
    BY <1>2, <1>3, <1>4, <1>5

\* loop() answers what is marked and pushes on what is pending.
LEMMA LoopStep ==
    ASSUME IInv, Loop
    PROVE  IInv'
  <1> DEFINE waiting == {s \in Slot : slots[s].pcb # Null /\ slots[s].pending}
             In(kind) == {s \in waiting : slots[s].kind = kind}
  <1>1. PICK now \in [waiting -> UNION {Dispatch(s) : s \in waiting}] :
            /\ \A s \in waiting : now[s] \in Dispatch(s)
            /\ slots' = [s \in Slot |->
                           IF s \in waiting THEN now[s].slot ELSE slots[s]]
            /\ conn' = [p \in Pcb |->
                          IF InSlot(p) /\ conn[p].arg \in waiting
                          THEN now[conn[p].arg].conn ELSE conn[p]]
    BY Zenon DEF Loop
  <1>2. /\ clients' = [s \in Slot |->
                         IF s \in In("socket") THEN clients[s] + 1 ELSE clients[s]]
        /\ files' = files + Cardinality(In("file"))
    BY Zenon DEF Loop
  <1>3. ASSUME NEW s \in waiting
        PROVE  /\ now[s].slot \in SlotRecord /\ now[s].conn \in ConnRecord
               /\ now[s].slot.streaming <=> slots[s].kind = "file"
               /\ InWebsocket(now[s].slot) <=> slots[s].kind = "socket"
               /\ \/ /\ now[s].slot.pcb = slots[s].pcb
                     /\ Occupied(s, now[s].slot, now[s].conn)
                  \/ /\ now[s].slot.pcb = Null /\ Empty(now[s].slot)
                     /\ now[s].conn.st = "refused" /\ now[s].conn.arg = s
    BY <1>1, DispatchStep
  <1>4. ASSUME NEW s \in waiting
        PROVE  s \in Slot /\ slots[s].pcb # Null /\ slots[s].state = "recv"
               /\ ~slots[s].streaming
    BY PendingFacts
  <1>5. /\ slots \in [Slot -> SlotRecord] /\ conn \in [Pcb -> ConnRecord]
        /\ \A x \in Pcb : x # Null
    BY WebserverAssumption DEF IInv, TypeOK
  <1>6. waiting \subseteq Slot /\ \A kind : In(kind) \subseteq waiting
    OBVIOUS
  <1>7. \A s \in Slot : s \in In("socket") <=> s \in waiting /\ slots[s].kind = "socket"
    OBVIOUS
  <1>8. \A s \in Slot : s \in In("file") <=> s \in waiting /\ slots[s].kind = "file"
    OBVIOUS
  <1> DEFINE files1 == In("file")
             sockets1 == In("socket")
  <1> HIDE DEF waiting, In
  <1>9. /\ \A s \in waiting : slots'[s] = now[s].slot
        /\ \A s \in Slot : s \notin waiting => slots'[s] = slots[s]
    BY <1>1, <1>6
  <1>10. \A x \in Pcb :
            conn'[x] = IF InSlot(x) /\ conn[x].arg \in waiting
                       THEN now[conn[x].arg].conn ELSE conn[x]
    BY <1>1
  <1>11. slots' \in [Slot -> SlotRecord] /\ conn' \in [Pcb -> ConnRecord]
    <2>1. \A s \in Slot : slots'[s] \in SlotRecord
      BY <1>3, <1>5, <1>9
    <2>2. \A x \in Pcb : conn'[x] \in ConnRecord
      BY <1>3, <1>5, <1>10
    <2>3. slots' = [s \in Slot |-> slots'[s]] /\ conn' = [x \in Pcb |-> conn'[x]]
      BY <1>1
    <2> QED
      BY <2>1, <2>2, <2>3
  <1>12. SlotsInv'
    <2> SUFFICES ASSUME NEW r \in Slot
                 PROVE  IF slots'[r].pcb = Null THEN Empty(slots'[r])
                        ELSE Occupied(r, slots'[r], conn'[slots'[r].pcb])
      BY DEF SlotsInv
    <2>1. CASE r \in waiting
      <3>1. slots'[r] = now[r].slot
        BY <1>9, <2>1
      <3>2. slots[r].pcb \in Pcb /\ slots[r].pcb # Null /\ conn[slots[r].pcb].arg = r
        BY <1>4, <2>1, SlotFacts DEF Occupied
      <3>3. InSlot(slots[r].pcb)
        BY <1>4, <2>1, <3>2, SlotFacts DEF Occupied, IInv, ConnsInv
      <3>4. conn'[slots[r].pcb] = now[r].conn
        BY <1>10, <2>1, <3>2, <3>3
      <3> QED
        BY <1>3, <2>1, <3>1, <3>2, <3>4
    <2>2. CASE r \notin waiting /\ slots[r].pcb = Null
      BY <1>9, <2>2 DEF IInv, SlotsInv
    <2>3. CASE r \notin waiting /\ slots[r].pcb # Null
      <3>1. /\ slots[r].pcb \in Pcb /\ conn[slots[r].pcb].arg = r
            /\ Occupied(r, slots[r], conn[slots[r].pcb])
        BY <2>3, SlotFacts DEF Occupied
      <3>2. conn'[slots[r].pcb] = conn[slots[r].pcb]
        BY <1>10, <2>3, <3>1
      <3> QED
        BY <1>9, <2>3, <3>1, <3>2
    <2> QED
      BY <2>1, <2>2, <2>3
  <1>13. ConnsInv'
    <2> SUFFICES ASSUME NEW x \in Pcb
                 PROVE  /\ conn'[x].st \in {"none", "closed"} => conn'[x].arg = Null
                        /\ conn'[x].st = "open" => InSlot(x)'
                        /\ conn'[x].st \in {"refused", "robbed"} =>
                             conn'[x].arg # Null /\ ~InSlot(x)'
      BY DEF ConnsInv
    <2>1. CASE InSlot(x) /\ conn[x].arg \in waiting
      <3>1. conn[x].arg # Null /\ slots[conn[x].arg].pcb = x /\ x # Null
        BY <1>5, <2>1 DEF InSlot
      <3>2. /\ conn'[x] = now[conn[x].arg].conn
            /\ slots'[conn[x].arg] = now[conn[x].arg].slot
        BY <1>9, <1>10, <2>1
      <3>3. CASE now[conn[x].arg].conn.st = "refused"
        <4>1. conn'[x].arg = conn[x].arg /\ slots'[conn[x].arg].pcb = Null
          BY <1>3, <2>1, <3>2, <3>3 DEF Occupied
        <4> QED
          BY <3>1, <3>2, <3>3, <4>1 DEF InSlot
      <3>4. CASE now[conn[x].arg].conn.st # "refused"
        <4>1. /\ conn'[x].arg = conn[x].arg /\ slots'[conn[x].arg].pcb = x
              /\ conn'[x].st = "open"
          BY <1>3, <2>1, <3>1, <3>2, <3>4 DEF Occupied
        <4> QED
          BY <3>1, <4>1 DEF InSlot
      <3> QED
        BY <3>3, <3>4
    <2>2. CASE ~(InSlot(x) /\ conn[x].arg \in waiting)
      <3>1. conn'[x] = conn[x]
        BY <1>10, <2>2
      <3>2. conn[x].arg # Null => conn[x].arg \in Slot
        BY <1>5 DEF ConnRecord
      <3>3. CASE InSlot(x)
        <4>1. slots'[conn[x].arg] = slots[conn[x].arg]
          BY <1>9, <2>2, <3>2, <3>3 DEF InSlot
        <4> QED
          BY <3>1, <3>3, <4>1 DEF IInv, ConnsInv, InSlot
      <3>4. CASE ~InSlot(x)
        <4>1. conn[x].arg # Null => slots'[conn[x].arg].pcb # x
          BY <1>3, <1>5, <1>9, <3>2, <3>4 DEF InSlot
        <4> QED
          BY <3>1, <3>4, <4>1 DEF IInv, ConnsInv, InSlot
      <3> QED
        BY <3>3, <3>4
    <2> QED
      BY <2>1, <2>2
  <1>14. /\ \A r \in Slot : clients'[r] = IF InWebsocket(slots'[r]) THEN 1 ELSE 0
         /\ clients' \in [Slot -> Nat]
    <2>1. \A r \in Slot : clients[r] = IF InWebsocket(slots[r]) THEN 1 ELSE 0
      BY DEF IInv, ListsInv
    <2>2. \A r \in Slot : clients'[r] = IF r \in sockets1 THEN clients[r] + 1 ELSE clients[r]
      BY <1>2
    <2>3. \A r \in waiting : ~InWebsocket(slots[r])
      BY <1>4 DEF InWebsocket
    <2>4. \A r \in Slot : r \in sockets1 <=> r \in waiting /\ slots[r].kind = "socket"
      BY <1>7
    <2> HIDE DEF sockets1
    <2>5. ASSUME NEW r \in Slot
          PROVE  clients'[r] = IF InWebsocket(slots'[r]) THEN 1 ELSE 0
      <3>1. CASE r \in waiting
        <4>1. InWebsocket(slots'[r]) <=> r \in sockets1
          BY <1>3, <1>9, <2>4, <3>1
        <4> QED
          BY <2>1, <2>2, <2>3, <3>1, <4>1
      <3>2. CASE r \notin waiting
        BY <1>9, <2>1, <2>2, <2>4, <3>2
      <3> QED
        BY <3>1, <3>2
    <2>6. clients' = [r \in Slot |-> clients'[r]]
      BY <1>2
    <2>7. \A r \in Slot : clients'[r] \in Nat
      BY <2>5
    <2> QED
      BY <2>5, <2>6, <2>7
  <1>15. files' = Cardinality(Streaming') /\ files' \in 0 .. MaxConn
    <2>1. Streaming' = Streaming \cup files1
      <3>1. \A r \in Slot : slots'[r].streaming <=> slots[r].streaming \/ r \in files1
        <4> SUFFICES ASSUME NEW r \in Slot
                     PROVE  slots'[r].streaming <=> slots[r].streaming \/ r \in files1
          OBVIOUS
        <4>1. CASE r \in waiting
          BY <1>3, <1>4, <1>8, <1>9, <4>1
        <4>2. CASE r \notin waiting
          BY <1>8, <1>9, <4>2
        <4> QED
          BY <4>1, <4>2
      <3>2. files1 \subseteq Slot
        BY <1>6
      <3> HIDE DEF files1
      <3> QED
        BY <3>1, <3>2 DEF Streaming
    <2>2. Streaming \cap files1 = {}
      BY <1>4, <1>6 DEF Streaming
    <2>3. IsFiniteSet(files1) /\ files1 \in SUBSET Slot
      BY <1>6, SlotsFinite, FS_Subset
    <2>4. files' = files + Cardinality(files1) /\ files = Cardinality(Streaming)
      BY <1>2 DEF IInv, ListsInv
    <2> HIDE DEF files1
    <2>5. Cardinality(Streaming \cup files1)
            = Cardinality(Streaming) + Cardinality(files1)
      <3>1. Cardinality(Streaming \cup files1)
              = Cardinality(Streaming) + Cardinality(files1)
                  - Cardinality(Streaming \cap files1)
        BY <2>3, StreamingFinite, FS_Union
      <3>2. Cardinality(Streaming \cap files1) = 0
        BY <2>2, FS_EmptySet
      <3>3. Cardinality(Streaming) \in Nat /\ Cardinality(files1) \in Nat
        BY <2>3, StreamingFinite, FS_CardinalityType
      <3> QED
        BY <3>1, <3>2, <3>3
    <2>6. Cardinality(Streaming') \in 0 .. MaxConn
      <3>1. Streaming' \in SUBSET Slot
        BY DEF Streaming
      <3>2. IsFiniteSet(Streaming') /\ Cardinality(Streaming') <= MaxConn
        BY <3>1, SlotsFinite, FS_Subset
      <3> QED
        BY <3>2, FS_CardinalityType, WebserverAssumption
    <2> QED
      BY <2>1, <2>4, <2>5, <2>6
  <1> QED
    BY <1>11, <1>12, <1>13, <1>14, <1>15 DEF IInv, TypeOK, ListsInv

\* A message goes to the WebSocket clients.
LEMMA SendMessageStep ==
    ASSUME IInv, SendMessage
    PROVE  IInv'
  <1>1. PICK to \in SUBSET {fd \in Slot :
                              /\ clients[fd] > 0
                              /\ slots[fd].pcb # Null /\ slots[fd].state = "ws"
                              /\ HasRoom(slots[fd].pcb)} :
            conn' = [p \in Pcb |->
                       IF \E fd \in to : slots[fd].pcb = p
                       THEN [conn[p] EXCEPT !.flight = @ + 1] ELSE conn[p]]
    BY DEF SendMessage
  <1>2. UNCHANGED <<slots, clients, files>>
    BY DEF SendMessage
  <1>3. conn \in [Pcb -> ConnRecord]
    BY DEF IInv, TypeOK
  <1>4. ASSUME NEW fd \in to
        PROVE  /\ fd \in Slot /\ slots[fd].pcb # Null /\ slots[fd].state = "ws"
               /\ HasRoom(slots[fd].pcb) /\ slots[fd].pcb \in Pcb
               /\ Occupied(fd, slots[fd], conn[slots[fd].pcb])
    BY SlotFacts
  \* What a frame leaves alone.
  <1>5. \A x \in Pcb :
           /\ conn'[x] \in ConnRecord /\ conn'[x].st = conn[x].st
           /\ conn'[x].arg = conn[x].arg
           /\ \A r \in Slot :
                slots[r].pcb = x /\ Occupied(r, slots[r], conn[x])
                  => Occupied(r, slots[r], conn'[x])
    <2> SUFFICES ASSUME NEW x \in Pcb
                 PROVE  /\ conn'[x] \in ConnRecord /\ conn'[x].st = conn[x].st
                        /\ conn'[x].arg = conn[x].arg
                        /\ \A r \in Slot :
                             slots[r].pcb = x /\ Occupied(r, slots[r], conn[x])
                               => Occupied(r, slots[r], conn'[x])
      OBVIOUS
    <2>1. CASE ~\E fd \in to : slots[fd].pcb = x
      BY <1>1, <1>3, <2>1
    <2>2. CASE \E fd \in to : slots[fd].pcb = x
      <3> DEFINE flight == conn[x].flight + 1
                 c == [conn[x] EXCEPT !.flight = flight]
      <3>1. conn'[x] = c /\ conn[x] \in ConnRecord
        BY <1>1, <1>3, <2>2
      <3>2. PICK fd \in to : slots[fd].pcb = x
        BY <2>2
      <3>3. fd \in Slot /\ slots[fd].state = "ws" /\ slots[fd].pcb # Null /\ HasRoom(x)
        BY <1>4, <3>2
      <3>4. conn[x].flight \in 0 .. Window
        BY <3>1 DEF ConnRecord
      <3>5. flight \in 0 .. Window
        BY <3>3, <3>4, Zeros DEF HasRoom
      <3> HIDE DEF flight
      <3>6. c \in ConnRecord
        BY <3>1, <3>5 DEF ConnRecord
      <3>7. c.st = conn[x].st /\ c.arg = conn[x].arg
        BY <3>1 DEF ConnRecord
      <3>8. ASSUME NEW r \in Slot, slots[r].pcb = x, Occupied(r, slots[r], conn[x])
            PROVE  Occupied(r, slots[r], c)
        <4>1. slots[r].state = "ws"
          BY <3>2, <3>3, <3>8, OneSlot
        <4>2. Request(slots[r], c)
          BY <3>1, <3>8 DEF Occupied, Request, ConnRecord
        <4>3. Answer(slots[r], c)
          BY <3>1, <3>8, <4>1 DEF Occupied, Answer, ConnRecord
        <4> QED
          BY <3>1, <3>8, <4>2, <4>3 DEF Occupied, ConnRecord
      <3> HIDE DEF c
      <3> QED
        BY <3>1, <3>6, <3>7, <3>8
    <2> QED
      BY <2>1, <2>2
  <1>6. TypeOK'
    <2>1. conn' = [x \in Pcb |-> conn'[x]]
      BY <1>1
    <2>2. \A x \in Pcb : conn'[x] \in ConnRecord
      BY <1>5
    <2>3. conn' \in [Pcb -> ConnRecord]
      BY <2>1, <2>2
    <2> QED
      BY <1>2, <2>3 DEF IInv, TypeOK
  <1>7. SlotsInv'
    <2> SUFFICES ASSUME NEW r \in Slot, slots[r].pcb # Null
                 PROVE  Occupied(r, slots[r], conn'[slots[r].pcb])
      BY <1>2 DEF IInv, SlotsInv
    <2> QED
      BY <1>5, SlotFacts
  <1>8. ConnsInv'
    BY <1>2, <1>5 DEF IInv, ConnsInv, InSlot
  <1> QED
    BY <1>2, <1>6, <1>7, <1>8 DEF IInv, ListsInv, Streaming

-----------------------------------------------------------------------------
(* The theorems.                                                           *)

\* At first there is no connection.
LEMMA InitInv == Init => IInv
  <1> SUFFICES ASSUME Init PROVE IInv
    OBVIOUS
  <1>1. EmptySlot \in SlotRecord /\ EmptySlot.pcb = Null /\ Empty(EmptySlot)
    <2>1. /\ 0 \in 0 .. PageLen /\ 0 \in 0 .. (PollLimit + PingPolls) /\ 0 \in 0 .. RxCap
          /\ 0 \in 0 .. BodyLen /\ 0 \in 0 .. FileSize
      BY Lengths, WebserverAssumption
    <2> QED
      BY <2>1 DEF EmptySlot, SlotRecord, Empty
  <1>2. TypeOK
    <2>1. slots \in [Slot -> SlotRecord] /\ conn \in [Pcb -> ConnRecord]
      BY <1>1, NoConnType DEF Init
    <2>2. clients \in [Slot -> Nat] /\ files \in 0 .. MaxConn
      BY WebserverAssumption DEF Init
    <2> QED
      BY <2>1, <2>2 DEF TypeOK
  <1>3. SlotsInv
    BY <1>1 DEF Init, SlotsInv
  <1>4. ConnsInv
    BY NoConnType DEF Init, ConnsInv
  <1>5. ListsInv
    <2>1. Streaming = {}
      BY <1>1 DEF Init, Streaming, Empty
    <2> QED
      BY <1>1, <2>1, FS_EmptySet DEF Init, ListsInv, InWebsocket
  <1> QED
    BY <1>2, <1>3, <1>4, <1>5 DEF IInv

\* Every action keeps the invariant.
LEMMA NextInv == IInv /\ Next => IInv'
  <1> SUFFICES ASSUME IInv, Next PROVE IInv'
    OBVIOUS
  <1>1. ASSUME NEW p \in Pcb, NEW s \in Slot,
               \/ RecvPart(p, s) \/ RecvRequest(p, s) \/ RecvRefused(p, s)
               \/ RecvUpload(p, s) \/ RecvUploadNoMemory(p, s) \/ RecvBody(p, s)
               \/ RecvIgnored(p, s) \/ RecvFrames(p, s) \/ RecvClose(p, s)
               \/ RecvFin(p, s)
        PROVE  IInv'
    BY <1>1, RecvPartStep, RecvRequestStep, RecvUploadStep, RecvBodyStep,
       RecvLaterStep, RecvEndStep
  <1>2. ASSUME NEW p \in Pcb, Recv(p) PROVE IInv'
    BY <1>1, <1>2 DEF Recv
  <1> QED
    BY <1>2, AcceptStep, SentStep, PollStep, ErrStep, GoneStep, LoopStep,
       SendMessageStep DEF Next

\* The invariant speaks of the variables only.
LEMMA StutterInv == IInv /\ UNCHANGED vars => IInv'
  BY DEF IInv, TypeOK, SlotsInv, ConnsInv, ListsInv, InSlot, Streaming, vars

\* The inductive invariant, for every value of the constants.
THEOREM Invariance == Spec => []IInv
  <1>1. IInv /\ [Next]_vars => IInv'
    BY NextInv, StutterInv
  <1> QED
    BY InitInv, <1>1, PTL DEF Spec

\* Every variable keeps its type: no counter of a slot passes its limit, no
\* position the end of what is sent, and no more is under way on a connection
\* than its send buffer takes.
THEOREM TypeCorrect == Spec => []TypeOK
  <1>1. IInv => TypeOK
    BY DEF IInv
  <1> QED
    BY Invariance, <1>1, PTL

\* A slot is given up once, and whole: what it held is gone with its
\* connection, and only its own connection finds it.
THEOREM Ownership == Spec => []SlotOwnership
  <1>1. IInv => SlotOwnership
    <2> SUFFICES ASSUME IInv PROVE SlotOwnership
      OBVIOUS
    <2>1. \A s \in Free : ~slots[s].body /\ ~slots[s].streaming /\ slots[s].next = 0
      BY DEF IInv, SlotsInv, Free, Empty
    <2>2. files = Cardinality({s \in Slot : slots[s].streaming})
      BY DEF IInv, ListsInv, Streaming
    <2>3. \A s \in Slot :
             clients[s] = IF slots[s].pcb # Null /\ slots[s].state = "ws" THEN 1 ELSE 0
      BY DEF IInv, ListsInv, InWebsocket
    <2>4. \A p \in Pcb : /\ conn[p].st = "open" => InSlot(p)
                         /\ conn[p].st = "closed" => conn[p].arg = Null
      BY DEF IInv, ConnsInv
    <2> QED
      BY <2>1, <2>2, <2>3, <2>4 DEF SlotOwnership
  <1> QED
    BY Invariance, <1>1, PTL

\* A request is answered when it is whole, once, and as that of its own
\* connection.
THEOREM AnsweredOnce == Spec => []RequestsOnce
  <1>1. IInv => RequestsOnce
    <2> SUFFICES ASSUME IInv, NEW p \in Pcb, InSlot(p)
                 PROVE  LET whole == /\ conn[p].kind # "none"
                                     /\ conn[p].rest = 0 /\ conn[p].cut = 0
                            slot == slots[conn[p].arg]
                        IN /\ slot.pending \/ conn[p].served > 0
                                => whole /\ slot.kind = conn[p].kind
                           /\ whole => slot.pending # (conn[p].served = 1)
                           /\ conn[p].served <= 1
      BY DEF RequestsOnce
    <2> DEFINE slot == slots[conn[p].arg]
               c == conn[p]
               whole == c.kind # "none" /\ c.rest = 0 /\ c.cut = 0
    <2>1. slot \in SlotRecord /\ Request(slot, c)
      BY ConnFacts DEF Occupied
    <2>2. slot.pending \in BOOLEAN
      BY <2>1 DEF SlotRecord
    <2> HIDE DEF slot, c
    <2>3. /\ slot.pending \/ c.served > 0 => whole /\ slot.kind = c.kind
          /\ whole => slot.pending # (c.served = 1)
          /\ c.served <= 1
      <3>1. CASE slot.state = "recv"
        <4>1. c.served = 0 /\ slot.pending = whole /\ slot.kind = c.kind
          BY <2>1, <3>1 DEF Request
        <4>2. (c.served = 1) = FALSE /\ ~(c.served > 0) /\ c.served <= 1
          BY <4>1
        <4>3. whole => slot.pending = TRUE
          BY <4>1
        <4> HIDE DEF whole
        <4> QED
          BY <4>1, <4>2, <4>3
      <3>2. CASE slot.state # "recv"
        <4>1. c.served = 1 /\ slot.pending = FALSE /\ whole /\ slot.kind = c.kind
          BY <2>1, <2>2, <3>2 DEF Request
        <4>2. (c.served = 1) = TRUE /\ c.served <= 1
          BY <4>1
        <4> HIDE DEF whole
        <4> QED
          BY <4>1, <4>2
      <3> QED
        BY <3>1, <3>2
    <2> QED
      BY <2>3 DEF slot, c
  <1> QED
    BY Invariance, <1>1, PTL

\* No chunk closes a connection.
LEMMA SendingStays ==
    ASSUME NEW slot \in SlotRecord, NEW c \in ConnRecord,
           NEW now \in SendStreamChunk(slot, c) \cup SendChunk(slot, c)
    PROVE  now.conn.st = c.st
  <1>1. CASE now \in SendStreamChunk(slot, c)
    <2>1. slot.sent \in 0 .. FileSize
      BY DEF SlotRecord
    <2>2. c.flight \in 0 .. Window
      BY DEF ConnRecord
    <2>3. \/ slot.sent < FileSize /\ c.flight < Window
          \/ slot.sent >= FileSize \/ c.flight = Window
      BY <2>1, <2>2, Zeros
    <2> DEFINE written == Now([slot EXCEPT !.read = @ + 1, !.sent = @ + 1],
                         [c EXCEPT !.flight = @ + 1, !.out = Append(@, slot.read + 1)])
               refused == Now([slot EXCEPT !.read = @ + 1], [c EXCEPT !.lost = TRUE])
               ended   == Now([slot EXCEPT !.sent = FileSize],
                         [c EXCEPT !.lost = @ \/ slot.read < FileSize])
    <2>4. now \in {Now(slot, c), written, refused, ended}
      BY <1>1, <2>3 DEF SendStreamChunk
    <2>5. /\ Now(slot, c).conn.st = c.st /\ written.conn.st = c.st
          /\ refused.conn.st = c.st /\ ended.conn.st = c.st
      BY DEF Now, ConnRecord
    <2> HIDE DEF written, refused, ended
    <2> QED
      BY <2>4, <2>5
  <1>2. CASE now \in SendChunk(slot, c)
    <2>1. \E k : now = Now([slot EXCEPT !.next = @ + k],
                           [c EXCEPT !.flight = @ + k,
                                     !.out = @ \o [i \in 1 .. k |-> slot.next + i]])
      BY <1>2, Zenon DEF SendChunk
    <2>2. PICK k : now = Now([slot EXCEPT !.next = @ + k],
                             [c EXCEPT !.flight = @ + k,
                                       !.out = @ \o [i \in 1 .. k |-> slot.next + i]])
      BY <2>1
    <2> QED
      BY <2>2 DEF Now, ConnRecord
  <1> QED
    BY <1>1, <1>2

\* An answer that the server ends is out by then: only onSent() with nothing
\* left to write closes a connection whose answer is being sent.
LEMMA ClosingStep ==
    ASSUME IInv, Next, NEW p \in Pcb, InSlot(p), slots[conn[p].arg].state = "send",
           conn'[p].st = "closed", ~conn'[p].fin, ~conn[p].lost
    PROVE  conn[p].out = [i \in 1 .. Total(conn[p].kind) |-> i]
  <1> DEFINE s == conn[p].arg
  <1>1. /\ s \in Slot /\ slots[s].pcb = p /\ p # Null /\ conn[p].st = "open"
        /\ slots[s] \in SlotRecord /\ conn[p] \in ConnRecord
        /\ Occupied(s, slots[s], conn[p]) /\ slots[s].state = "send"
    BY ConnFacts
  <1>2. conn \in [Pcb -> ConnRecord]
    BY DEF IInv, TypeOK
  <1>3. conn'[p] # conn[p] /\ conn'[p].st # "open"
    BY <1>1
  <1> HIDE DEF s
  <1>4. ASSUME NEW q \in Pcb, Accept(q) \/ Gone(q) \/ Err(q)
        PROVE  FALSE
    <2>1. CASE Accept(q)
      <3>1. \E r : conn' = [conn EXCEPT ![q] = [NoConn EXCEPT !.st = "open", !.arg = r]]
        BY <2>1 DEF Accept
      <3> QED
        BY <1>2, <1>3, <3>1 DEF NoConn
    <2>2. CASE Gone(q)
      BY <1>1, <1>2, <1>3, <2>2, NoConnType DEF Gone
    <2>3. CASE Err(q)
      <3>1. \/ conn'[p] = NoConn
            \/ \E r : conn'[p] = [NoConn EXCEPT !.st = "robbed", !.arg = r]
            \/ conn'[p] = conn[p]
        BY <1>2, <2>3 DEF Err
      <3>2. \A r : [NoConn EXCEPT !.st = "robbed", !.arg = r].st = "robbed"
        BY DEF NoConn
      <3> QED
        BY <1>3, <3>1, <3>2, NoConnType
    <2> QED
      BY <1>4, <2>1, <2>2, <2>3
  <1>5. ASSUME NEW q \in Pcb, Recv(q)
        PROVE  FALSE
    <2>1. PICK r \in Slot :
            \/ RecvPart(q, r) \/ RecvRequest(q, r) \/ RecvRefused(q, r)
            \/ RecvUpload(q, r) \/ RecvUploadNoMemory(q, r) \/ RecvBody(q, r)
            \/ RecvIgnored(q, r) \/ RecvFrames(q, r) \/ RecvClose(q, r)
            \/ RecvFin(q, r)
      BY <1>5 DEF Recv
    <2>2. slots[r].pcb = q
      BY <2>1, TalksFacts DEF RecvPart, RecvRequest, RecvRefused, RecvUpload,
         RecvUploadNoMemory, RecvBody, RecvIgnored, RecvFrames, RecvClose, RecvFin,
         InSlot
    <2>3. q = p => r = s
      BY <1>1, <2>2, OneSlot
    <2>4. CASE \/ RecvPart(q, r) \/ RecvRequest(q, r) \/ RecvRefused(q, r)
               \/ RecvUpload(q, r) \/ RecvUploadNoMemory(q, r) \/ RecvBody(q, r)
               \/ RecvFrames(q, r) \/ RecvClose(q, r)
      <3>1. slots[r].state # "send"
        BY <2>4 DEF RecvPart, RecvRequest, RecvRefused, RecvUpload,
           RecvUploadNoMemory, RecvBody, RecvFrames, RecvClose
      <3>2. q # p
        BY <1>1, <2>3, <3>1
      <3>3. \E c : conn' = [conn EXCEPT ![q] = c]
        BY <2>2, <2>4 DEF RecvPart, RecvRequest, RecvRefused, RecvUpload,
           RecvUploadNoMemory, RecvBody, RecvFrames, RecvClose, Finish, Said
      <3> QED
        BY <1>2, <1>3, <3>2, <3>3
    <2>5. CASE RecvIgnored(q, r)
      BY <1>1, <1>2, <1>3, <2>5 DEF RecvIgnored, Said
    <2>6. CASE RecvFin(q, r)
      <3>1. q = p => conn'[p] = Closed([conn[p] EXCEPT !.fin = TRUE])
        BY <1>2, <2>6 DEF RecvFin
      <3>2. q = p => conn'[p].fin
        BY <1>1, <3>1 DEF Closed, NoConn, ConnRecord
      <3> QED
        BY <1>2, <1>3, <2>6, <3>2 DEF RecvFin
    <2> QED
      BY <2>1, <2>4, <2>5, <2>6
  <1>6. ASSUME NEW q \in Pcb, Poll(q)
        PROVE  FALSE
    <2>1. conn[q].arg \in Slot /\ slots[conn[q].arg].pcb = q
      BY <1>6, ConnFacts DEF Poll
    <2>2. \/ conn' = [conn EXCEPT ![q] = conn[q]]
          \/ \E w \in {0, 1} : conn' = [conn EXCEPT ![q] = [conn[q] EXCEPT !.flight = @ + w]]
          \/ conn' = [conn EXCEPT ![q] = NoConn]
      BY <1>6, <2>1 DEF Poll, Becomes, Now
    <2>3. \/ conn'[p] = conn[p] \/ conn'[p] = NoConn
          \/ \E w \in {0, 1} : conn'[p] = [conn[p] EXCEPT !.flight = @ + w]
      BY <1>2, <2>2
    <2> QED
      BY <1>1, <1>3, <2>3 DEF NoConn, ConnRecord
  <1>7. ASSUME Loop
        PROVE  FALSE
    <2>1. ~slots[s].pending
      BY <1>1 DEF Occupied, Request
    <2> DEFINE waiting == {r \in Slot : slots[r].pcb # Null /\ slots[r].pending}
    <2>2. PICK now : conn' = [x \in Pcb |->
                                IF InSlot(x) /\ conn[x].arg \in waiting
                                THEN now[conn[x].arg].conn ELSE conn[x]]
      BY <1>7, Zenon DEF Loop
    <2>3. conn[p].arg \notin waiting
      BY <2>1 DEF s
    <2> HIDE DEF waiting
    <2> QED
      BY <1>3, <2>2, <2>3
  <1>8. ASSUME SendMessage
        PROVE  FALSE
    <2>1. conn'[p] = conn[p] \/ conn'[p] = [conn[p] EXCEPT !.flight = @ + 1]
      BY <1>8 DEF SendMessage
    <2> QED
      BY <1>1, <1>3, <2>1 DEF ConnRecord
  <1>9. ASSUME NEW q \in Pcb, Sent(q)
        PROVE  conn[p].out = [i \in 1 .. Total(conn[p].kind) |-> i]
    <2>1. conn[q].arg \in Slot /\ slots[conn[q].arg].pcb = q
      BY <1>9, ConnFacts DEF Sent
    <2>2. \E c : conn' = [conn EXCEPT ![q] = c]
      BY <1>9, <2>1 DEF Sent, Becomes, Finish
    <2>3. q = p
      BY <1>2, <1>3, <2>2
    <2>4. PICK n \in 1 .. conn[p].flight :
            LET slot == [slots[s] EXCEPT !.polls = 0]
                c == [conn[p] EXCEPT !.flight = @ - n]
                left == IF slot.streaming THEN slot.sent < FileSize
                                          ELSE slot.next < Total(slot.kind)
            IN \/ slot.state # "send" /\ Becomes(s, Now(slot, c))
               \/ /\ slot.state = "send" /\ slot.streaming /\ left
                  /\ \E now \in SendStreamChunk(slot, c) : Becomes(s, now)
               \/ /\ slot.state = "send" /\ ~slot.streaming /\ left
                  /\ \E now \in SendChunk(slot, c) : Becomes(s, now)
               \/ slot.state = "send" /\ ~left /\ Finish(s)
      BY <1>9, <2>3 DEF Sent, s
    <2> DEFINE slot == [slots[s] EXCEPT !.polls = 0]
               c == [conn[p] EXCEPT !.flight = @ - n]
    <2>5. slot \in SlotRecord /\ slot.state = slots[s].state /\ slot.kind = slots[s].kind
          /\ slot.streaming = slots[s].streaming /\ slot.sent = slots[s].sent
          /\ slot.next = slots[s].next
      BY <1>1, Zeros DEF SlotRecord
    <2>6. c.st = "open"
      BY <1>1 DEF ConnRecord
    <2>7. \A now : Becomes(s, now) => conn'[p] = now.conn
      BY <1>1, <1>2 DEF Becomes
    <2>8. c \in ConnRecord
      <3>1. conn[p].flight \in 0 .. Window
        BY <1>1 DEF ConnRecord
      <3>2. conn[p].flight - n \in 0 .. Window
        BY <3>1, Zeros
      <3> QED
        BY <1>1, <3>2 DEF ConnRecord
    <2>9. \A now \in SendStreamChunk(slot, c) \cup SendChunk(slot, c) : now.conn.st = c.st
      BY <2>5, <2>8, SendingStays
    <2>10. Now(slot, c).conn = c
      BY DEF Now
    <2>11. ~(IF slot.streaming THEN slot.sent < FileSize
                               ELSE slot.next < Total(slot.kind))
      <3> DEFINE left == IF slot.streaming THEN slot.sent < FileSize
                                           ELSE slot.next < Total(slot.kind)
      <3>1. \/ Becomes(s, Now(slot, c))
            \/ left /\ \E now \in SendStreamChunk(slot, c) : Becomes(s, now)
            \/ left /\ \E now \in SendChunk(slot, c) : Becomes(s, now)
            \/ ~left
        BY <2>4
      <3> HIDE DEF slot, c
      <3> QED
        BY <1>3, <2>6, <2>7, <2>9, <2>10, <3>1
    <2>12. /\ conn[p].out = [i \in 1 .. Progress(slots[s]) |-> i]
           /\ slots[s].streaming = (slots[s].kind = "file")
           /\ slots[s].next <= Total(slots[s].kind) /\ slots[s].kind = conn[p].kind
      BY <1>1 DEF Occupied, Request, Answer
    <2>13. slots[s].sent \in 0 .. FileSize /\ slots[s].next \in 0 .. PageLen
      BY <1>1 DEF SlotRecord
    <2>14. Progress(slots[s]) = Total(slots[s].kind)
      <3> HIDE DEF slot, c
      <3>1. CASE slots[s].streaming
        <4>1. ~(slots[s].sent < FileSize) /\ Total(slots[s].kind) = FileSize
          BY <2>5, <2>11, <2>12, <3>1 DEF Total
        <4> QED
          BY <2>13, <3>1, <4>1, Zeros DEF Progress
      <3>2. CASE ~slots[s].streaming
        BY <2>5, <2>11, <2>12, <2>13, <3>2, Lengths DEF Progress
      <3> QED
        BY <3>1, <3>2
    <2> QED
      BY <2>12, <2>14
  <1> QED
    BY <1>4, <1>5, <1>6, <1>7, <1>8, <1>9 DEF Next

\* The server ends no answer before its body is out, whole and in order, but
\* where tcp_write() has refused a header or a chunk of a file.
THEOREM WholeAnswers == Spec => AnswersWhole
  <1>1. ASSUME IInv, [Next]_vars
        PROVE  \A p \in Pcb :
                 /\ InSlot(p) /\ slots[conn[p].arg].state = "send"
                 /\ conn'[p].st = "closed" /\ ~conn'[p].fin
                 /\ ~conn[p].lost
                 => conn[p].out = [i \in 1 .. Total(conn[p].kind) |-> i]
    <2>1. CASE Next
      BY <1>1, <2>1, ClosingStep
    <2>2. CASE UNCHANGED vars
      BY <1>1, <2>2, ConnFacts DEF vars
    <2> QED
      BY <1>1, <2>1, <2>2
  <1> QED
    BY Invariance, <1>1, PTL DEF Spec, AnswersWhole
=============================================================================
