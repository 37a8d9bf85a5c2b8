------------------------------ MODULE Webserver ------------------------------
(***************************************************************************)
(* Webserver/Webserver_RP2040.cpp: MAX_CONN slots on lwIP.  A connection   *)
(* gets a slot in onAccept() and keeps a pointer to it as its tcp_arg;     *)
(* lwIP calls onRecv(), onSent(), onPoll() and onErr() with that pointer   *)
(* between two calls of the firmware.  onRecv() only marks a whole         *)
(* request; Webserver::loop() answers it.  Lengths are counted in units: a *)
(* response header, a WebSocket frame and a chunk of a file are one each.  *)
(***************************************************************************)
EXTENDS Integers, Sequences, FiniteSets

CONSTANTS
    Pcb,        \* addresses lwIP has for connections
    Null,       \* nullptr
    MaxConn,    \* OPENKNX_WEBSERVER_MAX_CONN
    RxCap,      \* OPENKNX_WEBSERVER_RX_CAP, in segments
    Window,     \* TCP_SND_BUF
    PollLimit,  \* polls without progress before an HTTP connection is aborted
    PingPolls,  \* polls between two pings on a WebSocket
    PageEnds,   \* where the segments of a page end: header, body, footer
    FileSize,   \* chunks of a file
    BodyLen,    \* Content-Length of an upload
    Kinds,      \* kinds of request, see Whole
    Refuses,    \* tcp_write() may fail, the file may end early
    MaxTalk     \* bound: segments a peer sends over one connection

ASSUME WebserverAssumption ==
    /\ Null \notin Pcb \cup Nat /\ MaxConn \in Nat \ {0} /\ RxCap \in Nat \ {0}
    /\ Window \in Nat \ {0} /\ PollLimit \in Nat /\ PingPolls \in Nat \ {0}
    /\ PageEnds \subseteq Nat \ {0} /\ IsFiniteSet(PageEnds) /\ PageEnds # {}
    /\ FileSize \in Nat /\ BodyLen \in Nat \ {0}
    /\ Kinds \subseteq {"page", "file", "upload", "huge", "long", "socket", "nosocket"}
    /\ Refuses \in BOOLEAN /\ MaxTalk \in Nat

Slot == 0 .. MaxConn - 1

VARIABLES
    slots,   \* g_slots with g_response
    conn,    \* of each pcb: lwIP's side, and the peer's
    clients, \* WebSocketRoute::clients: how many entries each slot has
    files    \* open files behind WebStreamReadFn

vars == <<slots, conn, clients, files>>

\* kind: the parsed request; got: bodyReceived; next: txSegIdx and txSent as
\* one position in the response; read: position of the open file.
EmptySlot ==
    [pcb |-> Null, state |-> "recv", polls |-> 0, rx |-> 0, kind |-> "none",
     pending |-> FALSE, waiting |-> FALSE, body |-> FALSE, got |-> 0,
     next |-> 0, streaming |-> FALSE, read |-> 0, sent |-> 0]

\* st: "refused" is closed as well, by the 404 for a WebSocket; "robbed" is
\* open, but the slot was given up on another connection's behalf.
\* flight: written and not yet acknowledged.  The rest are ghosts: the request
\* of the peer, body units it has yet to send (rest) or that found no room in
\* rxBuf (cut), calls of the handler, body units written, whether a header or
\* a chunk was refused by tcp_write(), and the segments the peer sent.
NoConn ==
    [st |-> "none", arg |-> Null, flight |-> 0, fin |-> FALSE,
     kind |-> "none", rest |-> 0, cut |-> 0, served |-> 0, out |-> <<>>,
     lost |-> FALSE, talk |-> 0]

Init ==
    /\ slots = [s \in Slot |-> EmptySlot]
    /\ conn = [p \in Pcb |-> NoConn]
    /\ clients = [s \in Slot |-> 0] /\ files = 0

Free == {s \in Slot : slots[s].pcb = Null}

\* The connection p is the one in the slot its tcp_arg points to.
InSlot(p) == conn[p].arg # Null /\ slots[conn[p].arg].pcb = p

-----------------------------------------------------------------------------
(* releaseSlot(), notifySocketConnect() and the ways to close.             *)

\* Mutant: the file is not closed with its slot.
ReleasedKeepsStream(slot) ==
    [slot EXCEPT !.pcb = Null, !.next = 0, !.body = FALSE, !.polls = 0,
                 !.rx = 0, !.got = 0, !.waiting = FALSE,
                 !.kind = "none", !.read = 0, !.sent = 0]

\* releaseSlot().  The state, which a late onErr() still looks at, and a pending
\* mark stay as they are; what only onAccept() touches next is cleared here.
Released(slot) ==
    [slot EXCEPT !.pcb = Null, !.next = 0, !.body = FALSE, !.streaming = FALSE,
                 !.polls = 0, !.rx = 0, !.got = 0, !.waiting = FALSE,
                 !.kind = "none", !.read = 0, !.sent = 0]

Release(s) ==
    /\ slots' = [slots EXCEPT ![s] = Released(@)]
    /\ files' = IF slots[s].streaming THEN files - 1 ELSE files

\* tcp_arg(nullptr) and so on, then tcp_close(): lwIP sends what is left and
\* keeps the pcb until the peer has closed too.
Closed(c) == [NoConn EXCEPT !.st = "closed", !.fin = c.fin]

\* notifySocketConnect(false): std::remove takes every entry of the slot.
Disconnected(s) == [clients EXCEPT ![s] = 0]

\* onClose(), s->state deciding whether a WebSocket ends.
OnClose(s) ==
    /\ Release(s)
    /\ clients' = IF slots[s].state = "ws" THEN Disconnected(s) ELSE clients

\* The server's own way to end the connection in slot s.
Finish(s) ==
    LET p == slots[s].pcb IN
    /\ conn' = [conn EXCEPT ![p] = Closed(@)]
    /\ Release(s)
    /\ UNCHANGED <<clients>>

-----------------------------------------------------------------------------
(* onAccept().                                                             *)

\* Mutant: the slot is not cleared for its next connection.
AcceptKeepsSlot(p) ==
    /\ conn[p].st = "none" /\ Free # {}
    /\ LET s == CHOOSE i \in Free : \A j \in Free : i <= j IN
        /\ slots' = [slots EXCEPT ![s].pcb = p, ![s].state = "recv"]
        /\ conn' = [conn EXCEPT ![p] = [NoConn EXCEPT !.st = "open", !.arg = s]]
    /\ UNCHANGED <<clients, files>>

\* The first free slot is cleared and taken; without one tcp_abort() leaves
\* no trace of the connection.
Accept(p) ==
    /\ conn[p].st = "none" /\ Free # {}
    /\ LET s == CHOOSE i \in Free : \A j \in Free : i <= j IN
        /\ slots' = [slots EXCEPT ![s] = [EmptySlot EXCEPT !.pcb = p]]
        /\ conn' = [conn EXCEPT ![p] = [NoConn EXCEPT !.st = "open", !.arg = s]]
    /\ UNCHANGED <<clients, files>>

-----------------------------------------------------------------------------
(* onRecv().  A callback for a pcb that is not the one in the slot it      *)
(* points to returns at once ("stale callback from a reused slot") and is  *)
(* no step.                                                                *)

\* lwIP hands over a segment of p, which is in its slot s; "said" is what the
\* peer has told with it.
Talks(p, s) ==
    /\ conn[p].st = "open" /\ ~conn[p].fin /\ InSlot(p)
    /\ s = conn[p].arg
    /\ conn[p].talk < MaxTalk

Said(p, c) == [conn EXCEPT ![p] = [c EXCEPT !.talk = @ + 1]]

\* Bytes that complete no header: the request goes on, or something follows
\* one that is whole already.  A full rxBuf is answered with 431.
RecvPart(p, s) ==
    /\ Talks(p, s) /\ slots[s].state = "recv" /\ ~slots[s].waiting
    /\ IF slots[s].rx + 1 >= RxCap
       THEN Finish(s)
       ELSE /\ slots' = [slots EXCEPT ![s].rx = @ + 1, ![s].polls = 0]
            /\ conn' = Said(p, conn[p])
            /\ UNCHANGED <<clients, files>>

\* Requests that are whole with their header.
Whole == Kinds \cap {"page", "file", "socket", "nosocket"}

RecvRequest(p, s) ==
    /\ Talks(p, s) /\ slots[s].state = "recv" /\ conn[p].kind = "none"
    /\ \E kind \in Whole :
        /\ slots' = [slots EXCEPT ![s].kind = kind, ![s].pending = TRUE,
                                  ![s].rx = @ + 1, ![s].polls = 0]
        /\ conn' = Said(p, [conn[p] EXCEPT !.kind = kind])
    /\ UNCHANGED <<clients, files>>

\* 414 for a URI, 413 for a body that is too long.
Refused == Kinds \cap {"long", "huge"}

RecvRefused(p, s) ==
    /\ Talks(p, s) /\ slots[s].state = "recv" /\ conn[p].kind = "none"
    /\ Refused # {}
    /\ Finish(s)

\* The header of an upload, followed in the same segment by b units of its
\* body, of which only k fit into rxBuf.  The rest is awaited in a buffer.
RecvUpload(p, s) ==
    /\ Talks(p, s) /\ slots[s].state = "recv" /\ conn[p].kind = "none"
    /\ "upload" \in Kinds
    /\ \E b \in 0 .. BodyLen : \E k \in 0 .. b :
        /\ slots' = [slots EXCEPT ![s] = [slots[s] EXCEPT
               !.kind = "upload", !.rx = @ + 1, !.polls = 0, !.got = k,
               !.pending = (k = BodyLen), !.waiting = (k < BodyLen),
               !.body = (k < BodyLen)]]
        /\ conn' = Said(p, [conn[p] EXCEPT !.kind = "upload",
                                !.rest = BodyLen - b, !.cut = b - k])
    /\ UNCHANGED <<clients, files>>

\* No memory for that buffer: closed without an answer.
RecvUploadNoMemory(p, s) ==
    /\ Talks(p, s) /\ slots[s].state = "recv" /\ conn[p].kind = "none"
    /\ "upload" \in Kinds
    /\ Finish(s)

\* More of the body, never copied beyond contentLength.
RecvBody(p, s) ==
    /\ Talks(p, s) /\ slots[s].state = "recv" /\ slots[s].waiting
    /\ conn[p].rest > 0
    /\ LET got == slots[s].got + 1 IN
        slots' = [slots EXCEPT ![s] = [@ EXCEPT !.got = got, !.polls = 0,
                      !.waiting = (got < BodyLen), !.pending = (got = BodyLen)]]
    /\ conn' = Said(p, [conn[p] EXCEPT !.rest = @ - 1])
    /\ UNCHANGED <<clients, files>>

\* While an answer is being sent, data only counts as a sign of life.
RecvIgnored(p, s) ==
    /\ Talks(p, s) /\ slots[s].state = "send"
    /\ slots' = [slots EXCEPT ![s].polls = 0]
    /\ conn' = Said(p, conn[p])
    /\ UNCHANGED <<clients, files>>

\* wsProcessData(): frames up to a close.  A ping is answered by a pong and a
\* message may be by its handler, as far as the send buffer has room.
RecvFrames(p, s) ==
    /\ Talks(p, s) /\ slots[s].state = "ws"
    /\ slots' = [slots EXCEPT ![s].polls = 0]
    /\ \E w \in {0, 1} :
        /\ conn[p].flight + w <= Window
        /\ conn' = Said(p, [conn[p] EXCEPT !.flight = @ + w])
    /\ UNCHANGED <<clients, files>>

\* A close frame ends the connection, frames behind it are not looked at.
RecvClose(p, s) ==
    /\ Talks(p, s) /\ slots[s].state = "ws"
    /\ clients' = Disconnected(s)
    /\ Release(s)
    /\ conn' = [conn EXCEPT ![p] = Closed(@)]

\* The peer closes its side: p == nullptr.
RecvFin(p, s) ==
    /\ conn[p].st = "open" /\ ~conn[p].fin /\ InSlot(p)
    /\ s = conn[p].arg
    /\ OnClose(s)
    /\ conn' = [conn EXCEPT ![p] = Closed([@ EXCEPT !.fin = TRUE])]

-----------------------------------------------------------------------------
(* Sending: tcpSendChunk() and tcpSendStreamChunk().                       *)

Least(a, b) == IF a < b THEN a ELSE b

PageLen == CHOOSE n \in PageEnds : \A e \in PageEnds : e <= n

\* Length of the body handleRequest() builds or opens; other answers have none.
Total(kind) == CASE kind = "page" -> PageLen
                 [] kind = "file" -> FileSize
                 [] OTHER -> 0

Now(slot, c) == [slot |-> slot, conn |-> c]

\* tcpSendChunk() on a slot and its connection, and what may become of them:
\* as much is written as the send buffer takes.  One tcp_write() reaches to
\* the end of a segment, so one that is refused leaves the position at such
\* an end or where it was.
SendChunk(slot, c) ==
    LET most == Least(Total(slot.kind) - slot.next, Window - c.flight)
        refused == {k \in 0 .. most - 1 : k = 0 \/ slot.next + k \in PageEnds}
    IN {Now([slot EXCEPT !.next = @ + k],
            [c EXCEPT !.flight = @ + k,
                      !.out = @ \o [i \in 1 .. k |-> slot.next + i]]) :
          k \in {most} \cup (IF Refuses THEN refused ELSE {})}

\* tcpSendStreamChunk(): one chunk is read and written.  The end of the file,
\* which may come early, counts as sent; a chunk that tcp_write() refuses has
\* been read all the same.
SendStreamChunk(slot, c) ==
    LET written == Now([slot EXCEPT !.read = @ + 1, !.sent = @ + 1],
                       [c EXCEPT !.flight = @ + 1, !.out = Append(@, slot.read + 1)])
        refused == Now([slot EXCEPT !.read = @ + 1], [c EXCEPT !.lost = TRUE])
        ended   == Now([slot EXCEPT !.sent = FileSize],
                       [c EXCEPT !.lost = @ \/ slot.read < FileSize])
    IN CASE slot.sent >= FileSize \/ c.flight = Window -> {Now(slot, c)}
         [] slot.sent < FileSize /\ c.flight < Window ->
              {x \in {written, refused, ended} :
                  /\ x # ended => slot.read < FileSize
                  /\ x = refused \/ (x = ended /\ slot.read < FileSize) => Refuses}

\* What a step makes of slot s and the connection in it.
Becomes(s, now) ==
    /\ slots' = [slots EXCEPT ![s] = now.slot]
    /\ conn' = [conn EXCEPT ![slots[s].pcb] = now.conn]
    /\ UNCHANGED <<clients, files>>

\* Mutant: the first acknowledgement ends the connection.
SentFinishesEarly(p) ==
    /\ conn[p].flight > 0 /\ InSlot(p)
    /\ slots[conn[p].arg].state = "send"
    /\ Finish(conn[p].arg)

\* onSent(): the peer has acknowledged n units.  Going on or, when all is
\* written, closing.
Sent(p) ==
    /\ conn[p].flight > 0 /\ InSlot(p)
    /\ \E n \in 1 .. conn[p].flight :
        LET s == conn[p].arg
            slot == [slots[s] EXCEPT !.polls = 0]
            c == [conn[p] EXCEPT !.flight = @ - n]
            left == IF slot.streaming THEN slot.sent < FileSize
                                      ELSE slot.next < Total(slot.kind)
        IN \/ slot.state # "send" /\ Becomes(s, Now(slot, c))
           \/ /\ slot.state = "send" /\ slot.streaming /\ left
              /\ \E now \in SendStreamChunk(slot, c) : Becomes(s, now)
           \/ /\ slot.state = "send" /\ ~slot.streaming /\ left
              /\ \E now \in SendChunk(slot, c) : Becomes(s, now)
           \/ slot.state = "send" /\ ~left /\ Finish(s)

-----------------------------------------------------------------------------
(* onPoll(), onErr() and the end of a pcb.                                 *)

\* Mutant: an answer that stalls is waited for.
PollSpares(p) ==
    /\ InSlot(p)
    /\ LET s == conn[p].arg
           polls == slots[s].polls + 1
       IN /\ slots[s].state = "recv"
          /\ IF polls > PollLimit
             THEN OnClose(s) /\ conn' = [conn EXCEPT ![p] = NoConn]
             ELSE Becomes(s, Now([slots[s] EXCEPT !.polls = polls], conn[p]))

\* A WebSocket is pinged now and then; an HTTP connection without progress is
\* aborted, which calls onErr() with the pointer cleared before.
Poll(p) ==
    /\ InSlot(p)
    /\ LET s == conn[p].arg
           polls == slots[s].polls + 1
           ws == slots[s].state = "ws"
       IN \/ /\ IF ws THEN polls < PingPolls ELSE polls <= PollLimit
             /\ Becomes(s, Now([slots[s] EXCEPT !.polls = polls], conn[p]))
          \/ /\ ws /\ polls >= PingPolls
             /\ \E w \in {0, 1} :
                 /\ conn[p].flight + w <= Window
                 /\ Becomes(s, Now([slots[s] EXCEPT !.polls = 0],
                                   [conn[p] EXCEPT !.flight = @ + w]))
          \/ /\ ~ws /\ polls > PollLimit
             /\ OnClose(s)
             /\ conn' = [conn EXCEPT ![p] = NoConn]

\* onErr(): reset by the peer, or lwIP has given up.  The pcb is gone; its
\* pointer is all there is to find the slot, whoever is in it by now.
Err(p) ==
    /\ conn[p].st # "none"
    /\ IF conn[p].arg = Null
       THEN /\ conn' = [conn EXCEPT ![p] = NoConn]
            /\ UNCHANGED <<slots, clients, files>>
       ELSE LET q == slots[conn[p].arg].pcb IN
            /\ OnClose(conn[p].arg)
            /\ conn' = [x \in Pcb |->
                   CASE x = p -> NoConn
                     [] x = q /\ q # p /\ conn[p].st \in {"refused", "robbed"}
                          -> [NoConn EXCEPT !.st = "robbed", !.arg = conn[p].arg]
                     [] OTHER -> conn[x]]

\* A closed connection ends in order, without a callback.
Gone(p) ==
    /\ conn[p].st \in {"closed", "refused"}
    /\ conn' = [conn EXCEPT ![p] = NoConn]
    /\ UNCHANGED <<slots, clients, files>>

-----------------------------------------------------------------------------
(* Webserver::loop(), doHttpDispatch() and what other modules send.        *)

\* The header of the answer, which tcp_write() may refuse unnoticed.
Answered(s) ==
    {[conn[slots[s].pcb] EXCEPT !.served = @ + 1, !.lost = ~ok,
                                !.flight = IF ok THEN @ + 1 ELSE @] :
       ok \in {TRUE} \cup (IF Refuses THEN {FALSE} ELSE {})}

\* doHttpDispatch() on slot s: its request is taken and the header of the
\* answer written, unless tcp_write() refuses it.  A WebSocket is open then; a
\* page starts with what fits, a file with its first chunk.  An upgrade to an
\* unknown WebSocket, or with a key that is too long, is closed and its slot
\* released, but tcp_arg stays as it is.
Dispatch(s) ==
    LET Taken(state) == [slots[s] EXCEPT !.pending = FALSE, !.state = state]
    IN CASE slots[s].kind = "nosocket" ->
              {Now(Released(Taken("recv")),
                   [NoConn EXCEPT !.st = "refused", !.arg = s])}
         [] slots[s].kind = "socket" -> {Now(Taken("ws"), c) : c \in Answered(s)}
         [] slots[s].kind = "file" ->
              UNION {SendStreamChunk([Taken("send") EXCEPT !.streaming = TRUE], c) :
                        c \in Answered(s)}
         [] OTHER -> UNION {SendChunk(Taken("send"), c) : c \in Answered(s)}

\* loop() answers every request that waits, slot by slot.  A call that finds
\* none changes nothing.
Loop ==
    LET waiting == {s \in Slot : slots[s].pcb # Null /\ slots[s].pending}
        In(kind) == {s \in waiting : slots[s].kind = kind}
    IN /\ waiting # {}
       /\ \E now \in [waiting -> UNION {Dispatch(s) : s \in waiting}] :
            /\ \A s \in waiting : now[s] \in Dispatch(s)
            /\ slots' = [s \in Slot |->
                           IF s \in waiting THEN now[s].slot ELSE slots[s]]
            /\ conn' = [p \in Pcb |->
                          IF InSlot(p) /\ conn[p].arg \in waiting
                          THEN now[conn[p].arg].conn ELSE conn[p]]
       /\ clients' = [s \in Slot |->
                        IF s \in In("socket") THEN clients[s] + 1 ELSE clients[s]]
       /\ files' = files + Cardinality(In("file"))

\* Mutant: the room in the send buffer is not looked at.
SendMessageAnyway ==
    /\ \E s \in Slot :
        /\ clients[s] > 0
        /\ conn' = [conn EXCEPT ![slots[s].pcb].flight = @ + 1]
    /\ UNCHANGED <<slots, clients, files>>

\* wsTcpSend() writes a frame as a whole or not at all.
HasRoom(p) == conn[p].flight < Window

\* sendWebsocketMessage() to all and sendToClient() to one: the clients whose
\* send buffer takes the frame.
SendMessage ==
    /\ LET room == {fd \in Slot :
                       /\ clients[fd] > 0
                       /\ slots[fd].pcb # Null /\ slots[fd].state = "ws"
                       /\ HasRoom(slots[fd].pcb)}
       IN \E to \in SUBSET room \ {{}} :
            conn' = [p \in Pcb |->
                       IF \E fd \in to : slots[fd].pcb = p
                       THEN [conn[p] EXCEPT !.flight = @ + 1] ELSE conn[p]]
    /\ UNCHANGED <<slots, clients, files>>

-----------------------------------------------------------------------------
Recv(p) ==
    \E s \in Slot :
        \/ RecvPart(p, s) \/ RecvRequest(p, s) \/ RecvRefused(p, s)
        \/ RecvUpload(p, s) \/ RecvUploadNoMemory(p, s) \/ RecvBody(p, s)
        \/ RecvIgnored(p, s) \/ RecvFrames(p, s) \/ RecvClose(p, s)
        \/ RecvFin(p, s)

Next ==
    \/ \E p \in Pcb : Accept(p) \/ Recv(p) \/ Sent(p) \/ Poll(p) \/ Err(p) \/ Gone(p)
    \/ Loop
    \/ SendMessage

Spec == Init /\ [][Next]_vars

\* lwIP's timer polls every connection again and again.  Nothing is assumed of
\* the peers, and nothing of loop().
FairSpec == Spec /\ \A p \in Pcb : WF_vars(Poll(p))

-----------------------------------------------------------------------------
SlotRecord ==
    [pcb : Pcb \cup {Null}, state : {"recv", "send", "ws"},
     polls : 0 .. PollLimit + PingPolls, rx : 0 .. RxCap,
     kind : Kinds \cup {"none"},
     pending : BOOLEAN, waiting : BOOLEAN, body : BOOLEAN,
     got : 0 .. BodyLen, next : 0 .. PageLen, streaming : BOOLEAN,
     read : 0 .. FileSize, sent : 0 .. FileSize]

ConnRecord ==
    [st : {"none", "open", "closed", "refused", "robbed"}, arg : Slot \cup {Null},
     flight : 0 .. Window, fin : BOOLEAN, kind : Kinds \cup {"none"},
     rest : 0 .. BodyLen, cut : 0 .. BodyLen, served : Nat,
     out : Seq(Nat), lost : BOOLEAN, talk : 0 .. MaxTalk]

\* Every variable has its type.
TypeOK ==
    /\ slots \in [Slot -> SlotRecord] /\ conn \in [Pcb -> ConnRecord]
    /\ clients \in [Slot -> Nat] /\ files \in 0 .. MaxConn

\* Whatever way a connection ends, its slot goes back empty: no body buffer,
\* no open file, no place in the list of WebSocket clients is left behind,
\* and none is given up twice.  The pointer of a connection leads to its own
\* slot for as long as it is open and is cleared when it is closed, so that no
\* late event reaches the slot's next connection -- but for those that follow
\* a refused WebSocket.
SlotOwnership ==
    /\ \A s \in Free : ~slots[s].body /\ ~slots[s].streaming /\ slots[s].next = 0
    /\ files = Cardinality({s \in Slot : slots[s].streaming})
    /\ \A s \in Slot :
          clients[s] = IF slots[s].pcb # Null /\ slots[s].state = "ws" THEN 1 ELSE 0
    /\ \A p \in Pcb :
          /\ conn[p].st = "open" => InSlot(p)
          /\ conn[p].st = "closed" => conn[p].arg = Null

\* No lwIP event of one connection gives up the slot of another one: the
\* callbacks are taken off first (Webserver_RP2040.cpp:731).
NobodyRobbed == \A p \in Pcb : conn[p].st # "robbed"

\* A whole request stays marked until loop() has answered it, and it is
\* answered once, as that connection's own; one that is not whole never.
RequestsOnce ==
    \A p \in Pcb : InSlot(p) =>
        LET whole == conn[p].kind # "none" /\ conn[p].rest = 0 /\ conn[p].cut = 0
            slot == slots[conn[p].arg]
        IN /\ slot.pending \/ conn[p].served > 0 => whole /\ slot.kind = conn[p].kind
           /\ whole => slot.pending # (conn[p].served = 1)
           /\ conn[p].served <= 1

\* The server ends an answer only when its body is out, in order and without
\* a gap, over any sequence of acknowledgements and full buffers; except that
\* a header or a chunk of a file refused by tcp_write() is not sent again.
AnswersWhole ==
    [][\A p \in Pcb :
         /\ InSlot(p) /\ slots[conn[p].arg].state = "send"
         /\ conn'[p].st = "closed" /\ ~conn'[p].fin
         /\ ~conn[p].lost
         => conn[p].out = [i \in 1 .. Total(conn[p].kind) |-> i]]_vars

\* No HTTP connection keeps its slot for ever, whether its peer falls silent
\* in the request, in its body, or does not take the answer.  (In the answer
\* whatever a peer sends counts as progress: MaxTalk bounds it.)
HttpSlotFreed ==
    \A s \in Slot : []<>(slots[s].pcb = Null \/ slots[s].state = "ws")
=============================================================================
