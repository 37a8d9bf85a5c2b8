------------------------------ MODULE Webclient -----------------------------
(***************************************************************************)
(* Webclient/Handler.cpp on RP2040: SLOTS requests run at a time, the rest *)
(* wait in the deque _pending.  enqueue(), startSlot(), finishSlot() and   *)
(* startNextPending() call each other, and onDone callbacks send further   *)
(* requests from inside; the calls in progress are the frames of "stack",  *)
(* its first element the innermost.  loop() runs processSlot() for every   *)
(* slot; lwIP and the DNS answer come in between calls.                    *)
(***************************************************************************)
EXTENDS Integers, Sequences, FiniteSets

CONSTANTS
    Request,   \* requests a user sends
    None,      \* no request
    Slots,     \* OPENKNX_WEBCLIENT_SLOTS
    Urls,      \* kinds of URL: "ip", "name", "bad"
    Ssl,       \* which of http (FALSE) and https (TRUE) are used
    Segments,  \* what a server's segment can hold, see processSlot()
    StartFaults, \* what may fail inside startSlot(): "memory", "connect", "dns"
    FrontFails, \* the start of a request that waited can fail too
    MaxDepth   \* bound: frames on the call stack

WebclientAssumption ==
    /\ Slots \in Nat \ {0} /\ MaxDepth \in Nat
    /\ None \notin Request
    /\ Urls \subseteq {"ip", "name", "bad"}
    /\ Ssl \subseteq BOOLEAN
    /\ Segments \subseteq {"part", "bad", "nobody", "length", "close",
                           "data", "last", "over"}
    /\ StartFaults \subseteq {"memory", "connect", "dns"}
    /\ FrontFails \in BOOLEAN

Slot == 0 .. Slots - 1

VARIABLES
    slots,   \* _slots: state, request, requestId, buffers, callback, ...
    tcp,     \* of each slot: tcpPcb, tcpConnEst, tcpError, the pbuf chain
    pending, \* _pending; cb: the element still holds its onDone
    nextId,  \* _nextRequestId
    dns,     \* DNS queries under way
    due,     \* slots older than OPENKNX_WEBCLIENT_TIMEOUT
    online,  \* loop() gets to webclient.loop(): established(), no power save
    stack,   \* calls in progress
    url,     \* the kind of URL of each request, "new" before it is sent
    started, \* how often each request took a slot (ghost)
    answers, \* how often each request's onDone was called (ghost)
    wild     \* pop_front() was called on an empty deque (ghost)

ghosts == <<started, answers, wild>>
vars   == <<slots, tcp, pending, nextId, dns, due, online, stack, url, ghosts>>

EmptySlot == [state |-> "IDLE", req |-> None, id |-> 0, bufs |-> FALSE,
              cb |-> FALSE, ssl |-> FALSE, framing |-> "none"]

\* What platformClose() leaves.
NoTcp     == [pcb |-> FALSE, est |-> FALSE, err |-> FALSE, rx |-> <<>>]

Init ==
    /\ slots = [i \in Slot |-> EmptySlot] /\ tcp = [i \in Slot |-> NoTcp]
    /\ pending = <<>> /\ nextId = 1 /\ dns = {} /\ due = {}
    /\ online = FALSE
    /\ stack = <<>>
    /\ url = [r \in Request |-> "new"]
    /\ started = [r \in Request |-> 0]
    /\ answers = [r \in Request |-> 0] /\ wild = FALSE

\* The frames.  "start" has its request at hand, "startFront" reads it from
\* the front of _pending, where startNextPending() leaves it meanwhile.
Enqueue(r)      == [op |-> "enqueue", req |-> r, slot |-> 0, res |-> "none"]
StartSlot(i, r) == [op |-> "start", req |-> r, slot |-> i, res |-> "none"]
StartFront(i)   == [op |-> "startFront", req |-> None, slot |-> i, res |-> "none"]
OnDone(r, res)  == [op |-> "done", req |-> r, slot |-> 0, res |-> res]
Callback        == [op |-> "callback", req |-> None, slot |-> 0, res |-> "none"]
FinishSlot(i, res) == [op |-> "finish", req |-> None, slot |-> i, res |-> res]
StartNext       == [op |-> "next", req |-> None, slot |-> 0, res |-> "none"]
PopFront        == [op |-> "pop", req |-> None, slot |-> 0, res |-> "none"]

Running(op) == stack # <<>> /\ stack[1].op = op /\ ~wild
AtTop       == stack = <<>> /\ ~wild
Calls(s)    == stack' = s \o Tail(stack)

IdleSlots == {i \in Slot : slots[i].state = "IDLE"}
FirstIdle == CHOOSE i \in IdleSlots : \A j \in IdleSlots : i <= j

-----------------------------------------------------------------------------
(* Request::send() and Handler::enqueue().                                 *)

\* Without FrontFails users send an invalid URL only to a free slot.
MaySend(r, kind) ==
    /\ url[r] = "new"
    /\ kind = "bad" => FrontFails \/ IdleSlots # {}

Send(r, kind) ==
    /\ AtTop /\ MaySend(r, kind)
    /\ url' = [url EXCEPT ![r] = kind]
    /\ stack' = <<Enqueue(r)>>
    /\ UNCHANGED <<slots, tcp, pending, nextId, dns, due, online, ghosts>>

EnqueueStarts ==
    /\ Running("enqueue") /\ IdleSlots # {}
    /\ Calls(<<StartSlot(FirstIdle, stack[1].req)>>)
    /\ UNCHANGED <<slots, tcp, pending, nextId, dns, due, online, url, ghosts>>

EnqueueWaits ==
    /\ Running("enqueue") /\ IdleSlots = {}
    /\ pending' = Append(pending, [req |-> stack[1].req, cb |-> TRUE])
    /\ Calls(<<>>)
    /\ UNCHANGED <<slots, tcp, nextId, dns, due, online, url, ghosts>>

-----------------------------------------------------------------------------
(* startSlot().                                                            *)

Starting == (Running("start") \/ Running("startFront")) /\ Len(stack) <= MaxDepth

\* The request startSlot() was given, and whether it holds its onDone.
Given == IF stack[1].op = "start" THEN [req |-> stack[1].req, cb |-> TRUE]
         ELSE pending[1]

Fault(f)  == f \in StartFaults /\ (FrontFails \/ Running("start"))
CanRefuse == Fault("memory") \/ url[Given.req] = "bad"

\* Mutant: onDone is not called.
StartRefusedSilently ==
    /\ Starting /\ CanRefuse
    /\ slots' = [slots EXCEPT ![stack[1].slot] = EmptySlot]
    /\ Calls(<<StartNext>>)
    /\ tcp' = [tcp EXCEPT ![stack[1].slot] = NoTcp]
    /\ UNCHANGED <<pending, nextId, dns, due, online, url, ghosts>>

\* No buffers, or an invalid URL: onDone is called where it is, not moved.
StartRefused ==
    /\ Starting /\ CanRefuse
    /\ slots' = [slots EXCEPT ![stack[1].slot] = EmptySlot]
    /\ Calls((IF Given.cb THEN <<OnDone(Given.req, "failed")>> ELSE <<>>)
             \o <<StartNext>>)
    /\ tcp' = [tcp EXCEPT ![stack[1].slot] = NoTcp]
    /\ UNCHANGED <<pending, nextId, dns, due, online, url, ghosts>>

\* The slot takes the request over, callbacks included; an element left at
\* the front of _pending is from now on without them.
Take(i, state, ssl) ==
    /\ slots' = [slots EXCEPT ![i] = [EmptySlot EXCEPT
           !.state = state, !.req = Given.req, !.id = nextId, !.bufs = TRUE,
           !.cb = Given.cb, !.ssl = ssl]]
    /\ nextId' = nextId + 1
    /\ pending' = IF stack[1].op = "start" THEN pending
                  ELSE [pending EXCEPT ![1].cb = FALSE]
    /\ due' = due \ {i}
    /\ started' = [started EXCEPT ![Given.req] = @ + 1]
    /\ UNCHANGED <<online, url, answers, wild>>

\* platformConnect() succeeds.
Connects(i) == tcp' = [tcp EXCEPT ![i] = [NoTcp EXCEPT !.pcb = TRUE]]

\* The address is known at once: a literal, or dns_gethostbyname() has it.
StartConnects ==
    /\ Starting /\ url[Given.req] \in {"ip", "name"}
    /\ \E ssl \in Ssl : Take(stack[1].slot, "CONNECTING", ssl)
    /\ \/ Connects(stack[1].slot) /\ Calls(<<>>)
       \/ /\ Fault("connect")
          /\ Calls(<<FinishSlot(stack[1].slot, "failed")>>)
          /\ tcp' = [tcp EXCEPT ![stack[1].slot] = NoTcp]
    /\ UNCHANGED dns

\* The name has to be asked for, or dns_gethostbyname() fails inline.
StartResolves ==
    /\ Starting /\ url[Given.req] = "name"
    /\ \E ssl \in Ssl : Take(stack[1].slot, "RESOLVING", ssl)
    /\ \/ dns' = dns \cup {[slot |-> stack[1].slot, id |-> nextId]} /\ Calls(<<>>)
       \/ /\ Fault("dns")
          /\ Calls(<<FinishSlot(stack[1].slot, "failed")>>) /\ UNCHANGED dns
    /\ tcp' = [tcp EXCEPT ![stack[1].slot] = NoTcp]

-----------------------------------------------------------------------------
(* finishSlot() and startNextPending().                                    *)

\* Mutant: the result is not filled in.
FinishWithoutResult ==
    /\ Running("finish")
    /\ LET i == stack[1].slot IN
        /\ slots' = [slots EXCEPT ![i].state = "IDLE", ![i].bufs = FALSE,
                                  ![i].cb = FALSE]
        /\ tcp' = [tcp EXCEPT ![i].pcb = FALSE, ![i].rx = <<>>]
        /\ Calls((IF slots[i].cb THEN <<OnDone(slots[i].req, "none")>> ELSE <<>>)
                 \o <<StartNext>>)
    /\ UNCHANGED <<pending, nextId, dns, due, online, url, ghosts>>

\* Close, free, IDLE; then the callback, then the next pending request.
Finish ==
    /\ Running("finish")
    /\ LET i == stack[1].slot IN
        /\ slots' = [slots EXCEPT ![i].state = "IDLE", ![i].bufs = FALSE,
                                  ![i].cb = FALSE]
        /\ tcp' = [tcp EXCEPT ![i].pcb = FALSE, ![i].rx = <<>>]
        /\ Calls((IF slots[i].cb THEN <<OnDone(slots[i].req, stack[1].res)>> ELSE <<>>)
                 \o <<StartNext>>)
    /\ UNCHANGED <<pending, nextId, dns, due, online, url, ghosts>>

\* The call of the user's onDone.
Done ==
    /\ Running("done")
    /\ answers' = [answers EXCEPT ![stack[1].req] = @ + 1]
    /\ Calls(<<Callback>>)
    /\ UNCHANGED <<slots, tcp, pending, nextId, dns, due, online, url, started, wild>>

\* Inside it the user may send further requests.
CallbackSends ==
    /\ Running("callback")
    /\ \E s \in Request, kind \in Urls :
          /\ MaySend(s, kind)
          /\ url' = [url EXCEPT ![s] = kind]
          /\ stack' = <<Enqueue(s)>> \o stack
    /\ UNCHANGED <<slots, tcp, pending, nextId, dns, due, online, ghosts>>

CallbackReturns ==
    /\ Running("callback") /\ Calls(<<>>)
    /\ UNCHANGED <<slots, tcp, pending, nextId, dns, due, online, url, ghosts>>

\* The front element is started where it is and popped only afterwards.
NextStarts ==
    /\ Running("next") /\ pending # <<>> /\ IdleSlots # {}
    /\ Calls(<<StartFront(FirstIdle), PopFront>>)
    /\ UNCHANGED <<slots, tcp, pending, nextId, dns, due, online, url, ghosts>>

NextReturns ==
    /\ Running("next") /\ (pending = <<>> \/ IdleSlots = {})
    /\ Calls(<<>>)
    /\ UNCHANGED <<slots, tcp, pending, nextId, dns, due, online, url, ghosts>>

\* pop_front(); undefined on an empty deque, where the model stops.
Pop ==
    /\ Running("pop")
    /\ pending' = IF pending = <<>> THEN <<>> ELSE Tail(pending)
    /\ wild' = (pending = <<>>)
    /\ Calls(<<>>)
    /\ UNCHANGED <<slots, tcp, nextId, dns, due, online, url, started, answers>>

Machinery == \/ EnqueueStarts \/ EnqueueWaits \/ StartRefused \/ StartConnects
             \/ StartResolves \/ Finish \/ Done \/ CallbackReturns
             \/ NextStarts \/ NextReturns \/ Pop

-----------------------------------------------------------------------------
(* The answer of DNS::query(), a call from lwIP.                           *)

\* The callback checks that the slot still waits for this query; since no
\* other step leaves RESOLVING it always does (ResolvingHasQuery).
DnsAnswered(q) ==
    /\ AtTop /\ q \in dns
    /\ slots[q.slot].id = q.id /\ slots[q.slot].state = "RESOLVING"
    /\ dns' = dns \ {q}
    /\ \/ /\ Connects(q.slot)
          /\ slots' = [slots EXCEPT ![q.slot].state = "CONNECTING"]
          /\ UNCHANGED stack
       \/ /\ stack' = <<FinishSlot(q.slot, "failed")>>
          /\ UNCHANGED <<slots, tcp>>
    /\ UNCHANGED <<pending, nextId, due, online, url, ghosts>>

-----------------------------------------------------------------------------
(* loop(): processSlot() of slot i.  Without the network, or while power is *)
(* saved, the network module does not call it.                             *)

InState(i, state) == AtTop /\ online /\ slots[i].state = state /\ i \notin due

Ends(i, res) ==
    /\ stack' = <<FinishSlot(i, res)>>
    /\ UNCHANGED <<slots, pending, nextId, dns, due, online, url, ghosts>>

Goes(i, state) ==
    /\ slots' = [slots EXCEPT ![i].state = state]
    /\ UNCHANGED <<pending, nextId, dns, due, online, stack, url, ghosts>>

\* Mutant: a slot that is RESOLVING times out too.
TimeoutWhileResolving(i) ==
    /\ AtTop /\ online /\ slots[i].state # "IDLE" /\ i \in due
    /\ Ends(i, IF slots[i].state = "BODY" THEN "truncated" ELSE "failed")
    /\ UNCHANGED tcp

\* Mutant: only a slot that reads times out.
TimeoutWhileReading(i) ==
    /\ AtTop /\ online /\ slots[i].state \in {"HEADERS", "BODY"} /\ i \in due
    /\ Ends(i, IF slots[i].state = "BODY" THEN "truncated" ELSE "failed")
    /\ UNCHANGED tcp

\* Older than OPENKNX_WEBCLIENT_TIMEOUT: a request in BODY still succeeds,
\* marked incomplete; RESOLVING is left alone.
Timeout(i) ==
    /\ AtTop /\ online /\ slots[i].state \notin {"IDLE", "RESOLVING"} /\ i \in due
    /\ Ends(i, IF slots[i].state = "BODY" THEN "truncated" ELSE "failed")
    /\ UNCHANGED tcp

\* platformConnected(); a pbuf chain left over counts as connected.
Connected(t) == ~t.err /\ (t.pcb \/ t.rx # <<>>)

ProcessConnecting(i) ==
    /\ InState(i, "CONNECTING") /\ UNCHANGED tcp
    /\ \/ tcp[i].err /\ Ends(i, "failed")
       \/ ~tcp[i].err /\ tcp[i].est /\ ~Connected(tcp[i]) /\ Ends(i, "failed")
       \/ /\ tcp[i].est /\ Connected(tcp[i])
          /\ IF slots[i].ssl
             THEN Goes(i, "SSL_HANDSHAKE") \/ Ends(i, "failed")
             ELSE Goes(i, "SENDING_HDR")

ProcessHandshake(i) ==
    /\ InState(i, "SSL_HANDSHAKE") /\ UNCHANGED tcp
    /\ \/ Ends(i, "failed")
       \/ ~tcp[i].err /\ Goes(i, "SENDING_HDR")

\* platformSend() takes what there is room for; with a connection it may take
\* everything in the end.
Sends(i, state) == tcp[i].pcb /\ Goes(i, state)

\* It has taken everything, or reports a dead connection.
ProcessSending(i) ==
    /\ InState(i, "SENDING_HDR") \/ InState(i, "SENDING_BODY")
    /\ UNCHANGED tcp
    /\ \/ Ends(i, "failed")
       \/ Sends(i, "HEADERS")
       \/ slots[i].state = "SENDING_HDR" /\ Sends(i, "SENDING_BODY")

\* platformRead() takes the segment; a TLS session may have ended instead.
Reads(i) == tcp' = [tcp EXCEPT ![i].rx = Tail(@)]
SslEnded(i) == slots[i].ssl /\ Ends(i, "failed") /\ UNCHANGED tcp

\* HEADERS: the rest of the headers, a malformed line, an answer without a
\* body, or the start of a body.
ProcessHeaders(i) ==
    /\ InState(i, "HEADERS")
    /\ \/ SslEnded(i)
       \/ /\ tcp[i].rx = <<"part">> /\ Reads(i) /\ Goes(i, "HEADERS")
       \/ /\ tcp[i].rx = <<"bad">> /\ Reads(i) /\ Ends(i, "failed")
       \/ /\ tcp[i].rx = <<"nobody">> /\ Reads(i) /\ Ends(i, "complete")
       \/ /\ tcp[i].rx \in {<<"length">>, <<"close">>} /\ Reads(i)
          /\ slots' = [slots EXCEPT ![i].state = "BODY", ![i].framing = tcp[i].rx[1]]
          /\ UNCHANGED <<pending, nextId, dns, due, online, stack, url, ghosts>>
       \/ /\ ~Connected(tcp[i]) /\ tcp[i].rx = <<>>
          /\ Ends(i, "failed") /\ UNCHANGED tcp

\* The connection is gone: complete only if the server ends a body so.
Dropped(i) == Ends(i, IF slots[i].framing = "close" THEN "complete" ELSE "truncated")

\* BODY: bytes in between, the last ones, or more than bodyMaxSize.
ProcessBody(i) ==
    /\ InState(i, "BODY")
    /\ \/ SslEnded(i)
       \/ /\ tcp[i].rx = <<"data">> /\ Reads(i)
          /\ IF Connected(tcp'[i]) THEN Goes(i, "BODY") ELSE Dropped(i)
       \/ /\ tcp[i].rx = <<"last">> /\ Reads(i) /\ Ends(i, "complete")
       \/ /\ tcp[i].rx = <<"over">> /\ Reads(i) /\ Ends(i, "truncated")
       \/ /\ ~Connected(tcp[i]) /\ tcp[i].rx = <<>>
          /\ Dropped(i) /\ UNCHANGED tcp

ProcessSlot(i) ==
    \/ Timeout(i) \/ ProcessConnecting(i) \/ ProcessHandshake(i)
    \/ ProcessSending(i) \/ ProcessHeaders(i) \/ ProcessBody(i)

-----------------------------------------------------------------------------
(* lwIP's other callbacks, and time.                                       *)

Network(i) == AtTop /\ tcp[i].pcb
Quiet == UNCHANGED <<slots, pending, nextId, dns, due, online, stack, url, ghosts>>

\* lwipConnected(), lwipErr() and lwipRecv() with a null pbuf.
LwipConnected(i) ==
    /\ Network(i) /\ ~tcp[i].est /\ Quiet
    /\ tcp' = [tcp EXCEPT ![i].est = TRUE]
LwipErr(i) ==
    /\ Network(i) /\ Quiet
    /\ tcp' = [tcp EXCEPT ![i].pcb = FALSE, ![i].err = TRUE]
LwipClosed(i) ==
    /\ Network(i) /\ tcp[i].est /\ Quiet
    /\ tcp' = [tcp EXCEPT ![i].pcb = FALSE]

\* What processHeaderByte() and parseHeaderLine() can make of a segment: the
\* headers go on, are malformed, or end before no body or one of that framing.
Headers == {"part", "bad", "nobody", "length", "close"}

\* lwipRecv() chains a segment; one waits at a time.
LwipRecv(i, seg) ==
    /\ Network(i) /\ tcp[i].est /\ tcp[i].rx = <<>> /\ Quiet
    /\ seg \in IF slots[i].framing = "none"
               THEN Headers
               ELSE {"data", "over"} \cup
                    (IF slots[i].framing = "length" THEN {"last"} ELSE {})
    /\ tcp' = [tcp EXCEPT ![i].rx = <<seg>>]

TimeElapses(i) ==
    /\ AtTop /\ slots[i].state # "IDLE" /\ i \notin due
    /\ due' = due \cup {i}
    /\ UNCHANGED <<slots, tcp, pending, nextId, dns, online, stack, url, ghosts>>

\* The network goes or comes back, power is saved or restored.
Switches(on) ==
    /\ AtTop /\ online # on /\ online' = on
    /\ UNCHANGED <<slots, tcp, pending, nextId, dns, due, stack, url, ghosts>>

Lwip(i) == \/ LwipConnected(i) \/ LwipErr(i) \/ LwipClosed(i)
           \/ \E seg \in Segments : LwipRecv(i, seg)

Next ==
    \/ \E r \in Request, kind \in Urls : Send(r, kind)
    \/ Machinery \/ CallbackSends
    \/ \E q \in dns : DnsAnswered(q)
    \/ \E i \in Slot : ProcessSlot(i) \/ Lwip(i) \/ TimeElapses(i)
    \/ \E on \in BOOLEAN : Switches(on)

Spec == Init /\ [][Next]_vars

(* The network comes back whenever it is lost and power is not saved for   *)
(* ever (Module.cpp:627, 636), and what is then up stays so often enough   *)
(* for a call of loop(): hence a slot that can time out again and again    *)
(* does.  Time goes on, lwIP ends every DNS query, if only by its own      *)
(* timeout, and a call in progress returns.                                *)
Fairness ==
    /\ WF_vars(Machinery)
    /\ WF_vars(Switches(TRUE))
    /\ \A i \in Slot : SF_vars(Timeout(i)) /\ WF_vars(TimeElapses(i))
    /\ WF_vars(\E q \in dns : DnsAnswered(q))

FairSpec == Spec /\ Fairness

-----------------------------------------------------------------------------
(* Properties.                                                             *)

Results == {"failed", "truncated", "complete"}

\* Every variable has its type.
TypeOK ==
    /\ slots \in [Slot -> [state : {"IDLE", "RESOLVING", "CONNECTING",
                     "SSL_HANDSHAKE", "SENDING_HDR", "SENDING_BODY", "HEADERS", "BODY"},
                   req : Request \cup {None}, id : Nat, bufs : BOOLEAN, cb : BOOLEAN,
                   ssl : BOOLEAN, framing : {"none", "length", "close"}]]
    /\ tcp \in [Slot -> [pcb : BOOLEAN, est : BOOLEAN, err : BOOLEAN, rx : Seq(Segments)]]
    /\ pending \in Seq([req : Request, cb : BOOLEAN])
    /\ nextId \in Nat \ {0} /\ dns \subseteq [slot : Slot, id : Nat]
    /\ due \subseteq Slot /\ online \in BOOLEAN /\ wild \in BOOLEAN
    /\ stack \in Seq([op : {"enqueue", "start", "startFront", "done", "finish",
                            "callback", "next", "pop"},
                      req : Request \cup {None}, slot : Slot, res : Results \cup {"none"}])
    /\ \A k \in 1 .. Len(stack) : stack[k].op \in {"done", "finish"} => stack[k].res \in Results
    /\ url \in [Request -> Urls \cup {"new"}]
    /\ started \in [Request -> Nat] /\ answers \in [Request -> Nat]

\* Where the onDone of r is: in a slot, in the deque, in a call in progress.
Holders(r) ==
    {<<"slot", i>> : i \in {i \in Slot : slots[i].req = r /\ slots[i].cb}}
    \cup {<<"pending", k>> : k \in {k \in 1..Len(pending) :
                                pending[k].req = r /\ pending[k].cb}}
    \cup {<<"call", k>> : k \in {k \in 1..Len(stack) :
              stack[k].op \in {"enqueue", "start", "done"} /\ stack[k].req = r}}

\* Every request sent is waiting, running or answered -- in one place, once:
\* no onDone is lost or called twice on the way through slots and deque, and
\* no request, POSTs included, goes to its server twice.
OneCallback ==
    \A r \in Request :
        /\ Cardinality(Holders(r)) + answers[r] = IF url[r] = "new" THEN 0 ELSE 1
        /\ started[r] <= 1

\* A slot that is IDLE holds no buffers, connection or data, so that the
\* next startSlot(), which overwrites it unseen, leaks nothing.
IdleHoldsNothing ==
    \A i \in Slot : slots[i].state = "IDLE" =>
        ~slots[i].bufs /\ ~slots[i].cb /\ ~tcp[i].pcb /\ tcp[i].rx = <<>>

\* RESOLVING has no timeout: such a slot always has its own DNS query under
\* way, and no query outlives the request of the slot that asked it, so that
\* its answer can neither be missing nor move a later request.
ResolvingHasQuery ==
    /\ \A i \in Slot : slots[i].state = "RESOLVING" =>
          \/ [slot |-> i, id |-> slots[i].id] \in dns
          \/ \E k \in 1..Len(stack) : stack[k].op = "finish" /\ stack[k].slot = i
    /\ \A q \in dns : slots[q.slot].state = "RESOLVING" /\ slots[q.slot].id = q.id

\* Between calls a request waits only while every slot is busy.
NoIdleSlotWhileWaiting == AtTop /\ pending # <<>> => IdleSlots = {}

\* Together: what a slot owns fits its state, and no slot is left unused.
SlotOwnership == IdleHoldsNothing /\ ResolvingHasQuery /\ NoIdleSlotWhileWaiting

\* A request that cannot start just fails: its onDone is called once
\* (README.Webclient.md:226).
FailsOnce == \A r \in Request : answers[r] <= 1

\* Handler keeps the promise of WebRequests on RP2040.
Promised == INSTANCE WebRequests WITH
    sent <- {r \in Request : url[r] # "new"}, answers <- answers

ImplementsPromise == Promised!Spec
=============================================================================
