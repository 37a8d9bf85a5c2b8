----------------------------- MODULE MqttQueue ------------------------------
(***************************************************************************)
(* The send queue of MQTT/Module.cpp on ESP32: any task calls publish(),   *)
(* which links a heap block at the tail of a singly linked list; the MQTT  *)
(* task runs one round every 5 ms and drains the list from its head.  A    *)
(* spinlock guards only the link and unlink blocks, so each such block is  *)
(* one atomic action; the checks before it and the sends between two of    *)
(* them are actions of their own.  RP2040 runs the same code in one        *)
(* thread: its behaviours are those in which calls do not interleave.      *)
(***************************************************************************)
EXTENDS Integers, Sequences

CONSTANTS
    Producers,   \* tasks that call publish()
    Entry,       \* heap addresses a QueueEntry may get
    Null,        \* nullptr
    MaxQueue,    \* OPENKNX_MQTT_MAX_QUEUE
    TxMax,       \* OPENKNX_MQTT_TXBUF_MAX
    Sizes,       \* serialised sizes a caller may ask for
    MaxPublish,  \* bound: calls of publish() by any producer
    Quota,       \* bound: calls of publish() by each producer
    MaxSession   \* bound: connections established by the client

ASSUME QueueAssumption ==
    /\ MaxQueue \in Nat \ {0}
    /\ TxMax \in Nat \ {0}
    /\ Sizes \subseteq Nat \ {0}
    /\ MaxPublish \in Nat
    /\ MaxSession \in Nat
    /\ Null \notin Entry

ASSUME QuotaAssumption == Quota \in [Producers -> 0..MaxPublish]

VARIABLES
    connected,  \* _connected, the mirror publish() reads without a lock
    session,    \* number of connections seen so far (ghost)
    txSize,     \* mqttTxBufSize
    head,       \* _queueHead
    tail,       \* _queueTail
    count,      \* _queueCount
    next,       \* QueueEntry::next of every address
    body,       \* the message stored at every address, its size and birth
    live,       \* addresses allocated and not yet freed
    ppc,        \* where each producer is in publish()/enqueue()
    held,       \* the block a producer has filled and not yet linked
    calls,      \* calls of publish() each producer has made
    saw,        \* the session in which it found connected() true (ghost)
    cpc,        \* where the MQTT task is in its round
    cur,        \* drainQueue()'s e, clearQueue()'s e
    fifo,       \* the addresses linked, oldest first (ghost)
    chain,      \* the addresses clearQueue() has yet to free (ghost)
    sent        \* messages the broker or client took, in order (ghost)

producerVars == <<ppc, held, calls, saw>>
listVars     == <<head, tail, count, next, fifo>>
vars == <<connected, session, txSize, listVars, body, live, producerVars,
          cpc, cur, chain, sent>>

Message == [producer : Producers, n : 1..MaxPublish]

\* born: the session publish() found connected; linked: the one in which the
\* entry was linked, 0 while disconnected.
Body == [msg : Message, size : Sizes, born : Nat, linked : Nat]

Init ==
    /\ connected = FALSE /\ session = 0 /\ txSize = 1
    /\ head = Null /\ tail = Null /\ count = 0
    /\ next = [e \in Entry |-> Null]
    /\ body = [e \in Entry |-> Null]
    /\ live = {}
    /\ ppc = [p \in Producers |-> "idle"]
    /\ held = [p \in Producers |-> Null]
    /\ calls = [p \in Producers |-> 0] /\ saw = [p \in Producers |-> 0]
    /\ cpc = "idle" /\ cur = Null
    /\ fifo = <<>> /\ chain = <<>> /\ sent = <<>>

-----------------------------------------------------------------------------
(* publish() and enqueue(), run by a producer.                             *)

\* publish(): the unlocked look at the mirror; FALSE is returned at once.
Publish(p) ==
    /\ ppc[p] = "idle" /\ calls[p] < Quota[p]
    /\ calls' = [calls EXCEPT ![p] = @ + 1]
    /\ ppc' = [ppc EXCEPT ![p] = IF connected THEN "enqueue" ELSE "idle"]
    /\ saw' = [saw EXCEPT ![p] = IF connected THEN session ELSE 0]
    /\ UNCHANGED <<connected, session, txSize, listVars, body, live, held,
                   cpc, cur, chain, sent>>

GiveUp(p) ==
    /\ ppc' = [ppc EXCEPT ![p] = "idle"]
    /\ saw' = [saw EXCEPT ![p] = 0]
    /\ UNCHANGED <<connected, session, txSize, listVars, body, live, held,
                   calls, cpc, cur, chain, sent>>

\* enqueue() returns false: the unlocked fast path finds the queue full ...
RejectFull(p) == ppc[p] = "enqueue" /\ count >= MaxQueue /\ GiveUp(p)

\* ... or the message can never fit the TX buffer ...
RejectTooLarge(p) ==
    /\ ppc[p] = "enqueue" /\ count < MaxQueue
    /\ \E size \in Sizes : size > TxMax
    /\ GiveUp(p)

\* ... or the heap has no room for its block.
RejectNoMemory(p) == ppc[p] = "enqueue" /\ count < MaxQueue /\ GiveUp(p)

\* enqueue() allocates and fills its block, still outside the lock.
Allocate(p) ==
    /\ ppc[p] = "enqueue"
    /\ count < MaxQueue
    /\ \E size \in Sizes, e \in Entry \ live :
        /\ size <= TxMax
        /\ live' = live \cup {e}
        /\ next' = [next EXCEPT ![e] = Null]
        /\ body' = [body EXCEPT ![e] =
                        [msg |-> [producer |-> p, n |-> calls[p]],
                         size |-> size, born |-> saw[p], linked |-> 0]]
        /\ held' = [held EXCEPT ![p] = e]
    /\ ppc' = [ppc EXCEPT ![p] = "link"]
    /\ saw' = [saw EXCEPT ![p] = 0]
    /\ UNCHANGED <<connected, session, txSize, head, tail, count, fifo, calls,
                   cpc, cur, chain, sent>>

\* Mutant: the block that finds no place is not freed.
LinkFullLeaks(p) ==
    /\ ppc[p] = "link" /\ count >= MaxQueue
    /\ held' = [held EXCEPT ![p] = Null]
    /\ ppc' = [ppc EXCEPT ![p] = "idle"]
    /\ UNCHANGED <<connected, session, txSize, listVars, body, live, calls, saw,
                   cpc, cur, chain, sent>>

\* The locked block, when another producer took the last place meanwhile.
LinkFull(p) ==
    /\ ppc[p] = "link"
    /\ count >= MaxQueue
    /\ live' = live \ {held[p]}
    /\ held' = [held EXCEPT ![p] = Null]
    /\ ppc' = [ppc EXCEPT ![p] = "idle"]
    /\ UNCHANGED <<connected, session, txSize, listVars, body, calls, saw,
                   cpc, cur, chain, sent>>

\* The locked block: append at the tail; publish() returns true.
Link(p) ==
    /\ ppc[p] = "link"
    /\ count < MaxQueue
    /\ LET e == held[p] IN
        /\ next' = IF tail = Null THEN next ELSE [next EXCEPT ![tail] = e]
        /\ head' = IF tail = Null THEN e ELSE head
        /\ tail' = e
        /\ count' = count + 1
        /\ body' = [body EXCEPT ![e].linked = IF connected THEN session ELSE 0]
        /\ fifo' = Append(fifo, e)
    /\ held' = [held EXCEPT ![p] = Null]
    /\ ppc' = [ppc EXCEPT ![p] = "idle"]
    /\ UNCHANGED <<connected, session, txSize, live, calls, saw, cpc, cur,
                   chain, sent>>

Producer(p) ==
    \/ Publish(p) \/ RejectFull(p) \/ RejectTooLarge(p) \/ RejectNoMemory(p)
    \/ Allocate(p) \/ LinkFull(p) \/ Link(p)

-----------------------------------------------------------------------------
(* taskRun(): one round of the MQTT task, under _mutex.                    *)

\* Mutant: a lost connection does not clear the queue.
RoundKeepsQueue ==
    /\ cpc = "idle"
    /\ \/ ~connected /\ session < MaxSession
          /\ connected' = TRUE /\ session' = session + 1
       \/ connected' = FALSE /\ UNCHANGED session
       \/ UNCHANGED <<connected, session>>
    /\ cpc' = "drain"
    /\ UNCHANGED <<txSize, listVars, body, live, producerVars, cur, chain, sent>>

\* broker/client loop, then refreshConnected().  A client never loses one
\* connection and gains the next inside a single loop() call: the reconnect
\* timer keeps it down for at least 5 s, so a round sees it down in between.
Round ==
    /\ cpc = "idle"
    /\ \/ ~connected /\ session < MaxSession
          /\ connected' = TRUE /\ session' = session + 1
       \/ connected' = FALSE /\ UNCHANGED session
       \/ UNCHANGED <<connected, session>>
    /\ cpc' = IF connected' THEN "drain" ELSE "clear"
    /\ UNCHANGED <<txSize, listVars, body, live, producerVars, cur, chain, sent>>

\* clearQueue(): unlink everything under the lock.
ClearQueue ==
    /\ cpc = "clear"
    /\ cur' = head
    /\ head' = Null /\ tail' = Null /\ count' = 0
    /\ fifo' = <<>> /\ chain' = fifo
    /\ cpc' = "free"
    /\ UNCHANGED <<connected, session, txSize, next, body, live, producerVars,
                   sent>>

\* clearQueue(): free the unlinked chain outside the lock, block by block.
FreeNext ==
    /\ cpc = "free"
    /\ IF cur = Null
       THEN cpc' = "idle" /\ UNCHANGED <<cur, live, chain>>
       ELSE /\ live' = live \ {cur}
            /\ cur' = next[cur]
            /\ chain' = Tail(chain)
            /\ UNCHANGED cpc
    /\ UNCHANGED <<connected, session, txSize, listVars, body, producerVars,
                   sent>>

\* drainQueue(): look at the head under the lock, keep it linked.
DrainHead ==
    /\ cpc = "drain"
    /\ cur' = head
    /\ cpc' = IF head = Null THEN "idle" ELSE "reserve"
    /\ UNCHANGED <<connected, session, txSize, listVars, body, live,
                   producerVars, chain, sent>>

\* mqttTxReserve(): grow the shared TX buffer; the request is rounded up in
\* steps, here to any size from the one needed to the ceiling.
Reserve ==
    /\ cpc = "reserve"
    /\ \/ body[cur].size <= txSize /\ UNCHANGED txSize
       \/ /\ txSize < body[cur].size
          /\ txSize' \in body[cur].size .. TxMax
    /\ cpc' = "send"
    /\ UNCHANGED <<connected, session, listVars, body, live, producerVars,
                   cur, chain, sent>>

\* Mutant: the head is counted out here and by unlinkHead().
ReserveFailsCounts ==
    /\ cpc = "reserve" /\ txSize < body[cur].size
    /\ count' = count - 1
    /\ cpc' = "drop"
    /\ UNCHANGED <<connected, session, txSize, head, tail, next, fifo, body,
                   live, producerVars, cur, chain, sent>>

\* Mutant: the head stays, to be tried again.
ReserveFailsKeeps ==
    /\ cpc = "reserve" /\ txSize < body[cur].size
    /\ cpc' = "idle"
    /\ UNCHANGED <<connected, session, txSize, listVars, body, live,
                   producerVars, cur, chain, sent>>

\* mqttTxReserve() finds no memory: the head is dropped.
ReserveFails ==
    /\ cpc = "reserve"
    /\ txSize < body[cur].size
    /\ cpc' = "drop"
    /\ UNCHANGED <<connected, session, txSize, listVars, body, live,
                   producerVars, cur, chain, sent>>

\* Mutant: the entry is not unlinked after the send.
SendOkKeeps ==
    /\ cpc = "send"
    /\ sent' = Append(sent, body[cur].msg)
    /\ cpc' = "drain"
    /\ UNCHANGED <<connected, session, txSize, listVars, body, live,
                   producerVars, cur, chain>>

\* _broker.publish() / _client.publish() accept the message.
SendOk ==
    /\ cpc = "send"
    /\ sent' = Append(sent, body[cur].msg)
    /\ cpc' = "sent"
    /\ UNCHANGED <<connected, session, txSize, listVars, body, live,
                   producerVars, cur, chain>>

\* They refuse it (send buffer full): the head stays, the round ends.
SendFails ==
    /\ cpc = "send"
    /\ cpc' = "idle"
    /\ UNCHANGED <<connected, session, txSize, listVars, body, live,
                   producerVars, cur, chain, sent>>

\* Mutant: the tail is not reset when the list gets empty.
UnlinkHeadKeepsTail ==
    /\ cpc \in {"sent", "drop"}
    /\ head' = next[cur]
    /\ count' = count - 1
    /\ fifo' = Tail(fifo)
    /\ live' = live \ {cur}
    /\ cpc' = "drain"
    /\ UNCHANGED <<connected, session, txSize, tail, next, body, producerVars,
                   cur, chain, sent>>

\* unlinkHead(), after a send or after a drop.
UnlinkHead ==
    /\ cpc \in {"sent", "drop"}
    /\ head' = next[cur]
    /\ tail' = IF next[cur] = Null THEN Null ELSE tail
    /\ count' = count - 1
    /\ fifo' = Tail(fifo)
    /\ live' = live \ {cur}
    /\ cpc' = "drain"
    /\ UNCHANGED <<connected, session, txSize, next, body, producerVars, cur,
                   chain, sent>>

Task == \/ Round \/ ClearQueue \/ FreeNext \/ DrainHead \/ Reserve
        \/ ReserveFails \/ SendOk \/ SendFails \/ UnlinkHead

Next == (\E p \in Producers : Producer(p)) \/ Task

Spec == Init /\ [][Next]_vars

(* The MQTT task gets the processor; a refused send buffer does not stay full  *)
(* for ever (Module.cpp:262 relies on it).                                 *)
Fairness ==
    /\ WF_vars(Task)
    /\ SF_vars(SendOk)

FairSpec == Spec /\ Fairness

-----------------------------------------------------------------------------
(* Properties.                                                             *)

\* Every variable has its type.
TypeOK ==
    /\ connected \in BOOLEAN /\ session \in 0..MaxSession
    /\ txSize \in Nat
    /\ head \in Entry \cup {Null} /\ tail \in Entry \cup {Null}
    /\ count \in Nat
    /\ next \in [Entry -> Entry \cup {Null}]
    /\ body \in [Entry -> Body \cup {Null}]
    /\ live \subseteq Entry
    /\ ppc \in [Producers -> {"idle", "enqueue", "link"}]
    /\ held \in [Producers -> Entry \cup {Null}]
    /\ calls \in [Producers -> 0..MaxPublish] /\ saw \in [Producers -> 0..MaxSession]
    /\ cpc \in {"idle", "clear", "free", "drain", "reserve", "drop", "send",
                "sent"}
    /\ cur \in Entry \cup {Null}
    /\ fifo \in Seq(Entry) /\ chain \in Seq(Entry)
    /\ sent \in Seq(Message)

\* Who owns which heap block: the list, a producer, the walk of clearQueue().
Linked == {fifo[i] : i \in 1..Len(fifo)}
Held   == {held[p] : p \in {q \in Producers : ppc[q] = "link"}}

Doomed == {chain[i] : i \in 1..Len(chain)}

\* The heap blocks reachable over head and next are exactly the accepted
\* messages in order, ended by nullptr, with _queueTail on the last one and
\* _queueCount their number -- whatever producers and the task interleave.
ListIsFifo ==
    /\ count = Len(fifo)
    /\ head = IF fifo = <<>> THEN Null ELSE fifo[1]
    /\ tail = IF fifo = <<>> THEN Null ELSE fifo[Len(fifo)]
    /\ \A i \in 1..Len(fifo) :
          next[fifo[i]] = IF i = Len(fifo) THEN Null ELSE fifo[i + 1]
    /\ \A i, j \in 1..Len(fifo) : fifo[i] = fifo[j] => i = j

\* Every heap block has exactly one owner: the list, the producer about to
\* link it, or the walk of clearQueue() that frees outside the lock.  Nothing
\* leaks, nothing is freed twice, no producer writes into a freed tail.
HeapOwnership ==
    /\ live = Linked \cup Held \cup Doomed
    /\ Linked \cap Held = {} /\ Linked \cap Doomed = {} /\ Held \cap Doomed = {}
    /\ \A p, q \in Producers :
          ppc[p] = "link" /\ ppc[q] = "link" /\ held[p] = held[q] => p = q

\* The entry the task reserves memory for, sends and unlinks in separate
\* steps without the lock is the head all the while.
HeadStable ==
    cpc \in {"reserve", "drop", "send", "sent"} => cur # Null /\ cur = head

\* The queue never holds more than OPENKNX_MQTT_MAX_QUEUE entries although
\* enqueue() checks the count once without the lock.
QueueBound == Len(fifo) <= MaxQueue

\* The shared TX buffer is large enough for the message about to be built,
\* so that buildPublish() cannot fail for ever and block the head.
BufferFits == cpc = "send" => body[cur].size <= txSize /\ txSize <= TxMax

\* A message published under one connection is never flushed under a later one
\* (Module.cpp:239: "No timestamp in the payload, so a post-reconnect flush would
\* look fresh.").
NoStaleFlush == cpc = "send" => body[cur].born = session

\* What drainQueue() and clearQueue() do keep: an entry linked while a connection
\* is up goes out under that one or not at all.  So a message is late only if
\* its connection was lost between the check of connected() and the link.
OnlyStragglersLate ==
    cpc = "send" =>
        /\ connected /\ body[cur].linked \in {0, session}
        /\ body[cur].born # session => body[cur].linked # body[cur].born

\* A linked entry leaves the list: sent, dropped or cleared.
EntryLeaves == \A e \in Entry : e \in Linked ~> e \notin Linked

-----------------------------------------------------------------------------
(* The abstract queue: between a successful send and the unlink the head   *)
(* is still linked but has already left.                                   *)

msgs   == [i \in 1..Len(fifo) |-> body[fifo[i]].msg]
queued == IF cpc = "sent" THEN Tail(msgs) ELSE msgs

Fifo == INSTANCE MqttFifo WITH queue <- queued

\* The linked list implements the bounded FIFO of MqttFifo.
ImplementsFifo == Fifo!Spec
=============================================================================
