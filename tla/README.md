# A TLA+ verification of OFM-Network

OFM-Network gives an OpenKNX device (ESP32 or RP2040) its network: link and
address handling, MQTT client and broker, ping, HTTP(S) client, web server with
file manager, console and group monitor. This directory holds TLA+ models of its
core, the TLC configurations that check them, and proofs for TLAPS.

All paths are relative to the repository; `N` stands for `src/OpenKNX/Network`.

## 1. Inventory

### 1.1 Components

| Component | State | Operations | Hard part | Correct means |
|---|---|---|---|---|
| MQTT module, `N/MQTT/Module.*` | `_connected` mirror, singly linked send queue, shared TX buffer | `publish`, `enqueue` (any task); `taskRun`/`loop`, `drainQueue`, `clearQueue` (MQTT task) | ESP32: several tasks, a spinlock around link and unlink only, everything else in between | a bounded FIFO; nothing leaks or is freed twice; what is linked under a connection goes out under that one only |
| MQTT client, `N/MQTT/Client.*` | connection state, timers, pcb or `WiFiClient`, subscriptions and how many are sent, receive buffer | `begin`, `subscribe`, `publish`, `loop`, DNS and lwIP callbacks | reconnects racing callbacks; partial sends; silent peers | one pcb; subscriptions in step with the connection; always on the way to READY |
| MQTT broker, `N/MQTT/Broker.*` | connection slots with subscriptions, retained messages | accept, read, packet handlers, `routePublish`, `publish`, `closeConn` | slot reuse, limits, keep-alive, refused sends | subscriptions are the present client's; retained is the latest; subscribers up to date |
| MQTT codec, `N/MQTT/Packet.*` | TX buffer and its size | `mqttTxReserve`, builders, `parsePacket`, `topicMatches` | growth of the buffer, boundaries | the buffer fits; packets are found again |
| Ping, `N/Ping/*` | slots, pending queue, active count, sequence number, retry contexts | `ping` (plain, with retries, by name), `loop` | callbacks that ping again from inside; late and doubled replies | every request answered once, by its own host |
| Webclient RP2040, `N/Webclient/Handler.cpp`, `Handler_RP2040.cpp` | slots, `_pending`, lwIP connection of each slot | `send`, `loop`, lwIP and DNS callbacks | mutual recursion of finish, callback and start | `onDone` once per request; slots used; nothing left in a free slot |
| Webclient ESP32, `N/Webclient/Handler.cpp`, `Handler_ESP32.cpp` | request and result queue, the vector `_activeCallbacks` | `send`, `loop`; worker task on the other core | queues at their limit between two tasks, callbacks while iterating, memory deleted and used | `onDone` once per request, after what was read of its body |
| DNS, `N/DNS.cpp` | ESP32: answers waiting, behind a mutex | `query`, `loop` | answers inline, later, from another task | one answer per query |
| Network module, `N/Module.*` | `_espConnected`, `_boundIp`, link state and what was told of it, power save, OTA flags, restart timer, settings | `loop`, `checkLinkStatus`, `esp32NetworkEvent`, `handleOTA`, `resetNetwork`, settings | events of another task against `loop`; `loop` inside `loop` | KNX socket, callbacks, LED and heartbeat follow the interface |
| NTP, `N/NtpTimeProvider.*` | in progress, last sync | `loop` | re-entry from its wait loop | one synchronisation at a time |
| Web server RP2040, `N/Webserver/Webserver_RP2040.cpp` | connection slots with response and open file, WebSocket clients; each pcb's `tcp_arg` | lwIP callbacks, `loop`, dispatch, `sendWebsocketMessage` | twelve ways for a connection to end, in callbacks and outside; partial sends; events of a pcb that has given its slot up | slots and what they own go back; each request is answered once; an answer is whole or the connection visibly fails |
| Web server ESP32, `N/Webserver/Webserver_ESP32.cpp` | `g_wsSessions` behind a lock; `WebSocketRoute::clients` | httpd task: requests, upgrades; loop task: `loop`, `sendWebsocketMessage` | announcement outside the lock; file descriptors that are used again | clients are sessions; nobody gets what is another's |
| Console, `N/Webserver/Webconsole.cpp`, and group monitor, `N/GroupMonitor.*` | the console's read position of each client in the logger's ring | `loop`, `onConnect`, `onFrame` | positions kept by descriptor | every line from the connect on, none before |
| File manager, `N/Webserver/FileManager.*` | files, busy flag of a drive | HTTP handlers | interrupted uploads | a file is whole or absent |
| JSON, SHA1, Base64, telegram JSON, GA table | none beyond a call | pure functions | - | - |

### 1.2 How they interact

* Any task calls `Module::publish()` of MQTT; the MQTT task (5 ms rounds, under
  `_mutex`) runs client or broker, mirrors `connected()` into `_connected` and
  drains the queue into `Client::publish()` or `Broker::publish()`. On RP2040
  everything but lwIP's callbacks runs in one loop.
* `DNS::query()` calls back inline, from lwIP (RP2040) or from `DNS::loop()`
  (ESP32) into the MQTT client, ping by name and the web client.
* lwIP's callbacks (RP2040) enter MQTT client, broker, web client and web server.
  For the models they fall between two calls into the component, except for
  replies to pings, which fall between any two steps.
* ESP32: the event task runs `esp32NetworkEvent()` beside `loop()`; both open and
  close the KNX stack's multicast socket. The web client's worker exchanges
  requests and results with `loop()` through two FreeRTOS queues. The httpd task
  upgrades connections that the loop task then serves, through `g_wsSessions`.
* OTA and NTP call `openknx.loop()` while they wait, so that every component's
  `loop()`, their own included, runs inside `Module::loop()`.
* Users' callbacks (`onDone`, ping results, MQTT messages) run inside the
  handlers and call their API again.
* `Network::Module::established()` gates the loops of the web client (`N/Module.cpp`:636), of MQTT
  (:678; on ESP32 client, broker and queue have a task of their own) and the work of NTP; power
  save (:627) ends `Module::loop()` before any of them.

### 1.3 Hazards

`PROJECT.json` lists them at the lines where they bite. In short: unlocked steps
of the send queue; stale DNS answers and callbacks after reconnects; partial
sends; nested callbacks in ping and web client; late, doubled and lost replies;
slots and file descriptors reused by the next client; buffers and queues at
their limit; state derived from an interface that another task reports on; loops
inside loops.

## 2. Modules

| Module | Models | Composes |
|---|---|---|
| `MqttFifo` | what `Module::publish()` promises: a bounded FIFO that loses messages only at its head or all together | - |
| `MqttQueue` | the send queue of `MQTT/Module.cpp` | instantiates `MqttFifo` |
| `MqttClient` | the connection of `MQTT/Client.cpp`, both platforms | with DNS, TCP and a broker |
| `MqttReceive` | packet reassembly of `MQTT/Client.cpp` and `MQTT/Broker.cpp`, both platforms | with a peer and TCP |
| `MqttBroker` | `MQTT/Broker.cpp` above whole packets | with its clients |
| `Ping` | `Ping/Handler.cpp` and both platforms' replies | with users, hosts, time |
| `WebRequests` | what the web client promises on either platform: each request sent has its `onDone` called, once | - |
| `Webclient` | `Webclient/Handler.cpp` and `Handler_RP2040.cpp` | with users, DNS, servers, time; instantiates `WebRequests` |
| `WebclientTask` | `Webclient/Handler.cpp` and `Handler_ESP32.cpp` | users, main thread and worker task; instantiates `WebRequests` |
| `Webserver` | `Webserver/Webserver_RP2040.cpp` | with lwIP, peers and the senders of WebSocket messages |
| `WebsocketSessions` | WebSockets of `Webserver/Webserver_ESP32.cpp`, `Webconsole::loop()` and the group monitor's broadcast | httpd task, loop task, peers |
| `NetworkModule` | `Module.cpp` and `NtpTimeProvider.cpp` | interface, event task, `loop()` |
| `MqttQueueProofs`, `PingProofs`, `WebclientProofs`, `WebclientTaskProofs`, `WebserverProofs`, `WebsocketSessionsProofs`, `NetworkModuleProofs` | theorems about the module of the name | each extends its module; section 4 |
| `MqttProofs` | theorems about `MqttClient`, `MqttReceive` and `MqttBroker` | extends the three; section 4 |
| `MC*` | instances for TLC | each extends its module, or the several it checks |

An MC module may hold several instances: a behaviour is one of the instance (or
part, or build) it starts with, chosen by `MCInit` and never changed, and the
fairness of each is stated as in its module. `MCMqtt` extends client, receivers and
broker, whose names do not clash, and is one of the three. `MCWebclient` extends
`WebclientTask` (build "ESP32") and instantiates `Webclient` twice ("RP2040",
"twoSlots"). `MCWebserver` extends `Webserver` (build "RP2040")
and `WebsocketSessions` ("ESP32") and instantiates the latter once more with smaller limits
("oneSocket"); its `MCTypeOK` is the type invariant of the sessions, with these limits
and `ClientsAreSessions` for "oneSocket". The names of `WebsocketSessions` that would clash begin
with `Sessions`. The two modules that are instantiated so,
`Webclient` and `WebsocketSessions`, state their assumption as a definition, and the
MC module assumes it. Where both platforms are in one module (`MqttClient`,
`NetworkModule`, `Ping`), the platform is part of the state, chosen by `Init` and never
changed.

`Mutant:` definitions are seeded faults. No next-state relation uses them; each
replaces the operator that follows it to show that a property notices.

### 2.1 MqttQueue

Every address a `QueueEntry` may get is an element of `Entry`; `next` and `body`
are the heap, `live` the allocated addresses. One action is what runs
without another task being able to see a state in between: the blocks inside
`queueLock()`/`queueUnlock()` (`Link`, `LinkFull`, `ClearQueue`, `DrainHead`,
`UnlinkHead`), and between them the unlocked checks (`Publish`, `RejectFull`,
`RejectTooLarge`, `RejectNoMemory`, `Allocate`), the walk that frees (`FreeNext`),
and `Reserve`/`SendOk`/`SendFails` of the drain. `Round` is the client's or
broker's loop together with `refreshConnected()`. `UnlinkHead` includes the
`free()` that follows the locked block. `free` and `malloc` really reuse addresses.
`RejectNoMemory` and `ReserveFails` may fail at any call.

Ghost variables say what should be the case: `fifo` (linked addresses in
order), `chain` (what `clearQueue()` still has to free), `sent`, `session`, and of each
entry `born` (the session in which `publish()` found `connected()`, kept in `saw` until the
block is filled) and `linked` (the session in which it was linked, 0 while disconnected). An
entry is stale if `born` is not the session it is sent in.

`MqttFifo` keeps only the queue of messages and what was sent. `MqttQueue`
implements it under the mapping `queue <- queued`: the messages of the linked
entries, without the head once it is sent and not yet unlinked.

### 2.2 MqttClient

The object's members are the record `c`. Each function of the class is an
operator from the object to its successor (`Reconnect`, `SendRaw`,
`SendPendingSubscriptions`, `ProcessPacket`); the actions are the calls into
the class: the API, the cases of `loop()`, DNS and lwIP callbacks. Time is
`timer`, `late` and `pingDue`, which the clock's actions set; the assumptions
about it stand at those actions: a working broker answers a ping within 0.9
keep-alives, and 1.5 keep-alives and 2 s hold at least one ping. `tx` is the TCP send buffer, in packets; `jam`
a shortage of memory for segments.

### 2.3 MqttReceive

A byte is the pair of its packet and its place in it. Four receivers: the client
reads up to a `tmp` buffer (ESP32) or takes a chain of pbufs (RP2040); the broker
reads what fits (ESP32) or copies what fits and parses later (RP2040). They
reconnect, leave out a pbuf, read less or drop a tail respectively.

### 2.4 MqttBroker

A filter is the set of topics it matches, a message is its number. Each packet
handler is one action including what it sends; `Dropping` lets the send buffer
refuse any of these sends.

### 2.5 Ping and Webclient

Both call users' callbacks from inside and are called from there. Calls in
progress are the frames of `stack`; a step runs the innermost frame up to its
next call. In `Ping`, `dispatchCallback()` is the frame `dispatch` before and
`settle` after the callback; `pc` and `scan` say where `loop()` is. Sequence
numbers are counted without their wrap and compared modulo `SeqMod`, which is what
an 8-bit number does; `UnderWay` are the replies still on their way when a slot
sends. In `Webclient` a start from `enqueue()` is a `start` frame with the request moved in,
one from `startNextPending()` is a `startFront` frame that reads the front of
the deque when it runs, as the reference in the code does, followed by a `pop`
frame. `pop_front()` on an empty deque is undefined; the model stops there. `online` is whether
`Module::loop()` gets to `webclient.loop()` (`N/Module.cpp`:627, 636): without it no slot is
polled and none times out, while lwIP's callbacks, DNS answers and `send()` go on.
`Switches` loses the network and brings it back between any two calls, on both platforms.

### 2.6 WebclientTask

`requests` and `results` are the FreeRTOS queues, with their depths; `worker` is
where the worker task is (`receive`, reading a body, waiting for room in
`_resultQueue`, `deleted` between `delete req` and `sendDone()`). The main thread
is a stack of frames as in `Webclient`: `enqueue()`, the user's callback, and the
`loop()` whose iterator the callback runs under. `push_back()` on a full vector
sets `moved` in each of these loops; going on with a moved iterator sets the ghost
`wild`. `Freed` says what `sendDone()` may find in the deleted `TaskRequest`.
`read` counts the pieces of a body that were read, `got` has those that were delivered. A piece
that goes beyond `bodyMaxSize` is read, gets no entry, and nothing is read after it
(`PieceTooLarge`; :262-268, and :316-322 for a chunked body); the ghost `cut` has
the requests this happened to, and `handed` is what was read without that piece. `BodyBeforeDone`
says that these pieces, and no fewer, have reached `onData` when `onDone` is called.

### 2.7 Webserver

`slots` is `g_slots` together with `g_response`; `conn` is what lwIP holds of each
pcb: its `tcp_arg`, the bytes in flight, whether it is open. Each lwIP callback is
an action, `onRecv()` one per outcome; `Loop` answers every marked request in one
call, as the code does. A pcb that is closed in order (`Closed`) and one that is
refused (`Dispatch` of "nosocket") differ in `arg` alone: the code clears it in all
places but that one. Lengths are in units: the position in a page runs through its
three segments, a file is read chunk by chunk. `tcp_write()` may refuse at any call.
Ghosts: the peer's request, what it has still to send and what a full `rxBuf` cut
off, how often a handler ran, and the units written.

### 2.8 WebsocketSessions

`socket` maps each file descriptor to the connection that has it; a closed one
goes to the next connection, lowest first. `sessions` is `g_wsSessions`, `marked`
its `markedDead`, `routeClients` the clients of both routes, each entry as the
connection that was announced and compared by descriptor, as in the code.
An upgrade is the steps of `doWsUpgrade()` between which another task sees a
difference: taking the socket from httpd, appending the session under the lock,
announcing it. `loop` is the place of the loop task: serving the sessions of a
snapshot, removing the dead, a pass of the console, a broadcast. `readPos` is
`_consoleReadPos`, by descriptor, against `written`, the ring's position; a
client that fell behind by more than the ring loses lines. Ghosts: `last`, the
last line before each connection or sent to it, and `foreign`, the connections
that got something meant for another. `Reaches` compares whoever has the descriptor with
the client the frame is sent to: any other connection is a stranger, another WebSocket of the
same route too, and so is the client itself once it is no longer upgraded.

### 2.9 NetworkModule

`link` and `ip` are the interface; on ESP32 each change appends to `events`,
which the event task handles in order, a step for each change another task can
see (`OnGotIp`, `OpensKnx`, `NotesIp`; `OnDisconnected`, `GoesDown`). `pc` is where
the innermost `loop()` is: `checkLinkStatus()` in its steps `CheckReads` to
`CheckBeats`, then `handleOTA()`, then NTP. `seen` and `newLink` are its locals, and
what follows uses them however old they are. `stack` is what `loop()` runs
inside of: an update ("ota") or a wait for the time ("ntp"), which start the next
loop at "start". `knx` is the KNX stack's socket and the address it is bound to.
The 500 ms between checks are left open: a check is due or not. `lostIp` also
stands for a start of the interface and `disconnected` for its stop, which are
handled alike. A finished update restarts the device, which the model leaves out:
`OtaReturns` is a transfer that failed.

## 3. Runs

| Run | Instance | Shows |
|---|---|---|
| `MqttQueue` | 2 producers with 2 and 1 calls, 3 addresses, queue of 2, sizes 2-3 around a buffer of 2, 2 sessions, fairness | list, ownership, what is late and what is not; refinement of `MqttFifo`; every entry leaves |
| `Ping` | both platforms, 2 slots, 2 requests, up to 1 retry, 1 reply under way at a time, 3 sequence numbers; fairness | bookkeeping through nested callbacks; no foreign replies; every request answered |
| `Webclient` | RP2040: 1 slot, 3 requests, names and bad URLs, TLS, every segment and start fault; "twoSlots": 2 slots, 2 of the requests, plain, refused connects; ESP32: queues of 1, bodies of up to 2 pieces, any of them beyond `bodyMaxSize`; the network is lost and comes back any number of times; fairness | callbacks and ownership; body before `onDone`; refinement of `WebRequests` by both platforms |
| `Mqtt` | client on both platforms, 2 pcbs, 2 subscriptions, 1 publication, send buffer of 3 packets, 2 faults, 3 lookup ids; receivers in five setups, 3 packets, buffers of 4 and 6 bytes; broker with 2 clients, 2 topics, 2 filters, 1 subscription, 1 retained message, 2 publications, 1 step with refusals; fairness | pcb, timers, subscriptions, recovery; packets whole and in order; slots, retained messages, time-out |
| `Webserver` | RP2040: 2 slots, 2 connections, every kind of request, window of 2 units, pages of 2 segments, files and bodies of 2, 2 segments from each peer; ESP32: 2 connections, one to the monitor, 2 descriptors, 2 sessions, 1 frame, 1 line, and "oneSocket": 2 consoles in turn over 1 descriptor, 1 session, 2 frames (one more than the receive buffer holds), 2 lines; receive buffer of 1 frame, ring of 1 line; no serving before the announcement; fairness | ownership of slots, files and clients; requests answered once; answers whole; slots freed; clients, sessions and descriptors agree; frames go to the client they are sent to; sessions are served and let go |
| `NetworkModule` | both platforms, 2 addresses, 5 changes of interface, power or prog mode, 2 waiting events; RP2040 with NTP and OTA in prog mode, ESP32 with OTA off; fairness | OTA and NTP not inside themselves; callbacks in turn; everything follows the interface in the end |
| `MqttQueueLate` | 1 producer with 2 calls, 2 sessions | violated: see 6 |
| `WebclientTwice` | RP2040, 1 slot, 2 requests, no memory | violated: see 6 |
| `WebclientFreed` | ESP32, queues of 2, 2 requests, a deleted block may be used again | violated: see 6 |
| `WebserverRobbed` | 2 slots, 2 connections, WebSockets and pages | violated: see 6 |
| `WebsocketOvertaken` | "oneSocket", 1 descriptor, serving before the announcement | violated: see 6 |
| `MqttBrokerBackPressure` | broker, 1 client, 1 topic, 1 refusal, fairness | violated: see 6 |

Why these bounds are enough to be interesting: two producers with a queue of two
are the least at which one takes the last place from the other after both saw room; three addresses
let one be freed and reused while the walk of `clearQueue()` still holds another of a
chain of two. A message of size 3 is larger than `TxMax`. Two sessions are the least in which a message can be
stale, and one producer the least that can make it so. With two ping slots a callback in one slot starts a ping or a retry in the other,
while the slot it runs for is still taken; two requests with a retry make four pings,
so that one waits for a slot and then gets the one in which an earlier attempt may
still be answered late, and three sequence numbers come round. Two faults let the client fail again
while it recovers; its send buffer of three is smaller than CONNECT, the
subscriptions and a publication together. `MaxDepth` of 20 frames lies above
what a stack of the checked instances can reach while a waiting request can start
(`FrontFails` is FALSE: starts are refused only when called from `enqueue()`); it
cuts the unbounded recursion of the finding. Queues of one let the worker wait for room in
`_resultQueue` while `enqueue()` finds `_requestQueue` full. In `Webserver` a window of two
holds the header of an answer and one unit of its body, so that every body is sent
over several acknowledgements; two connections let the slot that one has left go to the
other while the first still ends; two segments are the least for a request in
pieces, for a body after its header, and for something after a whole request.
`PollLimit` is 1 for the 10 polls of the code and `PingPolls` 1 for 30.
Two consoles that get one descriptor in turn are the least for a stale client or position; a ring
of one line makes a client fall behind. Five changes are a link, an address, a loss
of either, and both again, with a flap or a change of address in the middle of a check.

Bounds by constant: `MaxPublish`, `Quota` (calls of each producer), `MaxSession` (queue), `MaxTalk` (web server), `MaxRetries`, `MaxNet`
(ping), `MaxDepth`, `MaxPieces` (web client), `MaxSubs`, `MaxPublish`, `MaxFaults` (client),
`MaxPackets` (receive), `MaxConnSubs`, `MaxRouted`, `MaxDrops` (broker), `MaxFrames`, `MaxLines` (WebSockets), `MaxChanges`,
`MaxEvents` (network module); `Spare` leaves one of three requests unsent in "twoSlots". `SeqMod`, `IdMod`,
`MsgIdMod` shorten 2^8 and 2^16. A byte of the receivers stands for two of the code.

Four constants keep a passing run out of a disagreement that another run shows or a
note of section 6 describes: `FrontFails` (a waiting request may be refused when it starts),
`Freed` (what a deleted request holds), `Reallocates` (a callback may send
when `_activeCallbacks` has to grow) and `Overtakes` (a session is served before it is
announced). What the passing run says, it says of the behaviours in which that does
not happen.

Deadlock is checked for the send queue, both web servers and the network module,
which never stop. Ping
and web client stop once all requests are answered and nothing arrives, the
receivers once the connection is closed, the broker when its publications are used up;
`Mqtt` runs these together with the client.

### Fairness

* Send queue: weak fairness of the task's round, which the FreeRTOS task repeats every
  5 ms; strong fairness of `SendOk`: a send buffer that is full frees up
  (`N/MQTT/Module.cpp`:262 relies on it).
* Ping: `loop()` is called again and again, with or without a network, but not under power save
  (`N/Module.cpp`:627), which must end for pings to be answered; time passes for every slot; the 50 ms
  between two passes are over again and again (`LoopGoesOn`).
* Web client, RP2040: `loop()` and the callbacks go on; time passes while a slot is busy; lwIP ends every
  DNS query, if only by its own timeout. Nothing is assumed of servers. ESP32: main thread and
  worker go on; the blocking calls of `HTTPClient` end by their timeouts. On both, `loop()` is not
  simply called again and again: `N/Module.cpp`:636 calls it only if `established()`, :627 not
  under power save. So the network must come back whenever it is lost, and power save must
  end (weak fairness of `Switches(TRUE)`), and the network must be up during calls of `loop()`
  again and again: strong fairness of what only `loop()` does, `Timeout` of a slot
  on RP2040 and `Receive` on ESP32. It may be lost again at any time. If it stays away, `onDone` is not called, not even by the
  timeout; the promise of `WebRequests` is under that proviso.
* MQTT client: loop, callbacks, the broker's reading, and time; memory returns.
  That failures end is the bound `MaxFaults`. On ESP32 the MQTT task calls `loop()` whatever the link is. On
  RP2040 it is called only if `established()` and not under power save (`N/Module.cpp`:678, 627), so
  weak fairness of it means that the network comes back and then stays; the same goes for the broker's
  time-out and the send queue there. Nothing else is promised of a device whose network stays away.
* Web server: lwIP's timer polls every connection that has a callback for it.
  Nothing is assumed of peers or of `loop()`. `MaxTalk` matters here: data that comes
  while an answer is sent resets the count of polls, so that a peer that goes on
  sending and takes nothing does keep its slot.
* WebSockets: the loop task goes on, power save ends (`N/Module.cpp`:627), and httpd finishes an upgrade it has begun. Nothing is
  assumed of peers.
* Network module: the event task and `loop()` go on; a check is due again and again
  (strong fairness of `CheckReads`), and updates and waits end (of `Returns`). The
  interface owes nothing; that it is left alone in the end is the bound `MaxChanges`.
  One assumption stands at `GetsIp`: an address changes again only after
  the event of the last one was handled. Without it an address that goes from A to B and back
  to A between two events is taken for a change that did not happen.
* Receive: TCP delivers, the parser runs. Broker: over a silent peer time passes.

## 4. Proofs

The theorems hold for every value of the constants that the module's assumption
allows: any number of slots, connections, requests, producers, any limits. An
assumption only types the constants (limits are numbers, the placeholder `Null` or
`None` is none of the values it stands beside, in `Webserver` no number either).
`Webclient` and `WebsocketSessions`, which MC modules instantiate, state it as a
definition, which their theorems have as a hypothesis. No theorem needs the bounds
to be small, or more of them than their type, but for `MqttClient`, where lookups
are told apart by an identifier modulo `IdMod`: there `IdMod > MaxFaults`, so that a
lookup ends before its identifier comes round.

Every module is proved along the same line. The properties are not inductive one by
one. `IInv` adds to them what each needs of the others, and is proved to hold at
first (`InitInv`), and to be kept by each action (a lemma per action, a step per
conjunct the action can disturb); the properties follow from it.

### MqttQueueProofs

`TypeCorrectness`, `ListCorrectness` (`ListIsFifo`, `QueueBound`), `MemorySafety`
(`HeapOwnership`, `HeadStable`), `SendCorrectness` (`BufferFits`, `OnlyStragglersLate`), and
`Refinement`: `Spec => ImplementsFifo`, the send queue implements `MqttFifo`.

`IInv` adds what the task knows at every place of its round (while it drains, a
connection is up; while it reserves, sends or unlinks, its entry is the head and the
head is linked; while it frees, `cur` is the first of `chain`, and `chain` is linked by
`next` without repetition up to nullptr), that what producers hold has been filled,
and that what is linked while a connection is up was linked under it or while there was none
(`BirthInv`). That is all the code guarantees: `NoStaleFlush` is violated by run
`MqttQueueLate`, and `OnlyStragglersLate` says what is left of it: whatever is sent under a connection other
than the one `publish()` saw was linked after that one was lost. `HeapOwnership` keeps an
allocation from touching the list or the chain, which is what makes `ListIsFifo`
survive the unlocked steps; `ListIsFifo` in turn says that the entry unlinked is the
one sent.

The refinement maps the queue to the messages of the linked entries, without a head
that is sent. It needs one invariant more, `OrderInv`: what is linked or sent are
calls that `publish()` has finished with, so that none is linked twice. Then every action is a
step of `MqttFifo` (`Link` a publication, `SendOk` a delivery, `ClearQueue` the
loss of all) or changes nothing it sees (`UnlinkHead`, the walk of `FreeNext`).

### PingProofs

`TypeCorrect`, `BooksKept` (`Bookkeeping`), `OwnReplies` (`OnlyOwnReplies`). A callback
may call `ping()` inside `dispatchCallback()` inside a callback, to any depth, so the
invariant says what a stack looks like: under the innermost call lie calls of
`dispatchCallback()` that wait for their callback, each for another slot
(`StackInv`), and all these slots are still PINGING, so that none is given away
under its callback. `PlaceInv` says where requests are: an open one is in one slot
whose callback has not run, or waits once, or is just being called. `AttemptInv` is
the sum behind `AllAttemptsMade`: what was tried and what is left make what was asked
for, plus one in a slot. `FullInv` holds `NoIdleSlotWhileWaiting` through a pass of
`loop()`; `ReplyInv` says that the number and the flag of a slot which waits are its
request's and that no reply on its way that would match is another's.
`CountMatchesSlots` gives the counter its range.

### MqttProofs

*Client.* `ClientTypeCorrect`, `OnePcbAtATime` (`OnePcb`), `SubscriptionsInStep`
(`SubscribedInStep`), `AnswersFresh` (`NoStaleAnswer`). Every function of the class is an
operator on the object, so the larger part of the invariant, `ObjectInv`, is about an
object, and there is one lemma for each function: it keeps `InStep` (the subscriptions
written since CONNECT are the first `upTo`, each once, in order), `Holds` (the pcb that is
open is the one the object has, in the states that have one), and `Written` (bounds, and
nothing written without a connection). `LinkInv` ties the object to the link, its receive
buffer and the broker.

*Receivers.* `ReceiveTypeCorrect` (no buffer is overrun, in any of the setups) and
`ReceivedInOrder` (`InOrder`), for buffers, packets and bursts of any size. What has not
been handled is one sequence: the buffer and then the wire. `StreamInv` says that it is
exactly the packets not yet handled, whole (`Intact`): a byte has the rest of its packet behind
it and then the first of the next. Moving bytes from the wire to the buffer does not change this
sequence (`MovesOver`); handling a packet takes one off its front. `RoomInv` is
why a receiver that has to drop what does not fit never has to: between two parses the buffer holds
less than a packet, and the bursts fit behind that (`AllFit`). `KeepsUp` is the
condition of `InOrder` itself: ESP32 reads only what fits and needs no such limit.

*Broker.* `BrokerTypeCorrect`, `OwnSubscriptions` (`SubscriptionsOwn`), `LatestRetained`
(`RetainedIsLatest`), `UpToDate` (`SubscriberUpToDate`). The three properties together
are inductive with `AskedInv` (a client that has not said CONNECT has asked for
nothing) and `CountInv` (the sets that are counted are finite, whatever the
topics are). `UpToDate` needs the other two: what a new subscriber gets is what is
retained, and that is the latest.

### WebclientProofs

`TypeCorrect`, `OneCallbackHolds` (`OneCallback`), `SlotOwnershipHolds`
(`SlotOwnership`) and `AnsweredOnce`, for any number of slots and requests and any depth of
callbacks that send requests. All have the hypothesis `FrontFails = FALSE`: no waiting
request is refused when it starts. Without it `OneCallback` is false, which is
the finding of run `WebclientTwice`.

`Nested` says what a stack looks like: which call lies under which is fixed (`Under`), since
`finishSlot()` calls the callback and then `startNextPending()`, which calls `startSlot()`
and then pops. The hard part is `NoIdleSlotWhileWaiting` between these calls: slots are free
and requests wait, but somebody on the stack will start them. `FreeInv` counts: while
requests wait, there are at most as many free slots as calls of `startNextPending()` still
to come; `Called` is twice that number, read off the length of the stack. `finishSlot()` frees
one slot and adds one call to come; `startNextPending()` gives a slot away, or returns
because none is free or nothing waits. From it follows that `enqueue()` called in a callback
and `startFront` find things as they expect: the front exists (so `wild` stays false) and
the slot is free. `WaitInv` says that only the front that has just been started is without its
`onDone`, `QueryInv` that a slot that resolves has its query under way unless it is
being finished, and `PlaceInv` that the `onDone` of a request is in one place until it is called.

### WebclientTaskProofs

`TypeCorrect` holds in any case. `Awaited` (`CallbacksAwaited`), `BodyFirst`
(`BodyBeforeDone`) and `AnsweredOnce` have the hypothesis `Freed = {"kept"}`: `sendDone()` still
finds its id in the deleted `TaskRequest`. Otherwise they fail, which is the finding of run
`WebclientFreed`. They hold for queues of any depth, bodies of any number of pieces, any
capacity of the vector, and callbacks that send at any depth.

The invariant follows a request through the two tasks. `CallbackInv`: ids and requests of
`_activeCallbacks` are distinct, and ids older than the next. `PlaceInv`: each entry is
waited for in one place, the request queue, the worker, a DONE in the result queue or the
erasing `loop()`, and nothing on its way is without an entry. `OrderInv`: DONE is the last result of
its id and the pieces come in order. `GotInv`, `PieceInv` and `RestInv`: what `onData`
was given is the beginning of what was read, and exactly the rest is queued, so that nothing is missing when
DONE comes, but the piece that is in `cut` (`CutInv`), the last that was read. `AnswerInv`: an answered request is done with everywhere but in the `erase()` that follows its callback.

The two `AnsweredOnce` theorems are the safety half of the refinement of `WebRequests`, one for each
platform: the initial states and every step map to those of the promise, or to a stutter.

### WebserverProofs

`TypeCorrect`, `Ownership` (`SlotOwnership`), `AnsweredOnce` (`RequestsOnce`),
`WholeAnswers` (`AnswersWhole`, an action property). `SlotsInv` says for each slot that is
taken that its connection is open and names it, that the two agree on the request
(what is missing of an upload is still to come or was cut off; only a whole
request is pending), and that what is written of the answer is the body up to where the slot
stands. `ConnsInv` says where the pointer of a connection may lead, `ListsInv`
that the WebSocket clients and open files are counted right. The run and the theorems
have the constant `Kinds` without restriction: a connection that is refused a WebSocket
("refused") keeps its pointer, and the invariant says what then remains true.

### WebsocketSessionsProofs

`TypeCorrect` holds in any case. `ClientsMatchSessions` (`ClientsAreSessions`) and
`OwnFrames` (`FramesOwn`) have the hypothesis `~Overtakes`: `loop()` does not serve a
session before it is announced. Without it they fail, which is the finding of run
`WebsocketOvertaken`. The invariant is in two layers: `TInv` (types; whatever is in a
list has had a socket) and `OInv`: open connections do not share a socket; how far an
upgrade is; a session keeps its socket until the moment of its removal; clients are
the sessions that are announced and alive; what `loop()` has still to go through is
still there when it comes to it (`TodoInv`); a position belongs to a console that has the
descriptor now, past all it must not see (`PositionInv`). `OwnFrames` rests on clients being sessions:
a list that `loop()` goes through has clients only, each of which still has its descriptor, so
that a frame goes to the very client it is for.

### NetworkModuleProofs

`TypeCorrect`, `Nesting` (`NeverNested`), `Telling` (`ToldInTurn`). The three are
inductive together: an update or a synchronisation is started only with its flag off,
`NeverNested` has the flags agree with the stack, and so nothing is pushed that
is there already; the types say what the stack and the locals of a check can be. The
lemmas about sequences (a call pushed and popped, an event queued and
taken) are stated once.

### What is only model-checked

* All liveness under fairness, and ENABLED: out of the prover's reach. This includes the other half of
  `WebRequests`, that each request is answered in the end (`MCImplementsPromise`).
* The type invariants of the MC modules as such, and `MCOneCallback` and `MCSlotOwnership`: they
  choose between the instances of a run. What they choose between is proved in the modules' own theorems.
* What would need induction over data: the library's induction theorems have an
  operator as a parameter, which no backend instantiates. None of the theorems
  above needs one; where the least element of a set is needed (the first free
  slot), it comes from `WFMin`.

`HeadStable`, `BufferFits` and `QueueBound` are theorems only: `HeapOwnership` and
`EntryLeaves` are what a run sees of them.

## 5. Not modelled

* File manager: its handlers run one at a time in the server's task and keep no state
  but the files and a busy flag; planned as the next module.
* Web server (ESP32): plain requests, which httpd's task answers within one call. The
  console's commands. Senders take a snapshot of the descriptors and send from the loop task
  only.
* Network module: IP and Wi-Fi settings, mDNS, function properties, console output, the
  restart timer. DNS of the ESP32: a list behind a mutex, from one task to the other.
* NTP of the ESP32, where the SNTP library works alone.
* Web server (RP2040): routing, layout and logging; WebSocket frames that are cut
  into segments; lwIP's own timers but for what they call. A callback falls between
  two calls of the firmware, not into one.
* JSON, crypto, telegram formatting and web assets: sequential, better tested.
* MQTT: contents and fields of packets, QoS 2 (not in the code), local
  observers of the broker and local echo of the client, the last will; the
  counters for diagnosis.
* Web client: the parsing of headers and chunked bodies is reduced to how a
  segment can end the request; one segment is buffered at a time. On ESP32 an exchange is its
  phases, pieces and ends; `HTTPClient` is external.
* Ping: a reply that is so late that its slot has sent the same sequence number again
  (`UnderWay`): it cannot be told from an answer to the later ping.
* MQTT client: the acknowledgements of received messages never fill the send
  buffer; a lookup is answered before its identifier comes round.

## 6. Disagreements found

* `N/MQTT/Module.cpp`:162. `publish()` looks at `connected()` once; `enqueue()` copies the message and links
  it under the lock without looking again. A task that is held up in between, while the
  connection is lost, the queue cleared and the next connection comes up, has its message sent
  under that one. The comment at :239 says that a message without a time stamp would look fresh
  there. Run `MqttQueueLate`; what is linked in time is never late (`OnlyStragglersLate`).
* `N/Webclient/Handler.cpp`:530. `startNextPending()` starts the front of
  `_pending` before popping it. A start that is refused calls `onDone` and then
  `startNextPending()` again, for the same element. `README.Webclient.md`:226 says
  the request just fails. Run `WebclientTwice`.
* `N/Webclient/Handler_ESP32.cpp`:95, 210, 226, 380. The worker deletes the
  `TaskRequest` and then calls `sendDone()`, which captured it by reference and reads its id
  (:85). If `enqueue()` has been given that block in between, the answer goes to the
  later request, before its body was read, and the earlier one never gets its `onDone`.
  `README.Webclient.md`:214 says that the body is read to completion before done is
  signalled. Run `WebclientFreed`.
* `N/Webserver/Webserver_RP2040.cpp`:400 (and :411). A WebSocket that is refused is
  closed and its slot released, but `tcp_arg` is not cleared. lwIP calls `onErr()` with it
  when that connection is reset, and the slot's next connection is given up in its
  place: it gets no answer and its events are dropped. The comment at :731 says why
  the callbacks are taken off: so that late events do not reach a slot that is used
  again. Run `WebserverRobbed`; `SlotOwnership` holds for all other ways to end.
* `N/Webserver/Webserver_ESP32.cpp`:282. `doWsUpgrade()` appends the session under the
  lock and announces it after. If the loop task finds it dead in between, it takes it out
  first, and the announcement then leaves a client that no session owns. The next
  connection with that descriptor gets lines logged before it came; `Webconsole.cpp`:110 says there is
  no backlog. Run `WebsocketOvertaken`.
* `N/MQTT/Broker.cpp`:573. In broker mode a refused send is not retried.
  `README.MQTT.md`:176 says back-pressure costs latency, not data. Run
  `MqttBrokerBackPressure`.

Without a run of its own, since the model has the code's behaviour and `BodyBeforeDone` states it:

* `N/Webclient/Handler_ESP32.cpp`:262-268 and 316-322. A piece of the body that goes beyond `bodyMaxSize` is
  dropped without an `onData` entry, and nothing is read after it. `README.Webclient.md`:75 says that the body
  "is always read to completion" and that `onData` "is called for each chunk whenever it is set, regardless of
  buffering", :214 that the task "always reads the response body to completion before signalling
  done", :85 that only the buffering stops. `onDone` then has `bodyIncomplete()`
  (:374). The RP2040 does the same (`N/Webclient/Handler.cpp`:640-650, 686-697).

Not findings, but worth knowing:

* Web client: while the link is lost or power is saved, `loop()` is not called, so that no request ends, not even by
  its timeout (section 3, fairness).

* `N/MQTT/Client.cpp`:535 leaves out a pbuf that does not fit behind an incomplete
  packet and goes on parsing; `InOrder` therefore assumes that the bursts between
  two parses fit (`AllFit`), and promises nothing beyond.
* `N/Webclient/Handler_ESP32.cpp`:396: a callback that sends a request while
  `_activeCallbacks` is at its capacity makes the vector grow under the iterator of `loop()`.
  `README.Webclient.md`:216 gives the queue a length of `OPENKNX_WEBCLIENT_SLOTS`; the code has four times that.
* `N/Module.cpp`:522 and 1252-1260: `checkLinkStatus()` may open the KNX socket after a
  short loss of the link without noting `_boundIp`, or clear `_boundIp` just after the event
  task noted it. A later renewal of the lease then closes and opens the socket although nothing
  changed, which `CHANGELOG.md`:24 means to avoid. The socket ends up right (`Settles`).
* An address that is lost without the link is not told to the callbacks: they hear of
  the link only (`ToldInTurn`, `Settles`).
* A nested `handleOTA()` may end ArduinoOTA inside its own `handle()` when the prog mode
  ends during an update; `NTP.waitSet()` that timed out counts as set.
* WebSockets, ESP32: `onConnect(false)` is called twice after a failed send; a second command
  of one pass replaces the first (`_pendingCmd`); frames read just before a FIN are
  dropped; the ring's position wraps at 2^32.
* File manager: an earlier chunk that is sent again removes the file; deleting and uploading anew
  between two chunks can mix contents; an empty upload is refused.

## 7. Plan

Done, in this order: send queue with its abstract FIFO, ping, web
client of the RP2040, MQTT client, receive buffers, broker, web server of the RP2040; web client of
the ESP32 with the promise common to both platforms, WebSockets of the ESP32 with
console and group monitor, network module with NTP and OTA; then the theorems of section 4.

Every safety invariant and safety action property that a passing run checks now has its theorem. What
could still be proved: the action mapping of `Ping` and `MqttBroker` to abstract
specifications that are not written yet.

Next modules: `FileUpload`, upload sessions with interrupted clients; `MqttCodec`,
variable length integers and `topicMatches` against reference definitions over
bounded inputs; `MqttModule`, queue, client and link composed, for the loop between
a retained message larger than the buffer and reconnecting.
