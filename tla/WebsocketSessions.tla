-------------------------- MODULE WebsocketSessions --------------------------
(***************************************************************************)
(* Webserver/Webserver_ESP32.cpp: WebSockets between two tasks.  The httpd *)
(* task upgrades a connection: it takes the socket out of httpd's hands,   *)
(* appends a session to g_wsSessions and its fd to the clients of the      *)
(* route.  The loop task serves the sessions in Webserver::loop(), removes *)
(* dead ones, and sends: log lines to the clients of the console, bus      *)
(* telegrams to those of the group monitor.  A socket that is closed gives *)
(* its fd to the next connection.                                          *)
(***************************************************************************)
EXTENDS Integers, Sequences, FiniteSets, Functions

CONSTANTS
    Conn,        \* connections
    Fd,          \* file descriptors of sockets, numbers
    None,        \* no connection
    Monitors,    \* connections to /groupmonitor; the others are to /console
    MaxSockets,  \* OPENKNX_WEBSOCKET_MAX
    SocketRxCap, \* OPENKNX_WEBSOCKET_RX_CAP, in frames
    RingSize,    \* Logger::RING_SIZE, in lines
    Overtakes,   \* the loop task may serve a session the httpd task has
                 \* appended and not yet announced
    MaxFrames,   \* bound: frames of a peer that are unread
    MaxLines     \* bound: lines logged

WebsocketSessionsAssumption ==
    /\ None \notin Conn \cup Fd /\ Monitors \subseteq Conn /\ Fd \subseteq Nat
    /\ MaxSockets \in Nat \ {0} /\ SocketRxCap \in Nat /\ RingSize \in Nat \ {0}
    /\ Overtakes \in BOOLEAN /\ MaxFrames \in Nat /\ MaxLines \in Nat

VARIABLES
    peer,         \* each connection, see NewPeer
    socket,       \* the connection that has a file descriptor
    httpd,        \* where the httpd task is in an upgrade, and of which connection
    sessions,     \* g_wsSessions, each session as its connection
    marked,       \* sessions with markedDead
    routeClients, \* WebSocketRoute::clients, each entry as its connection
    loop,         \* where the loop task is, and what it has yet to visit
    written,      \* Logger::ringWritePos(), in lines
    readPos,      \* _consoleReadPos
    last,         \* last line logged before each connection, or sent to it (ghost)
    foreign       \* connections that were sent what is not for them (ghost)

consoleVars == <<written, readPos, last, foreign>>
taskVars    == <<socket, httpd, sessions, marked, routeClients, loop>>
sessionsVars == <<peer, taskVars, consoleVars>>

\* st: "http" is httpd's, "async" taken from it, "returned" given back to be
\* closed.  unread: complete frames of the peer that onMessage has not got; the
\* last one is a Close if bye.  An incomplete one waits in WsSession::rx.
NewPeer == [st |-> "new", fd |-> None, unread |-> 0, bye |-> FALSE, gone |-> FALSE]

SessionsInit ==
    /\ peer = [c \in Conn |-> NewPeer] /\ socket = [f \in Fd |-> None]
    /\ httpd = [at |-> "idle", conn |-> None]
    /\ sessions = <<>> /\ marked = {} /\ routeClients = <<>>
    /\ loop = [at |-> "serve", todo |-> <<>>, upTo |-> 0]
    /\ written = 0 /\ readPos = <<>>
    /\ last = [c \in Conn |-> 0] /\ foreign = {}

FdOf(c) == peer[c].fd

\* The elements of seq that are in S, in their order.
Among(seq, S) ==
    LET at == {i \in DOMAIN seq : seq[i] \in S}
        Rank(i) == Cardinality({j \in at : j <= i})
    IN  [n \in 1 .. Cardinality(at) |-> seq[CHOOSE i \in at : Rank(i) = n]]

\* The clients of the console, or those of the group monitor.
ConsoleClients == Among(routeClients, Conn \ Monitors)
MonitorClients == Among(routeClients, Monitors)

\* Mutant: the entry stays, for the next connection that gets the fd.
EntryStays(c, fd) == routeClients

\* notifySocketConnect(false) on the route of c: every entry with its fd goes.
ClientsWithout(c, fd) ==
    Among(routeClients, {d \in Conn : FdOf(d) = fd => (d \in Monitors) # (c \in Monitors)})

\* ... and the console's onConnect forgets where that fd was.
ForgetsPosition(c, fd) ==
    readPos' = IF c \in Monitors THEN readPos
               ELSE Restrict(readPos, DOMAIN readPos \ {fd})

-----------------------------------------------------------------------------
(* The peers.                                                              *)

\* httpd accepts a connection, which gets the lowest free file descriptor.
Connects(c) ==
    /\ peer[c].st = "new"
    /\ \E f \in Fd :
          /\ socket[f] = None /\ \A g \in Fd : socket[g] = None => f <= g
          /\ socket' = [socket EXCEPT ![f] = c]
          /\ peer' = [peer EXCEPT ![c].st = "http", ![c].fd = f]
    /\ UNCHANGED <<httpd, sessions, marked, routeClients, loop, consoleVars>>

\* Over an upgraded connection: a frame, which may be a Close.
SendsFrame(c) ==
    /\ peer[c].st = "async" /\ ~peer[c].gone /\ ~peer[c].bye
    /\ peer[c].unread < MaxFrames
    /\ \E bye \in BOOLEAN :
          peer' = [peer EXCEPT ![c].unread = @ + 1, ![c].bye = bye]
    /\ UNCHANGED <<taskVars, consoleVars>>

\* The peer closes or resets the connection, or keepalive finds it gone.
Leaves(c) ==
    /\ peer[c].st \in {"http", "async"} /\ ~peer[c].gone
    /\ peer' = [peer EXCEPT ![c].gone = TRUE]
    /\ UNCHANGED <<taskVars, consoleVars>>

\* Anything in the firmware logs a line.  Lines logged during a pass of the
\* console count as logged after it.
Logs ==
    /\ written < MaxLines /\ loop.at # "console"
    /\ written' = written + 1
    /\ UNCHANGED <<peer, taskVars, readPos, last, foreign>>

-----------------------------------------------------------------------------
(* The httpd task: platformHttpHandler() and doWsUpgrade().                *)

\* A request to upgrade finds fewer sessions than the limit; at the limit it
\* is answered with 503 and nothing changes.
UpgradeStarts(c) ==
    /\ httpd.at = "idle" /\ peer[c].st = "http"
    /\ Len(sessions) < MaxSockets
    /\ httpd' = [at |-> "begin", conn |-> c]
    /\ UNCHANGED <<peer, socket, sessions, marked, routeClients, loop, consoleVars>>

\* No key, or httpd_req_async_handler_begin() fails: a plain request after all.
UpgradeFails ==
    /\ httpd.at = "begin"
    /\ httpd' = [at |-> "idle", conn |-> None]
    /\ UNCHANGED <<peer, socket, sessions, marked, routeClients, loop, consoleVars>>

\* The socket leaves httpd's poll set, and 101 is sent.
AsyncBegins ==
    /\ httpd.at = "begin"
    /\ httpd' = [httpd EXCEPT !.at = "append"]
    /\ peer' = [peer EXCEPT ![httpd.conn].st = "async"]
    /\ UNCHANGED <<socket, sessions, marked, routeClients, loop, consoleVars>>

\* Mutant: there is no memory for the session, and nobody gives the socket back.
LosesSession ==
    /\ httpd.at = "append"
    /\ httpd' = [at |-> "idle", conn |-> None]
    /\ UNCHANGED <<peer, socket, sessions, marked, routeClients, loop, consoleVars>>

\* new WsSession, and push_back() under the lock.
AppendsSession ==
    /\ httpd.at = "append"
    /\ sessions' = Append(sessions, httpd.conn)
    /\ httpd' = [httpd EXCEPT !.at = "announce"]
    /\ UNCHANGED <<peer, socket, marked, routeClients, loop, consoleVars>>

\* notifySocketConnect(true).
Announces ==
    /\ httpd.at = "announce"
    /\ routeClients' = Append(routeClients, httpd.conn)
    /\ last' = [last EXCEPT ![httpd.conn] = written]
    /\ httpd' = [at |-> "idle", conn |-> None]
    /\ UNCHANGED <<peer, socket, sessions, marked, loop, written, readPos, foreign>>

\* httpd closes a connection that is its own: the peer left, it was given
\* back, or it was purged to make room.  What it was is forgotten.
HttpdCloses(f) ==
    /\ httpd.at = "idle"
    /\ socket[f] # None /\ peer[socket[f]].st \in {"http", "returned"}
    /\ socket' = [socket EXCEPT ![f] = None]
    /\ peer' = [peer EXCEPT ![socket[f]] = [NewPeer EXCEPT !.st = "closed", !.fd = f]]
    /\ last' = [last EXCEPT ![socket[f]] = 0]
    /\ UNCHANGED <<httpd, sessions, marked, routeClients, loop, written, readPos, foreign>>

-----------------------------------------------------------------------------
(* The loop task: Webserver::loop().                                       *)

GoesTo(at, todo) == loop' = [loop EXCEPT !.at = at, !.todo = todo]

\* The snapshot of g_wsSessions.
TakesSessions ==
    /\ loop.at = "serve" /\ (Overtakes \/ httpd.at # "announce")
    /\ GoesTo("session", sessions)
    /\ UNCHANGED <<peer, socket, httpd, sessions, marked, routeClients, consoleVars>>

InSession(c) == loop.at = "session" /\ loop.todo # <<>> /\ c = loop.todo[1]

\* What recv() has for the session c does not fit into WsSession::rx, or ends
\* with the end of the connection; what it holds is not looked at any more.
Overflows(c) == peer[c].unread > SocketRxCap

\* recv() until nothing is left, wsParseFrames(), and the session lives on.
Serves(c) ==
    /\ InSession(c)
    /\ ~Overflows(c) /\ ~peer[c].gone /\ ~peer[c].bye /\ c \notin marked
    /\ peer' = [peer EXCEPT ![c].unread = 0]
    /\ GoesTo("session", Tail(loop.todo))
    /\ UNCHANGED <<socket, httpd, sessions, marked, routeClients, consoleVars>>

\* The session is dead.  Its frames are handed over if it ends with a Close or
\* was marked.
Dies(c) ==
    /\ InSession(c)
    /\ \/ /\ Overflows(c) \/ peer[c].gone
          /\ UNCHANGED peer
       \/ /\ ~Overflows(c) /\ ~peer[c].gone
          /\ peer[c].bye \/ c \in marked
          /\ peer' = [peer EXCEPT ![c].unread = 0]
    /\ GoesTo("disconnect", loop.todo)
    /\ UNCHANGED <<socket, httpd, sessions, marked, routeClients, consoleVars>>

\* notifySocketConnect(false) ...
Disconnects ==
    /\ loop.at = "disconnect"
    /\ LET c == loop.todo[1] IN
          routeClients' = ClientsWithout(c, FdOf(c)) /\ ForgetsPosition(c, FdOf(c))
    /\ GoesTo("complete", loop.todo)
    /\ UNCHANGED <<peer, socket, httpd, sessions, marked, written, last, foreign>>

\* ... httpd_req_async_handler_complete(): httpd will close the socket ...
Completes ==
    /\ loop.at = "complete"
    /\ peer' = [peer EXCEPT ![loop.todo[1]].st = "returned"]
    /\ GoesTo("erase", loop.todo)
    /\ UNCHANGED <<socket, httpd, sessions, marked, routeClients, consoleVars>>

\* ... and the session is erased and deleted.
Erases ==
    /\ loop.at = "erase"
    /\ sessions' = Among(sessions, Conn \ {loop.todo[1]})
    /\ marked' = marked \ {loop.todo[1]}
    /\ GoesTo("session", Tail(loop.todo))
    /\ UNCHANGED <<peer, socket, httpd, routeClients, consoleVars>>

-----------------------------------------------------------------------------
(* The loop task: sending to an fd, wsSendText().                          *)

\* A frame meant for the client c goes to whoever has its fd now.  That is a
\* stranger unless it is c, still upgraded: any other connection, another
\* WebSocket of the same route too.  It may be a line that is old.
Reaches(c, old) ==
    LET to == socket[FdOf(c)]
    IN  foreign' = foreign
            \cup (IF to = c /\ peer[c].st = "async" THEN {} ELSE {<<to, "stranger">>})
            \cup (IF old THEN {<<to, "old">>} ELSE {})

\* Mutant: the session is not marked.
FailsUnmarked(c) ==
    routeClients' = ClientsWithout(c, FdOf(c)) /\ ForgetsPosition(c, FdOf(c)) /\ marked' = marked

\* WsSendResult::Failed: disconnected, and the first session with that fd is
\* marked.
Fails(c) ==
    /\ routeClients' = ClientsWithout(c, FdOf(c)) /\ ForgetsPosition(c, FdOf(c))
    /\ LET with == Among(sessions, {d \in Conn : FdOf(d) = FdOf(c)})
       IN  marked' = IF with = <<>> THEN marked ELSE marked \cup {with[1]}

\* Webconsole::loop(): the clients, and how far the log is.  Positions of fds
\* that are no clients any more are erased.
ConsoleStarts ==
    /\ loop.at = "session" /\ loop.todo = <<>>
    /\ loop' = [at |-> "console", todo |-> ConsoleClients, upTo |-> written]
    /\ readPos' = IF ConsoleClients = <<>> THEN readPos
                  ELSE Restrict(readPos, DOMAIN readPos \cap
                                         {FdOf(c) : c \in Range(ConsoleClients)})
    /\ UNCHANGED <<peer, socket, httpd, sessions, marked, routeClients, written, last,
                   foreign>>

\* A client that is not known starts with the next line, one too far behind
\* with the oldest in the ring.
Position(fd) ==
    LET p == IF fd \in DOMAIN readPos THEN readPos[fd] ELSE loop.upTo
    IN  IF loop.upTo - p > RingSize THEN loop.upTo - RingSize ELSE p

SetPosition(fd, p) ==
    readPos' = [f \in DOMAIN readPos \cup {fd} |-> IF f = fd THEN p ELSE readPos[f]]

InConsole(c) == loop.at = "console" /\ loop.todo # <<>> /\ c = loop.todo[1]

\* Mutant: one line too many.
ConsoleSendsPast(c) ==
    /\ InConsole(c) /\ Position(FdOf(c)) <= loop.upTo
    /\ SetPosition(FdOf(c), Position(FdOf(c)) + 1)
    /\ LET line == Position(FdOf(c)) + 1
           to   == socket[FdOf(c)]
       IN  /\ Reaches(c, to # None /\ line <= last[to])
           /\ last' = IF to = None THEN last ELSE [last EXCEPT ![to] = line]
    /\ UNCHANGED <<peer, taskVars, written>>

\* The next line is sent.
ConsoleSends(c) ==
    /\ InConsole(c) /\ Position(FdOf(c)) < loop.upTo
    /\ SetPosition(FdOf(c), Position(FdOf(c)) + 1)
    /\ LET line == Position(FdOf(c)) + 1
           to   == socket[FdOf(c)]
       IN  /\ Reaches(c, to # None /\ line <= last[to])
           /\ last' = IF to = None THEN last ELSE [last EXCEPT ![to] = line]
    /\ UNCHANGED <<peer, taskVars, written>>

\* All lines are sent, or the socket is full: the rest waits.
ConsoleNext(c) ==
    /\ InConsole(c)
    /\ SetPosition(FdOf(c), Position(FdOf(c)))
    /\ GoesTo("console", Tail(loop.todo))
    /\ UNCHANGED <<peer, socket, httpd, sessions, marked, routeClients, written, last,
                   foreign>>

ConsoleFails(c) ==
    /\ InConsole(c) /\ Position(FdOf(c)) < loop.upTo
    /\ Fails(c)
    /\ GoesTo("console", Tail(loop.todo))
    /\ UNCHANGED <<peer, socket, httpd, sessions, written, last, foreign>>

\* GroupMonitor::onFrame(): a telegram for all clients there are now, or none.
Broadcasts ==
    /\ loop.at = "console" /\ loop.todo = <<>>
    /\ \/ loop' = [at |-> "broadcast", todo |-> MonitorClients, upTo |-> 0]
       \/ loop' = [at |-> "serve", todo |-> <<>>, upTo |-> 0]
    /\ UNCHANGED <<peer, socket, httpd, sessions, marked, routeClients, consoleVars>>

InBroadcast(c) == loop.at = "broadcast" /\ loop.todo # <<>> /\ c = loop.todo[1]

\* It is sent, or dropped because the socket is full ...
BroadcastSends(c) ==
    /\ InBroadcast(c)
    /\ UNCHANGED foreign \/ Reaches(c, FALSE)
    /\ GoesTo("broadcast", Tail(loop.todo))
    /\ UNCHANGED <<peer, socket, httpd, sessions, marked, routeClients, written,
                   readPos, last>>

\* ... or the connection fails.
BroadcastFails(c) ==
    /\ InBroadcast(c)
    /\ Fails(c)
    /\ GoesTo("broadcast", Tail(loop.todo))
    /\ UNCHANGED <<peer, socket, httpd, sessions, written, last, foreign>>

BroadcastEnds ==
    /\ loop.at = "broadcast" /\ loop.todo = <<>>
    /\ GoesTo("serve", <<>>)
    /\ UNCHANGED <<peer, socket, httpd, sessions, marked, routeClients, consoleVars>>

-----------------------------------------------------------------------------
LoopTask ==
    \/ TakesSessions \/ Disconnects \/ Completes \/ Erases
    \/ ConsoleStarts \/ Broadcasts \/ BroadcastEnds
    \/ \E c \in Conn : \/ Serves(c) \/ Dies(c)
                       \/ ConsoleSends(c) \/ ConsoleNext(c) \/ ConsoleFails(c)
                       \/ BroadcastSends(c) \/ BroadcastFails(c)

HttpdUpgrades == UpgradeFails \/ AsyncBegins \/ AppendsSession \/ Announces
HttpdTask == HttpdUpgrades \/ \E f \in Fd : HttpdCloses(f)

Peers == Logs \/ \E c \in Conn : Connects(c) \/ SendsFrame(c) \/ Leaves(c) \/ UpgradeStarts(c)

SessionsNext == LoopTask \/ HttpdTask \/ Peers

SessionsSpec == SessionsInit /\ [][SessionsNext]_sessionsVars

(* Both tasks go on; power is not saved for ever (Module.cpp:627).         *)
SessionsFairness == WF_sessionsVars(LoopTask) /\ WF_sessionsVars(HttpdUpgrades)

SessionsFairSpec == SessionsSpec /\ SessionsFairness

-----------------------------------------------------------------------------
(* Properties.                                                             *)

PeerRecord ==
    [st : {"new", "http", "async", "returned", "closed"}, fd : Fd \cup {None},
     unread : 0..MaxFrames, bye : BOOLEAN, gone : BOOLEAN]

HttpdRecord ==
    [at : {"idle", "begin", "append", "announce"}, conn : Conn \cup {None}]

LoopRecord ==
    [at : {"serve", "session", "disconnect", "complete", "erase", "console", "broadcast"},
     todo : Seq(Conn), upTo : 0..MaxLines]

\* Every variable has its type.
SessionsTypeOK ==
    /\ peer \in [Conn -> PeerRecord] /\ socket \in [Fd -> Conn \cup {None}]
    /\ httpd \in HttpdRecord /\ loop \in LoopRecord
    /\ sessions \in Seq(Conn) /\ routeClients \in Seq(Conn) /\ marked \subseteq Conn
    /\ written \in 0..MaxLines
    /\ DOMAIN readPos \subseteq Fd /\ \A f \in DOMAIN readPos : readPos[f] \in 0..written
    /\ last \in [Conn -> 0..written]
    /\ foreign \subseteq (Conn \cup {None}) \X {"stranger", "old"}

\* The session the loop task is removing has lost its client entry.
Removing(c) == loop.at \in {"complete", "erase"} /\ loop.todo[1] = c

\* The clients of the routes are the sessions, each once: a session is missing
\* only before it is announced, after a failed send and while it is removed.
\* There are never more than the limit, and none is of a closed socket.
ClientsAreSessions ==
    /\ Len(sessions) <= MaxSockets
    /\ IsInjective(sessions) /\ IsInjective(routeClients)
    /\ Range(routeClients) = {c \in Range(sessions) :
           /\ c \notin marked /\ ~Removing(c)
           /\ ~(httpd.at = "announce" /\ httpd.conn = c)}
    /\ \A c \in Range(routeClients) : socket[FdOf(c)] = c /\ peer[c].st = "async"

\* What is sent to a client reaches that client, whatever becomes of file
\* descriptors, never another connection; a console gets lines logged after it
\* connected, in order and each at most once (Webconsole.cpp: no backlog).
FramesOwn == foreign = {}

\* A console gets nothing logged before it connected, nor a line twice
\* (Webconsole.cpp: "New client: start from current write position (no
\* backlog)").
NoBacklog == \A c \in Conn : <<c, "old">> \notin foreign

\* The loop task owes the connection c something: a frame to hand over, or the
\* end of its session.
Owed(c) ==
    /\ peer[c].st = "async"
    /\ peer[c].gone \/ c \in marked \/ peer[c].unread > 0

\* A session ends when its peer has left or a send has failed; a frame that has
\* come is handed to onMessage while the session lasts.
SessionServed == \A c \in Conn : []<>~Owed(c)
=============================================================================
