------------------------ MODULE WebsocketSessionsProofs ------------------------
(***************************************************************************)
(* The WebSockets of the ESP32 for every number of connections, sockets,   *)
(* sessions, frames and lines of the log.                                  *)
(***************************************************************************)
EXTENDS WebsocketSessions, FiniteSetTheorems, SequenceTheorems, TLAPS

-----------------------------------------------------------------------------
(* The inductive strengthenings: of the types, whatever the two tasks do,  *)
(* and of the rest, if loop() leaves alone what is not announced yet.      *)

\* Connections that have had a socket.
Known == {c \in Conn : peer[c].fd \in Fd}

KnownInv ==
    /\ \A c \in Conn : peer[c].st # "new" => c \in Known
    /\ httpd.at # "idle" => httpd.conn \in Known
    /\ Range(sessions) \subseteq Known
    /\ Range(routeClients) \subseteq Known
    /\ Range(loop.todo) \subseteq Known

LoopInv ==
    /\ loop.at \in {"disconnect", "complete", "erase"} => loop.todo # <<>>
    /\ loop.at = "console" => loop.upTo <= written

TInv == SessionsTypeOK /\ KnownInv /\ LoopInv

\* No two connections that are open share a socket.
SocketInv ==
    \A c \in Conn :
        peer[c].st \in {"http", "async", "returned"} => socket[peer[c].fd] = c

Serving == loop.at \in {"session", "disconnect", "complete", "erase"}

\* How far an upgrade is: the session is there before it is announced, and
\* until then loop() has nothing to do with it.
UpgradeInv ==
    /\ httpd.at = "begin" => peer[httpd.conn].st = "http"
    /\ httpd.at \in {"append", "announce"} => peer[httpd.conn].st = "async"
    /\ httpd.at = "append" => httpd.conn \notin Range(sessions)
    /\ httpd.at \in {"begin", "append"} => Len(sessions) < MaxSockets
    /\ httpd.at = "announce" => /\ httpd.conn \in Range(sessions) \ marked
                                /\ Serving => httpd.conn \notin Range(loop.todo)

\* A session keeps its socket but for the moment between giving it back and
\* erasing the session.
SessionsInv ==
    /\ Len(sessions) <= MaxSockets /\ IsInjective(sessions)
    /\ marked \subseteq Range(sessions)
    /\ \A c \in Range(sessions) :
          \/ peer[c].st = "async"
          \/ /\ loop.at = "erase" /\ c = loop.todo[1]
             /\ peer[c].st \in {"returned", "closed"}

ClientsInv ==
    /\ IsInjective(routeClients)
    /\ Range(routeClients) = {c \in Range(sessions) :
           /\ c \notin marked /\ ~Removing(c)
           /\ ~(httpd.at = "announce" /\ httpd.conn = c)}

\* What loop() goes through is still there when it comes to it.
TodoInv ==
    /\ IsInjective(loop.todo)
    /\ Serving => Range(loop.todo) \subseteq Range(sessions)
    /\ loop.at = "console" => Range(loop.todo) \subseteq Range(routeClients) \ Monitors
    /\ loop.at = "broadcast" => Range(loop.todo) \subseteq Range(routeClients) \cap Monitors

\* Only a socket that is a console's has a position, and it is past what was
\* logged before the console connected and what was sent to it.
PositionInv ==
    /\ DOMAIN readPos \subseteq {FdOf(c) : c \in Range(routeClients) \ Monitors}
    /\ \A c \in Range(routeClients) \ Monitors :
          FdOf(c) \in DOMAIN readPos => last[c] <= readPos[FdOf(c)]
    /\ loop.at = "console" =>
          \A c \in Range(loop.todo) :
             FdOf(c) \notin DOMAIN readPos => last[c] <= loop.upTo

OInv == /\ SocketInv /\ UpgradeInv /\ SessionsInv /\ ClientsInv /\ TodoInv
        /\ PositionInv /\ FramesOwn

IInv == TInv /\ OInv

-----------------------------------------------------------------------------
(* What the model does with sequences.                                     *)

\* A list of clients without some of them.
LEMMA AmongFacts ==
    ASSUME NEW T, NEW seq \in Seq(T), NEW S
    PROVE  /\ Among(seq, S) \in Seq(T)
           /\ Len(Among(seq, S)) <= Len(seq)
           /\ Range(Among(seq, S)) = Range(seq) \cap S
           /\ IsInjective(seq) => IsInjective(Among(seq, S))
  <1> DEFINE at == {i \in DOMAIN seq : seq[i] \in S}
             upTo(i) == {j \in at : j <= i}
             Rank(i) == Cardinality(upTo(i))
             n == Cardinality(at)
             Place(m) == CHOOSE i \in at : Rank(i) = m
             among == [m \in 1 .. n |-> seq[Place(m)]]
  <1>1. Among(seq, S) = among
    BY DEF Among
  <1>2. DOMAIN seq = 1 .. Len(seq) /\ Len(seq) \in Nat /\ \A i \in DOMAIN seq : seq[i] \in T
    OBVIOUS
  <1>3. /\ at \subseteq DOMAIN seq /\ at \subseteq Nat
        /\ IsFiniteSet(at) /\ n \in Nat /\ n <= Len(seq)
    <2>1. at \in SUBSET (1 .. Len(seq))
      BY <1>2
    <2>2. IsFiniteSet(1 .. Len(seq)) /\ Cardinality(1 .. Len(seq)) = Len(seq)
      BY SMTT(30), <1>2, FS_Interval
    <2> QED
      BY <1>2, <2>1, <2>2, FS_Subset, FS_CardinalityType
  <1>4. ASSUME NEW i \in at
        PROVE  IsFiniteSet(upTo(i)) /\ Rank(i) \in 1 .. n /\ i \in upTo(i)
    <2>1. upTo(i) \in SUBSET at /\ i \in upTo(i)
      BY <1>3
    <2>2. IsFiniteSet(upTo(i)) /\ Rank(i) <= n /\ Rank(i) \in Nat
      BY <1>3, <2>1, FS_Subset, FS_CardinalityType
    <2>3. Rank(i) # 0
      BY <2>1, <2>2, FS_EmptySet
    <2> QED
      BY <1>3, <2>1, <2>2, <2>3
  <1>5. ASSUME NEW i \in at, NEW j \in at, i < j
        PROVE  Rank(i) # Rank(j)
    <2>1. upTo(i) \in SUBSET upTo(j)
      BY <1>3, <1>5
    <2>2. j \in upTo(j) /\ j \notin upTo(i)
      BY <1>3, <1>5
    <2>3. IsFiniteSet(upTo(j))
      BY <1>4
    <2> HIDE DEF upTo
    <2> QED
      BY <2>1, <2>2, <2>3, FS_Subset
  <1>6. \A i, j \in at : Rank(i) = Rank(j) => i = j
    <2>1. \A i, j \in at : i < j \/ j < i \/ i = j
      BY <1>3
    <2> HIDE DEF at, Rank
    <2> QED
      BY <1>5, <2>1
  <1>7. \A m \in 1 .. n : \E i \in at : Rank(i) = m
    <2> DEFINE rank == [i \in at |-> Rank(i)]
    <2>1. rank \in [at -> 1 .. n]
      BY <1>4
    <2>2. \A i \in at : rank[i] = Rank(i)
      OBVIOUS
    <2>3. IsFiniteSet(1 .. n) /\ Cardinality(1 .. n) = n
      BY <1>3, FS_Interval
    <2> HIDE DEF rank, Rank, at
    <2>4. rank \in Injection(at, 1 .. n)
      BY <1>6, <2>1, <2>2 DEF Injection, IsInjective
    <2>5. rank \in Surjection(at, 1 .. n)
      BY <2>3, <2>4, FS_Injection
    <2> QED
      BY <2>1, <2>2, <2>5 DEF Surjection
  <1> HIDE DEF at, Rank, n
  <1>8. \A m \in 1 .. n : Place(m) \in at /\ Rank(Place(m)) = m
    BY <1>7
  <1> HIDE DEF Place
  <1>9. among \in Seq(T) /\ Len(among) = n /\ DOMAIN among = 1 .. n
    <2>1. among \in [1 .. n -> T]
      BY <1>2, <1>3, <1>8
    <2> HIDE DEF among
    <2> QED
      BY <1>3, <2>1, IsASeq, LenProperties
  <1>10. \A m \in 1 .. n : among[m] = seq[Place(m)]
    OBVIOUS
  <1> HIDE DEF among
  <1>11. \A i \in at : seq[i] \in S /\ i \in DOMAIN seq
    BY DEF at
  <1>12. Range(among) = Range(seq) \cap S
    <2>1. Range(among) \subseteq Range(seq) \cap S
      BY <1>8, <1>9, <1>10, <1>11 DEF Range
    <2>2. ASSUME NEW i \in DOMAIN seq, seq[i] \in S
          PROVE  seq[i] \in Range(among)
      <3>1. i \in at
        BY <2>2 DEF at
      <3>2. Rank(i) \in 1 .. n /\ Place(Rank(i)) = i
        BY <1>4, <1>6, <1>8, <3>1
      <3> QED
        BY <1>9, <1>10, <3>2 DEF Range
    <2> QED
      BY <2>1, <2>2 DEF Range
  <1>13. IsInjective(seq) => IsInjective(among)
    BY <1>8, <1>9, <1>10, <1>11 DEF IsInjective
  <1> QED
    BY <1>1, <1>3, <1>9, <1>12, <1>13

\* The first element and the rest.
LEMMA TailFacts ==
    ASSUME NEW T, NEW seq \in Seq(T), seq # <<>>
    PROVE  /\ Tail(seq) \in Seq(T) /\ seq[1] \in Range(seq)
           /\ Range(Tail(seq)) \subseteq Range(seq)
           /\ IsInjective(seq) => IsInjective(Tail(seq)) /\ seq[1] \notin Range(Tail(seq))
  <1>1. Len(seq) \in Nat /\ Len(seq) >= 1 /\ DOMAIN seq = 1 .. Len(seq)
    OBVIOUS
  <1>2. /\ Tail(seq) \in Seq(T) /\ DOMAIN Tail(seq) = 1 .. Len(seq) - 1
        /\ \A i \in 1 .. Len(seq) - 1 : Tail(seq)[i] = seq[i + 1]
    OBVIOUS
  <1>3. \A i \in 1 .. Len(seq) - 1 : i + 1 \in 1 .. Len(seq) /\ i + 1 # 1
    BY <1>1
  <1>4. \A i, j \in 1 .. Len(seq) - 1 : i + 1 = j + 1 => i = j
    BY <1>1
  <1>5. 1 \in DOMAIN seq
    BY <1>1
  <1> DEFINE tail == Tail(seq)
  <1> HIDE DEF tail
  <1>6. /\ tail \in Seq(T) /\ DOMAIN tail = 1 .. Len(seq) - 1
        /\ \A i \in 1 .. Len(seq) - 1 : tail[i] = seq[i + 1]
    BY <1>2 DEF tail
  <1>7. Range(tail) \subseteq Range(seq) /\ seq[1] \in Range(seq)
    BY <1>1, <1>3, <1>5, <1>6 DEF Range
  <1>8. IsInjective(seq) => IsInjective(tail)
    <2> SUFFICES ASSUME IsInjective(seq), NEW i \in DOMAIN tail, NEW j \in DOMAIN tail,
                        tail[i] = tail[j]
                 PROVE  i = j
      BY Zenon DEF IsInjective
    <2>1. i \in 1 .. Len(seq) - 1 /\ j \in 1 .. Len(seq) - 1
      BY ONLY <1>6
    <2>2. /\ i + 1 \in DOMAIN seq /\ j + 1 \in DOMAIN seq
          /\ seq[i + 1] = seq[j + 1]
      BY ONLY <1>1, <1>3, <1>6, <2>1, tail[i] = tail[j]
    <2>3. i + 1 = j + 1
      BY <2>2, Zenon DEF IsInjective
    <2> QED
      BY ONLY <1>4, <2>1, <2>3
  <1>9. IsInjective(seq) => seq[1] \notin Range(tail)
    BY <1>1, <1>3, <1>5, <1>6 DEF IsInjective, Range
  <1> QED
    BY <1>6, <1>7, <1>8, <1>9 DEF tail

\* A list of clients with one more.
LEMMA AppendFacts ==
    ASSUME NEW T, NEW seq \in Seq(T), NEW e \in T
    PROVE  /\ Append(seq, e) \in Seq(T) /\ Len(Append(seq, e)) = Len(seq) + 1
           /\ Range(Append(seq, e)) = Range(seq) \cup {e}
           /\ IsInjective(seq) /\ e \notin Range(seq) => IsInjective(Append(seq, e))
  <1> DEFINE longer == Append(seq, e)
             n == Len(seq)
  <1>1. n \in Nat /\ DOMAIN seq = 1 .. n
    OBVIOUS
  <1>2. /\ longer \in Seq(T) /\ Len(longer) = n + 1 /\ DOMAIN longer = 1 .. n + 1
        /\ \A i \in 1 .. n : longer[i] = seq[i]
        /\ longer[n + 1] = e
    OBVIOUS
  <1> HIDE DEF longer, n
  <1>3. \A i : i \in 1 .. n + 1 <=> i \in 1 .. n \/ i = n + 1
    BY <1>1
  <1>4. n + 1 \notin 1 .. n
    BY <1>1
  <1>5. Range(longer) = Range(seq) \cup {e}
    BY <1>1, <1>2, <1>3 DEF Range
  <1>6. IsInjective(seq) /\ e \notin Range(seq) => IsInjective(longer)
    BY <1>1, <1>2, <1>3 DEF IsInjective, Range
  <1> QED
    BY <1>2, <1>5, <1>6 DEF longer, n

\* A list without clients.
LEMMA EmptyFacts == Range(<<>>) = {} /\ IsInjective(<<>>)
  BY DEF Range, IsInjective

-----------------------------------------------------------------------------
(* The types, whatever the two tasks do.                                   *)

\* One connection changes.
LEMMA PeerChange ==
    ASSUME TInv, NEW c \in Conn, NEW p \in PeerRecord,
           c \in Known \/ p.st # "new" => p.fd \in Fd, peer' = [peer EXCEPT ![c] = p]
    PROVE  /\ peer' \in [Conn -> PeerRecord] /\ Known \subseteq Known'
           /\ \A d \in Conn : peer'[d].st # "new" => d \in Known'
           /\ peer'[c] = p /\ \A d \in Conn : d # c => peer'[d] = peer[d]
  BY DEF TInv, SessionsTypeOK, KnownInv, Known

\* Where the loop task goes.
LEMMA LoopChange ==
    ASSUME TInv, NEW at, NEW todo \in Seq(Conn), GoesTo(at, todo),
           at \in {"serve", "session", "disconnect", "complete", "erase",
                   "console", "broadcast"}
    PROVE  /\ loop' \in LoopRecord /\ loop'.at = at /\ loop'.todo = todo
           /\ loop'.upTo = loop.upTo
  BY DEF TInv, SessionsTypeOK, LoopRecord, GoesTo

\* What a peer does keeps the types.
LEMMA PeersTypes ==
    ASSUME WebsocketSessionsAssumption, TInv, NEW c \in Conn,
           Connects(c) \/ SendsFrame(c) \/ Leaves(c)
    PROVE  TInv'
  <1>0. peer \in [Conn -> PeerRecord] /\ peer[c] \in PeerRecord
    BY DEF TInv, SessionsTypeOK
  <1>1. /\ peer' \in [Conn -> PeerRecord] /\ Known \subseteq Known'
        /\ \A d \in Conn : peer'[d].st # "new" => d \in Known'
        /\ socket' \in [Fd -> Conn \cup {None}]
    <2>1. CASE Connects(c)
      <3>1. PICK f \in Fd : /\ socket' = [socket EXCEPT ![f] = c]
                            /\ peer' = [peer EXCEPT ![c].st = "http", ![c].fd = f]
        BY <2>1 DEF Connects
      <3> DEFINE p == [peer[c] EXCEPT !.st = "http", !.fd = f]
      <3>2. p \in PeerRecord /\ p.fd = f /\ peer' = [peer EXCEPT ![c] = p]
        BY <1>0, <3>1 DEF PeerRecord
      <3> HIDE DEF p
      <3>3. socket' \in [Fd -> Conn \cup {None}]
        BY <3>1 DEF TInv, SessionsTypeOK
      <3> QED
        BY <3>2, <3>3, PeerChange
    <2>2. CASE SendsFrame(c)
      <3>1. PICK bye \in BOOLEAN :
               peer' = [peer EXCEPT ![c].unread = @ + 1, ![c].bye = bye]
        BY <2>2 DEF SendsFrame
      <3> DEFINE unread == peer[c].unread + 1
                 p == [peer[c] EXCEPT !.unread = unread, !.bye = bye]
      <3>2. unread \in 0 .. MaxFrames
        <4>1. peer[c].unread \in 0 .. MaxFrames
          BY <1>0 DEF PeerRecord
        <4>2. peer[c].unread < MaxFrames /\ MaxFrames \in Nat
          BY <2>2 DEF SendsFrame, WebsocketSessionsAssumption
        <4> QED
          BY <4>1, <4>2
      <3>3. peer' = [peer EXCEPT ![c] = p]
        BY <1>0, <3>1
      <3> HIDE DEF unread
      <3>4. p \in PeerRecord /\ p.fd = peer[c].fd /\ p.st = peer[c].st
        BY <1>0, <3>2 DEF PeerRecord
      <3> HIDE DEF p
      <3>5. socket' = socket
        BY <2>2 DEF SendsFrame, taskVars
      <3> QED
        BY <3>3, <3>4, <3>5, PeerChange DEF Known, KnownInv, TInv, SessionsTypeOK
    <2>3. CASE Leaves(c)
      <3> DEFINE p == [peer[c] EXCEPT !.gone = TRUE]
      <3>1. p \in PeerRecord /\ p.fd = peer[c].fd /\ p.st = peer[c].st /\ peer' = [peer EXCEPT ![c] = p]
        BY <1>0, <2>3 DEF PeerRecord, Leaves
      <3> HIDE DEF p
      <3>2. socket' = socket
        BY <2>3 DEF Leaves, taskVars
      <3> QED
        BY <3>1, <3>2, PeerChange DEF Known, KnownInv, TInv, SessionsTypeOK
    <2> QED
      BY <2>1, <2>2, <2>3
  <1>2. UNCHANGED <<httpd, sessions, marked, routeClients, loop, consoleVars>>
    BY DEF Connects, SendsFrame, Leaves, taskVars
  <1>3. SessionsTypeOK'
    BY <1>1, <1>2 DEF TInv, SessionsTypeOK, consoleVars
  <1>4. KnownInv' /\ LoopInv'
    BY <1>1, <1>2 DEF TInv, KnownInv, LoopInv, consoleVars
  <1> QED
    BY <1>3, <1>4 DEF TInv

\* A line of the log does.
LEMMA LogsTypes ==
    ASSUME WebsocketSessionsAssumption, TInv, Logs
    PROVE  TInv'
  <1>1. /\ written' = written + 1 /\ written < MaxLines /\ loop.at # "console"
        /\ UNCHANGED <<peer, taskVars, readPos, last, foreign>>
    BY DEF Logs
  <1>2. written \in 0 .. MaxLines
    BY DEF TInv, SessionsTypeOK
  <1>3. written' \in 0 .. MaxLines /\ \A n \in 0 .. written : n \in 0 .. written'
    BY <1>1, <1>2 DEF WebsocketSessionsAssumption
  <1>4. SessionsTypeOK'
    <2>1. /\ \A f \in DOMAIN readPos' : readPos'[f] \in 0 .. written'
          /\ last' \in [Conn -> 0 .. written']
      BY <1>1, <1>3 DEF TInv, SessionsTypeOK
    <2> QED
      BY <1>1, <1>3, <2>1 DEF TInv, SessionsTypeOK, taskVars
  <1>5. KnownInv' /\ LoopInv'
    BY <1>1 DEF TInv, KnownInv, LoopInv, Known, taskVars
  <1> QED
    BY <1>4, <1>5 DEF TInv

\* What the httpd task does, too.
LEMMA HttpdTypes ==
    ASSUME WebsocketSessionsAssumption, TInv,
           HttpdUpgrades \/ (\E f \in Fd : HttpdCloses(f))
                   \/ (\E c \in Conn : UpgradeStarts(c))
    PROVE  TInv'
  <1>0. /\ peer \in [Conn -> PeerRecord] /\ httpd \in HttpdRecord
        /\ sessions \in Seq(Conn) /\ routeClients \in Seq(Conn)
    BY DEF TInv, SessionsTypeOK
  <1>1. httpd.at # "idle" => httpd.conn \in Known /\ httpd.conn \in Conn
    BY DEF TInv, KnownInv, Known
  <1>2. CASE \E c \in Conn : UpgradeStarts(c)
    <2>1. PICK c \in Conn : UpgradeStarts(c)
      BY <1>2
    <2>2. httpd' = [at |-> "begin", conn |-> c] /\ peer[c].st = "http"
          /\ UNCHANGED <<peer, socket, sessions, marked, routeClients, loop, consoleVars>>
      BY <2>1 DEF UpgradeStarts
    <2>3. httpd' \in HttpdRecord /\ httpd'.conn \in Known
      BY <2>2 DEF HttpdRecord, TInv, KnownInv
    <2> QED
      BY <2>2, <2>3 DEF TInv, SessionsTypeOK, KnownInv, Known, LoopInv, consoleVars
  <1>3. CASE UpgradeFails
    <2>1. httpd' = [at |-> "idle", conn |-> None]
          /\ UNCHANGED <<peer, socket, sessions, marked, routeClients, loop, consoleVars>>
      BY <1>3 DEF UpgradeFails
    <2>2. httpd' \in HttpdRecord /\ httpd'.at = "idle"
      BY <2>1 DEF HttpdRecord
    <2> QED
      BY <2>1, <2>2 DEF TInv, SessionsTypeOK, KnownInv, Known, LoopInv, consoleVars
  <1>4. CASE AsyncBegins
    <2> DEFINE c == httpd.conn
               p == [peer[c] EXCEPT !.st = "async"]
    <2>1. /\ httpd' = [httpd EXCEPT !.at = "append"] /\ c \in Known /\ c \in Conn
          /\ UNCHANGED <<socket, sessions, marked, routeClients, loop, consoleVars>>
      BY <1>1, <1>4 DEF AsyncBegins
    <2>2. peer' = [peer EXCEPT ![c] = p]
      BY <1>4 DEF AsyncBegins
    <2>10. peer[c] \in PeerRecord
      BY <1>0, <2>1
    <2> HIDE DEF c
    <2>11. p \in PeerRecord /\ p.fd = peer[c].fd
      BY <2>10 DEF PeerRecord
    <2>3. p.fd \in Fd
      BY <2>1, <2>11 DEF Known
    <2>4. httpd' \in HttpdRecord /\ httpd'.conn = c
      BY <1>0, <2>1 DEF HttpdRecord, c
    <2> HIDE DEF p
    <2>5. /\ peer' \in [Conn -> PeerRecord] /\ Known \subseteq Known'
          /\ \A d \in Conn : peer'[d].st # "new" => d \in Known'
      BY <2>1, <2>2, <2>3, <2>11, PeerChange
    <2>6. SessionsTypeOK'
      BY <2>1, <2>4, <2>5 DEF TInv, SessionsTypeOK, consoleVars
    <2>7. KnownInv' /\ LoopInv'
      BY <2>1, <2>4, <2>5 DEF TInv, KnownInv, LoopInv, consoleVars
    <2> QED
      BY <2>6, <2>7 DEF TInv
  <1>5. CASE AppendsSession
    <2>1. /\ sessions' = Append(sessions, httpd.conn)
          /\ httpd' = [httpd EXCEPT !.at = "announce"] /\ httpd.at = "append"
          /\ UNCHANGED <<peer, socket, marked, routeClients, loop, consoleVars>>
      BY <1>5 DEF AppendsSession
    <2>2. httpd' \in HttpdRecord /\ httpd'.conn = httpd.conn
      BY <1>0, <2>1 DEF HttpdRecord
    <2>3. sessions' \in Seq(Conn) /\ Range(sessions') = Range(sessions) \cup {httpd.conn}
      BY <1>0, <1>1, <2>1, AppendFacts
    <2>4. Known' = Known
      BY <2>1 DEF Known
    <2>5. SessionsTypeOK'
      BY <2>1, <2>2, <2>3 DEF TInv, SessionsTypeOK, consoleVars
    <2>6. KnownInv' /\ LoopInv'
      BY <1>1, <2>1, <2>2, <2>3, <2>4 DEF TInv, KnownInv, LoopInv, consoleVars
    <2> QED
      BY <2>5, <2>6 DEF TInv
  <1>6. CASE Announces
    <2>1. /\ routeClients' = Append(routeClients, httpd.conn)
          /\ last' = [last EXCEPT ![httpd.conn] = written]
          /\ httpd' = [at |-> "idle", conn |-> None] /\ httpd.at = "announce"
          /\ UNCHANGED <<peer, socket, sessions, marked, loop, written, readPos, foreign>>
      BY <1>6 DEF Announces
    <2>2. httpd' \in HttpdRecord /\ httpd'.at = "idle"
      BY <2>1 DEF HttpdRecord
    <2>3. routeClients' \in Seq(Conn) /\ Range(routeClients') = Range(routeClients) \cup {httpd.conn}
      BY <1>0, <1>1, <2>1, AppendFacts
    <2>4. Known' = Known
      BY <2>1 DEF Known
    <2>5. last' \in [Conn -> 0 .. written']
      <3>1. written \in 0 .. written
        BY DEF TInv, SessionsTypeOK
      <3> QED
        BY <2>1, <3>1 DEF TInv, SessionsTypeOK
    <2>6. SessionsTypeOK'
      BY <2>1, <2>2, <2>3, <2>5 DEF TInv, SessionsTypeOK
    <2>7. KnownInv' /\ LoopInv'
      BY <1>1, <2>1, <2>2, <2>3, <2>4 DEF TInv, KnownInv, LoopInv
    <2> QED
      BY <2>6, <2>7 DEF TInv
  <1>7. CASE \E f \in Fd : HttpdCloses(f)
    <2>1. PICK f \in Fd : HttpdCloses(f)
      BY <1>7
    <2> DEFINE c == socket[f]
               p == [NewPeer EXCEPT !.st = "closed", !.fd = f]
    <2>2. /\ c # None /\ socket' = [socket EXCEPT ![f] = None]
          /\ peer' = [peer EXCEPT ![c] = p] /\ last' = [last EXCEPT ![c] = 0]
          /\ UNCHANGED <<httpd, sessions, marked, routeClients, loop, written, readPos, foreign>>
      BY <2>1 DEF HttpdCloses
    <2>3. c \in Conn
      BY <2>2 DEF TInv, SessionsTypeOK
    <2>4. p \in PeerRecord /\ p.fd = f
      <3>1. 0 \in 0 .. MaxFrames
        BY DEF WebsocketSessionsAssumption
      <3> QED
        BY <3>1 DEF PeerRecord, NewPeer
    <2> HIDE DEF c, p
    <2>5. /\ peer' \in [Conn -> PeerRecord] /\ Known \subseteq Known'
          /\ \A d \in Conn : peer'[d].st # "new" => d \in Known'
      BY <2>2, <2>3, <2>4, PeerChange
    <2>6. last' \in [Conn -> 0 .. written']
      <3>1. 0 \in 0 .. written
        BY DEF TInv, SessionsTypeOK
      <3> QED
        BY <2>2, <3>1 DEF TInv, SessionsTypeOK
    <2>7. SessionsTypeOK'
      BY <2>2, <2>5, <2>6 DEF TInv, SessionsTypeOK
    <2>8. KnownInv' /\ LoopInv'
      BY <2>2, <2>5 DEF TInv, KnownInv, LoopInv
    <2> QED
      BY <2>7, <2>8 DEF TInv
  <1> QED
    BY <1>2, <1>3, <1>4, <1>5, <1>6, <1>7 DEF HttpdUpgrades

\* What the loop task has yet to visit.
LEMMA TodoFacts ==
    ASSUME TInv, loop.todo # <<>>
    PROVE  /\ loop.todo[1] \in Conn /\ loop.todo[1] \in Known /\ FdOf(loop.todo[1]) \in Fd
           /\ loop.todo[1] \in Range(loop.todo)
           /\ Tail(loop.todo) \in Seq(Conn) /\ Range(Tail(loop.todo)) \subseteq Range(loop.todo)
           /\ Range(Tail(loop.todo)) \subseteq Known
           /\ IsInjective(loop.todo) => /\ IsInjective(Tail(loop.todo))
                                        /\ loop.todo[1] \notin Range(Tail(loop.todo))
  <1>1. loop.todo \in Seq(Conn)
    BY DEF TInv, SessionsTypeOK, LoopRecord
  <1>2. /\ Tail(loop.todo) \in Seq(Conn) /\ loop.todo[1] \in Range(loop.todo)
        /\ Range(Tail(loop.todo)) \subseteq Range(loop.todo)
        /\ IsInjective(loop.todo) => /\ IsInjective(Tail(loop.todo))
                                     /\ loop.todo[1] \notin Range(Tail(loop.todo))
    BY <1>1, TailFacts
  <1>3. loop.todo[1] \in Known /\ Range(Tail(loop.todo)) \subseteq Known
    BY <1>2 DEF TInv, KnownInv
  <1> QED
    BY <1>2, <1>3 DEF Known, FdOf

\* What keeps the types.
LEMMA LoopTypes ==
    ASSUME TInv, UNCHANGED <<socket, httpd, written>>,
           peer' \in [Conn -> PeerRecord], Known \subseteq Known',
           \A d \in Conn : peer'[d].st # "new" => d \in Known',
           loop' \in LoopRecord, Range(loop'.todo) \subseteq Known,
           loop'.at \in {"disconnect", "complete", "erase"} => loop'.todo # <<>>,
           loop'.at = "console" => loop'.upTo <= written,
           routeClients' \in Seq(Conn), Range(routeClients') \subseteq Known,
           sessions' \in Seq(Conn), Range(sessions') \subseteq Known,
           marked' \subseteq Conn,
           DOMAIN readPos' \subseteq Fd,
           \A f \in DOMAIN readPos' : readPos'[f] \in 0 .. written,
           last' \in [Conn -> 0 .. written],
           foreign' \subseteq (Conn \cup {None}) \X {"stranger", "old"}
    PROVE  TInv'
  <1>1. SessionsTypeOK'
    BY DEF TInv, SessionsTypeOK
  <1>2. KnownInv' /\ LoopInv'
    BY DEF TInv, KnownInv, LoopInv
  <1> QED
    BY <1>1, <1>2 DEF TInv

\* What the invariant says before a step of loop().
LEMMA Before ==
    ASSUME TInv
    PROVE  /\ peer \in [Conn -> PeerRecord] /\ loop \in LoopRecord
           /\ loop.todo \in Seq(Conn) /\ loop.upTo \in 0 .. MaxLines
           /\ \A d \in Conn : peer[d].st # "new" => d \in Known
           /\ routeClients \in Seq(Conn) /\ Range(routeClients) \subseteq Known
           /\ sessions \in Seq(Conn) /\ Range(sessions) \subseteq Known
           /\ Range(loop.todo) \subseteq Known
           /\ marked \subseteq Conn /\ DOMAIN readPos \subseteq Fd
           /\ \A f \in DOMAIN readPos : readPos[f] \in 0 .. written
           /\ last \in [Conn -> 0 .. written] /\ written \in 0 .. MaxLines
           /\ socket \in [Fd -> Conn \cup {None}]
           /\ foreign \subseteq (Conn \cup {None}) \X {"stranger", "old"}
  <1>1. loop.todo \in Seq(Conn) /\ loop.upTo \in 0 .. MaxLines
    BY DEF TInv, SessionsTypeOK, LoopRecord
  <1> QED
    BY <1>1 DEF TInv, SessionsTypeOK, KnownInv

\* The connections that are left, and their positions.
LEMMA WithoutTypes ==
    ASSUME TInv, NEW c \in Conn, NEW fd, routeClients' = ClientsWithout(c, fd),
           ForgetsPosition(c, fd)
    PROVE  /\ routeClients' \in Seq(Conn)
           /\ Range(routeClients') = {d \in Range(routeClients) :
                                   FdOf(d) = fd => (d \in Monitors) # (c \in Monitors)}
           /\ IsInjective(routeClients) => IsInjective(routeClients')
           /\ DOMAIN readPos' = IF c \in Monitors THEN DOMAIN readPos
                                ELSE DOMAIN readPos \ {fd}
           /\ \A f \in DOMAIN readPos' : readPos'[f] = readPos[f]
  <1> DEFINE left == {d \in Conn : FdOf(d) = fd => (d \in Monitors) # (c \in Monitors)}
  <1>1. routeClients \in Seq(Conn) /\ Range(routeClients) \subseteq Conn
    BY Before DEF Known
  <1>2. routeClients' = Among(routeClients, left)
    BY DEF ClientsWithout
  <1>3. Range(routeClients) \cap left =
          {d \in Range(routeClients) : FdOf(d) = fd => (d \in Monitors) # (c \in Monitors)}
    BY <1>1
  <1> HIDE DEF left
  <1>4. /\ routeClients' \in Seq(Conn) /\ Range(routeClients') = Range(routeClients) \cap left
        /\ IsInjective(routeClients) => IsInjective(routeClients')
    BY <1>1, <1>2, AmongFacts
  <1>5. /\ DOMAIN readPos' = IF c \in Monitors THEN DOMAIN readPos
                             ELSE DOMAIN readPos \ {fd}
        /\ \A f \in DOMAIN readPos' : readPos'[f] = readPos[f]
    BY DEF ForgetsPosition, Restrict
  <1> QED
    BY <1>3, <1>4, <1>5

\* A client whose send fails leaves the list of its route.
LEMMA FailsTypes ==
    ASSUME TInv, NEW c \in Conn, Fails(c)
    PROVE  /\ routeClients' \in Seq(Conn)
           /\ Range(routeClients') = {d \in Range(routeClients) :
                                   FdOf(d) = FdOf(c) => (d \in Monitors) # (c \in Monitors)}
           /\ IsInjective(routeClients) => IsInjective(routeClients')
           /\ DOMAIN readPos' = IF c \in Monitors THEN DOMAIN readPos
                                ELSE DOMAIN readPos \ {FdOf(c)}
           /\ \A f \in DOMAIN readPos' : readPos'[f] = readPos[f]
           /\ LET with == {d \in Range(sessions) : FdOf(d) = FdOf(c)}
              IN  IF with = {} THEN marked' = marked
                  ELSE \E d \in with : marked' = marked \cup {d}
  <1> DEFINE ofFd == {d \in Conn : FdOf(d) = FdOf(c)}
             with == Among(sessions, ofFd)
  <1>1. routeClients' = ClientsWithout(c, FdOf(c)) /\ ForgetsPosition(c, FdOf(c))
        /\ marked' = IF with = <<>> THEN marked ELSE marked \cup {with[1]}
    BY DEF Fails
  <1>2. sessions \in Seq(Conn) /\ Range(sessions) \subseteq Conn
    BY Before DEF Known
  <1>3. Range(sessions) \cap ofFd = {d \in Range(sessions) : FdOf(d) = FdOf(c)}
    BY <1>2
  <1> HIDE DEF ofFd
  <1>4. with \in Seq(Conn) /\ Range(with) = Range(sessions) \cap ofFd
    BY <1>2, AmongFacts
  <1> HIDE DEF with
  <1>5. CASE with = <<>>
    <2>1. Range(with) = {}
      BY <1>5, EmptyFacts
    <2> QED
      BY <1>1, <1>3, <1>4, <1>5, <2>1, WithoutTypes
  <1>6. CASE with # <<>>
    <2>1. with[1] \in Range(with)
      BY <1>4, <1>6, TailFacts
    <2> QED
      BY <1>1, <1>3, <1>4, <1>6, <2>1, WithoutTypes
  <1> QED
    BY <1>5, <1>6

\* The loop task serves the sessions.
LEMMA ServingTypes ==
    ASSUME WebsocketSessionsAssumption, TInv,
           \/ TakesSessions \/ Disconnects \/ Completes \/ Erases
           \/ \E c \in Conn : Serves(c) \/ Dies(c)
    PROVE  TInv'
  <1>1. CASE TakesSessions
    <2>1. /\ GoesTo("session", sessions)
          /\ UNCHANGED <<peer, socket, httpd, sessions, marked, routeClients, consoleVars>>
      BY <1>1 DEF TakesSessions
    <2>2. loop' \in LoopRecord /\ loop'.at = "session" /\ loop'.todo = sessions
      BY <2>1, Before, LoopChange
    <2>3. Known' = Known
      BY <2>1 DEF Known
    <2> QED
      BY <2>1, <2>2, <2>3, Before, LoopTypes DEF consoleVars
  <1>2. CASE Disconnects
    <2> DEFINE c == loop.todo[1]
    <2>1. /\ routeClients' = ClientsWithout(c, FdOf(c)) /\ ForgetsPosition(c, FdOf(c))
          /\ GoesTo("complete", loop.todo) /\ loop.at = "disconnect"
          /\ UNCHANGED <<peer, socket, httpd, sessions, marked, written, last, foreign>>
      BY <1>2 DEF Disconnects
    <2>2. loop.todo # <<>> /\ c \in Conn
      BY <2>1, TodoFacts DEF TInv, LoopInv
    <2>3. loop' \in LoopRecord /\ loop'.at = "complete" /\ loop'.todo = loop.todo
      BY <2>1, Before, LoopChange
    <2>4. Known' = Known
      BY <2>1 DEF Known
    <2> HIDE DEF c
    <2>5. routeClients' \in Seq(Conn) /\ Range(routeClients') \subseteq Known
          /\ DOMAIN readPos' \subseteq Fd
          /\ \A f \in DOMAIN readPos' : readPos'[f] \in 0 .. written
      BY <2>1, <2>2, Before, WithoutTypes
    <2> QED
      BY <2>1, <2>2, <2>3, <2>4, <2>5, Before, LoopTypes
  <1>3. CASE Completes
    <2> DEFINE c == loop.todo[1]
               p == [peer[c] EXCEPT !.st = "returned"]
    <2>1. /\ peer' = [peer EXCEPT ![c] = p] /\ loop.at = "complete"
          /\ GoesTo("erase", loop.todo)
          /\ UNCHANGED <<socket, httpd, sessions, marked, routeClients, consoleVars>>
      BY <1>3 DEF Completes
    <2>2. loop.todo # <<>> /\ c \in Conn /\ peer[c] \in PeerRecord /\ peer[c].fd \in Fd
      BY <2>1, Before, TodoFacts DEF TInv, LoopInv, FdOf
    <2>3. loop' \in LoopRecord /\ loop'.at = "erase" /\ loop'.todo = loop.todo
      BY <2>1, Before, LoopChange
    <2> HIDE DEF c
    <2>4. p \in PeerRecord /\ p.fd = peer[c].fd
      BY <2>2 DEF PeerRecord
    <2> HIDE DEF p
    <2>5. /\ peer' \in [Conn -> PeerRecord] /\ Known \subseteq Known'
          /\ \A d \in Conn : peer'[d].st # "new" => d \in Known'
      BY <2>1, <2>2, <2>4, PeerChange
    <2> QED
      BY <2>1, <2>2, <2>3, <2>5, Before, LoopTypes DEF consoleVars
  <1>4. CASE Erases
    <2>1. /\ sessions' = Among(sessions, Conn \ {loop.todo[1]})
          /\ marked' = marked \ {loop.todo[1]} /\ loop.at = "erase"
          /\ GoesTo("session", Tail(loop.todo))
          /\ UNCHANGED <<peer, socket, httpd, routeClients, consoleVars>>
      BY <1>4 DEF Erases
    <2>2. loop.todo # <<>>
      BY <2>1 DEF TInv, LoopInv
    <2>3. /\ loop' \in LoopRecord /\ loop'.at = "session" /\ loop'.todo = Tail(loop.todo)
          /\ Range(loop'.todo) \subseteq Known
      BY <2>1, <2>2, TodoFacts, LoopChange
    <2>4. sessions' \in Seq(Conn) /\ Range(sessions') \subseteq Known
      BY <2>1, Before, AmongFacts
    <2>5. Known' = Known
      BY <2>1 DEF Known
    <2> QED
      BY <2>1, <2>3, <2>4, <2>5, Before, LoopTypes DEF consoleVars
  <1>5. ASSUME NEW c \in Conn, Serves(c) \/ Dies(c)
        PROVE  TInv'
    <2> DEFINE p == [peer[c] EXCEPT !.unread = 0]
    <2>1. /\ peer' = [peer EXCEPT ![c] = p] \/ peer' = peer
          /\ loop.todo # <<>>
          /\ \/ GoesTo("session", Tail(loop.todo))
             \/ GoesTo("disconnect", loop.todo)
          /\ UNCHANGED <<socket, httpd, sessions, marked, routeClients, consoleVars>>
      BY <1>5 DEF Serves, Dies, InSession
    <2>2. /\ loop' \in LoopRecord /\ loop'.at \in {"session", "disconnect"}
          /\ loop'.at = "disconnect" => loop'.todo # <<>>
          /\ Range(loop'.todo) \subseteq Known
      <3>1. CASE GoesTo("session", Tail(loop.todo))
        <4> DEFINE rest == Tail(loop.todo)
        <4>1. rest \in Seq(Conn) /\ Range(rest) \subseteq Known /\ GoesTo("session", rest)
          BY <2>1, <3>1, TodoFacts
        <4> HIDE DEF rest
        <4>2. loop' \in LoopRecord /\ loop'.at = "session" /\ loop'.todo = rest
          BY <4>1, LoopChange
        <4> QED
          BY <4>1, <4>2
      <3>2. CASE GoesTo("disconnect", loop.todo)
        <4>1. loop.todo \in Seq(Conn) /\ Range(loop.todo) \subseteq Known
          BY Before
        <4> QED
          BY <2>1, <3>2, <4>1, LoopChange
      <3> QED
        BY <2>1, <3>1, <3>2
    <2>3. p \in PeerRecord /\ p.fd = peer[c].fd /\ p.st = peer[c].st
      <3>1. peer[c] \in PeerRecord /\ 0 \in 0 .. MaxFrames
        BY Before DEF WebsocketSessionsAssumption
      <3> QED
        BY <3>1 DEF PeerRecord
    <2> HIDE DEF p
    <2>4. /\ peer' \in [Conn -> PeerRecord] /\ Known \subseteq Known'
          /\ \A d \in Conn : peer'[d].st # "new" => d \in Known'
      <3>1. CASE peer' = [peer EXCEPT ![c] = p]
        <4>1. c \in Known \/ p.st # "new" => p.fd \in Fd
          BY <2>3, Before DEF Known
        <4> QED
          BY <2>3, <3>1, <4>1, PeerChange
      <3>2. CASE peer' = peer
        BY <3>2, Before DEF Known
      <3> QED
        BY <2>1, <3>1, <3>2
    <2> QED
      BY <2>1, <2>2, <2>4, Before, LoopTypes DEF consoleVars
  <1> QED
    BY <1>1, <1>2, <1>3, <1>4, <1>5

\* Positions stay within the log.
LEMMA PositionType ==
    ASSUME WebsocketSessionsAssumption, TInv, loop.at = "console", NEW fd \in Fd
    PROVE  /\ Position(fd) \in 0 .. written
           /\ Position(fd) < loop.upTo => Position(fd) + 1 \in 0 .. written
           /\ fd \in DOMAIN readPos => readPos[fd] <= Position(fd)
           /\ fd \notin DOMAIN readPos => Position(fd) = loop.upTo
  <1> DEFINE p == IF fd \in DOMAIN readPos THEN readPos[fd] ELSE loop.upTo
  <1>1. /\ loop.upTo \in Nat /\ written \in Nat /\ loop.upTo <= written
        /\ RingSize \in Nat /\ RingSize > 0
    BY Before DEF TInv, LoopInv, WebsocketSessionsAssumption
  <1>2. p \in 0 .. written
    BY <1>1, Before
  <1>3. Position(fd) = IF loop.upTo - p > RingSize THEN loop.upTo - RingSize ELSE p
    BY DEF Position
  <1>4. fd \in DOMAIN readPos => p = readPos[fd]
    OBVIOUS
  <1>5. fd \notin DOMAIN readPos => p = loop.upTo
    OBVIOUS
  <1> HIDE DEF p
  <1>6. Position(fd) \in 0 .. written /\ p <= Position(fd)
    BY <1>1, <1>2, <1>3
  <1> QED
    BY <1>1, <1>3, <1>4, <1>5, <1>6

\* Whoever has the socket now gets the frame.
LEMMA ReachesType ==
    ASSUME TInv, NEW c, FdOf(c) \in Fd, NEW old, Reaches(c, old)
    PROVE  foreign' \subseteq (Conn \cup {None}) \X {"stranger", "old"}
  <1>1. socket[FdOf(c)] \in Conn \cup {None}
    BY Before
  <1> QED
    BY <1>1, Before DEF Reaches

\* The loop task sends.
LEMMA SendingTypes ==
    ASSUME WebsocketSessionsAssumption, TInv,
           \/ ConsoleStarts \/ Broadcasts \/ BroadcastEnds
           \/ \E c \in Conn : \/ ConsoleSends(c) \/ ConsoleNext(c) \/ ConsoleFails(c)
                              \/ BroadcastSends(c) \/ BroadcastFails(c)
    PROVE  TInv'
  <1>0. UNCHANGED <<peer, socket, httpd, written>>
    BY DEF ConsoleStarts, Broadcasts, BroadcastEnds, ConsoleSends, ConsoleNext,
       ConsoleFails, BroadcastSends, BroadcastFails, taskVars, consoleVars
  <1>1. Known' = Known
    BY <1>0 DEF Known
  <1>2. CASE ConsoleStarts
    <2>1. /\ loop' = [at |-> "console", todo |-> ConsoleClients, upTo |-> written]
          /\ readPos' = IF ConsoleClients = <<>> THEN readPos
                        ELSE Restrict(readPos, DOMAIN readPos \cap
                                               {FdOf(c) : c \in Range(ConsoleClients)})
          /\ UNCHANGED <<sessions, marked, routeClients, last, foreign>>
      BY <1>2 DEF ConsoleStarts
    <2>2. ConsoleClients \in Seq(Conn) /\ Range(ConsoleClients) \subseteq Range(routeClients)
      BY Before, AmongFacts DEF ConsoleClients
    <2>3. loop' \in LoopRecord /\ loop'.todo = ConsoleClients /\ loop'.at = "console"
          /\ loop'.upTo = written /\ written <= written
      BY <2>1, <2>2, Before DEF LoopRecord
    <2>4. /\ DOMAIN readPos' \subseteq DOMAIN readPos
          /\ \A f \in DOMAIN readPos' : readPos'[f] = readPos[f]
      BY <2>1 DEF Restrict
    <2>5. /\ DOMAIN readPos' \subseteq Fd
          /\ \A f \in DOMAIN readPos' : readPos'[f] \in 0 .. written
      BY <2>4, Before
    <2> QED
      BY <1>0, <1>1, <2>1, <2>2, <2>3, <2>5, Before, LoopTypes
  <1>3. CASE Broadcasts
    <2>1. /\ \/ loop' = [at |-> "broadcast", todo |-> MonitorClients, upTo |-> 0]
             \/ loop' = [at |-> "serve", todo |-> <<>>, upTo |-> 0]
          /\ UNCHANGED <<sessions, marked, routeClients, readPos, last, foreign>>
      BY <1>3 DEF Broadcasts, consoleVars
    <2>2. MonitorClients \in Seq(Conn) /\ Range(MonitorClients) \subseteq Range(routeClients)
      BY Before, AmongFacts DEF MonitorClients
    <2>3. /\ loop' \in LoopRecord /\ loop'.at \in {"broadcast", "serve"}
          /\ loop'.todo = MonitorClients \/ loop'.todo = <<>>
      <3>1. 0 \in 0 .. MaxLines /\ <<>> \in Seq(Conn)
        BY DEF WebsocketSessionsAssumption
      <3> DEFINE todo == MonitorClients
      <3> HIDE DEF todo
      <3>2. todo \in Seq(Conn)
        BY <2>2 DEF todo
      <3>3. CASE loop' = [at |-> "broadcast", todo |-> todo, upTo |-> 0]
        BY <3>1, <3>2, <3>3 DEF LoopRecord, todo
      <3>4. CASE loop' = [at |-> "serve", todo |-> <<>>, upTo |-> 0]
        BY <3>1, <3>4 DEF LoopRecord
      <3> QED
        BY <2>1, <3>3, <3>4 DEF todo
    <2>4. Range(loop'.todo) \subseteq Known
      BY <2>2, <2>3, EmptyFacts, Before
    <2> QED
      BY <1>0, <1>1, <2>1, <2>3, <2>4, Before, LoopTypes
  <1>4. CASE BroadcastEnds
    <2>1. GoesTo("serve", <<>>)
          /\ UNCHANGED <<sessions, marked, routeClients, readPos, last, foreign>>
      BY <1>4 DEF BroadcastEnds, consoleVars
    <2>2. loop' \in LoopRecord /\ loop'.at = "serve" /\ loop'.todo = <<>>
      <3>1. <<>> \in Seq(Conn)
        OBVIOUS
      <3> QED
        BY <2>1, <3>1, LoopChange
    <2>3. Range(loop'.todo) \subseteq Known
      BY <2>2, EmptyFacts
    <2> QED
      BY <1>0, <1>1, <2>1, <2>2, <2>3, Before, LoopTypes
  <1>5. ASSUME NEW c \in Conn, ConsoleSends(c)
        PROVE  TInv'
    <2> DEFINE fd == FdOf(c)
               line == Position(fd) + 1
               to == socket[fd]
    <2>1. /\ InConsole(c) /\ Position(fd) < loop.upTo /\ SetPosition(fd, line)
          /\ Reaches(c, to # None /\ line <= last[to])
          /\ last' = IF to = None THEN last ELSE [last EXCEPT ![to] = line]
          /\ UNCHANGED <<sessions, marked, routeClients, loop>>
      BY <1>5 DEF ConsoleSends, taskVars
    <2>2. fd \in Fd /\ loop.at = "console" /\ to \in Conn \cup {None}
      BY <2>1, TodoFacts, Before DEF InConsole
    <2> HIDE DEF fd
    <2>3. line \in 0 .. written
      BY <2>1, <2>2, PositionType
    <2>4. foreign' \subseteq (Conn \cup {None}) \X {"stranger", "old"}
      BY <2>1, <2>2, ReachesType DEF fd
    <2> HIDE DEF line, to
    <2>5. /\ DOMAIN readPos' \subseteq Fd
          /\ \A f \in DOMAIN readPos' : readPos'[f] \in 0 .. written
      BY <2>1, <2>2, <2>3, Before DEF SetPosition
    <2>6. last' \in [Conn -> 0 .. written]
      BY <2>1, <2>2, <2>3, Before
    <2>7. loop'.at = "console" => loop'.upTo <= written
      BY <2>1 DEF TInv, LoopInv
    <2> QED
      BY <1>0, <1>1, <2>1, <2>2, <2>4, <2>5, <2>6, <2>7, Before, LoopTypes
  <1>6. ASSUME NEW c \in Conn, ConsoleNext(c)
        PROVE  TInv'
    <2> DEFINE fd == FdOf(c)
    <2>1. /\ InConsole(c) /\ SetPosition(fd, Position(fd))
          /\ GoesTo("console", Tail(loop.todo))
          /\ UNCHANGED <<sessions, marked, routeClients, last, foreign>>
      BY <1>6 DEF ConsoleNext
    <2>2. fd \in Fd /\ loop.at = "console" /\ loop.todo # <<>>
      BY <2>1, TodoFacts DEF InConsole
    <2> HIDE DEF fd
    <2>3. Position(fd) \in 0 .. written
      BY <2>1, <2>2, PositionType
    <2>4. /\ DOMAIN readPos' \subseteq Fd
          /\ \A f \in DOMAIN readPos' : readPos'[f] \in 0 .. written
      BY <2>1, <2>2, <2>3, Before DEF SetPosition
    <2>5. /\ loop' \in LoopRecord /\ loop'.at = "console" /\ loop'.todo = Tail(loop.todo)
          /\ loop'.upTo = loop.upTo /\ Range(loop'.todo) \subseteq Known
          /\ loop'.upTo <= written
      BY <2>1, <2>2, TodoFacts, LoopChange DEF TInv, LoopInv
    <2> QED
      BY <1>0, <1>1, <2>1, <2>4, <2>5, Before, LoopTypes
  <1>7. ASSUME NEW c \in Conn, ConsoleFails(c) \/ BroadcastFails(c)
        PROVE  TInv'
    <2>1. /\ Fails(c) /\ loop.todo # <<>>
          /\ GoesTo(loop.at, Tail(loop.todo)) /\ loop.at \in {"console", "broadcast"}
          /\ UNCHANGED <<sessions, last, foreign>>
      BY <1>7 DEF ConsoleFails, BroadcastFails, InConsole, InBroadcast
    <2>2. /\ routeClients' \in Seq(Conn) /\ Range(routeClients') \subseteq Known
          /\ DOMAIN readPos' \subseteq Fd
          /\ \A f \in DOMAIN readPos' : readPos'[f] \in 0 .. written
      BY <2>1, Before, FailsTypes
    <2>3. marked' \subseteq Conn
      BY <2>1, Before, FailsTypes DEF Known
    <2>4. /\ loop' \in LoopRecord /\ loop'.at = loop.at /\ loop'.todo = Tail(loop.todo)
          /\ loop'.upTo = loop.upTo /\ Range(loop'.todo) \subseteq Known
      BY <2>1, TodoFacts, LoopChange
    <2>5. loop'.at = "console" => loop'.upTo <= written
      BY <2>4 DEF TInv, LoopInv
    <2> QED
      BY <1>0, <1>1, <2>1, <2>2, <2>3, <2>4, <2>5, Before, LoopTypes
  <1>8. ASSUME NEW c \in Conn, BroadcastSends(c)
        PROVE  TInv'
    <2>1. /\ loop.todo # <<>> /\ c = loop.todo[1]
          /\ UNCHANGED foreign \/ Reaches(c, FALSE)
          /\ GoesTo("broadcast", Tail(loop.todo))
          /\ UNCHANGED <<sessions, marked, routeClients, readPos, last>>
      BY <1>8 DEF BroadcastSends, InBroadcast
    <2>2. foreign' \subseteq (Conn \cup {None}) \X {"stranger", "old"}
      BY <2>1, Before, TodoFacts, ReachesType
    <2>3. /\ loop' \in LoopRecord /\ loop'.at = "broadcast"
          /\ Range(loop'.todo) \subseteq Known
      BY <2>1, TodoFacts, LoopChange
    <2> QED
      BY <1>0, <1>1, <2>1, <2>2, <2>3, Before, LoopTypes
  <1> QED
    BY <1>2, <1>3, <1>4, <1>5, <1>6, <1>7, <1>8

\* Every step keeps the types.
LEMMA NextTypes == WebsocketSessionsAssumption /\ TInv /\ [SessionsNext]_sessionsVars => TInv'
  <1> SUFFICES ASSUME WebsocketSessionsAssumption, TInv, [SessionsNext]_sessionsVars PROVE TInv'
    OBVIOUS
  <1>1. CASE LoopTask
    BY <1>1, ServingTypes, SendingTypes DEF LoopTask
  <1>2. CASE HttpdTask
    BY <1>2, HttpdTypes DEF HttpdTask
  <1>3. CASE Peers
    BY <1>3, LogsTypes, PeersTypes, HttpdTypes DEF Peers
  <1>4. CASE UNCHANGED sessionsVars
    BY <1>4 DEF TInv, SessionsTypeOK, KnownInv, LoopInv, Known, sessionsVars, taskVars, consoleVars
  <1> QED
    BY <1>1, <1>2, <1>3, <1>4 DEF SessionsNext

\* The types hold at first.
LEMMA InitTypes == WebsocketSessionsAssumption /\ SessionsInit => TInv
  <1> SUFFICES ASSUME WebsocketSessionsAssumption, SessionsInit PROVE TInv
    OBVIOUS
  <1>1. 0 \in 0 .. MaxFrames /\ 0 \in 0 .. MaxLines /\ 0 \in 0 .. 0 /\ <<>> \in Seq(Conn)
        /\ DOMAIN <<>> = {}
    BY DEF WebsocketSessionsAssumption
  <1>2. NewPeer \in PeerRecord /\ NewPeer.st = "new"
    BY <1>1 DEF NewPeer, PeerRecord
  <1>3. /\ loop \in LoopRecord /\ loop.at = "serve" /\ loop.todo = <<>>
        /\ httpd \in HttpdRecord /\ httpd.at = "idle"
    BY <1>1 DEF SessionsInit, LoopRecord, HttpdRecord
  <1>4. SessionsTypeOK
    BY <1>1, <1>2, <1>3 DEF SessionsInit, SessionsTypeOK
  <1>5. KnownInv /\ LoopInv
    BY <1>1, <1>2, <1>3, EmptyFacts DEF SessionsInit, KnownInv, LoopInv
  <1> QED
    BY <1>4, <1>5 DEF TInv

\* What the types rest on, for every value of the constants.
THEOREM TypeInvariance == WebsocketSessionsAssumption => (SessionsSpec => []TInv)
  <1> SUFFICES ASSUME WebsocketSessionsAssumption PROVE SessionsSpec => []TInv
    OBVIOUS
  <1>1. SessionsInit => TInv
    BY InitTypes
  <1>2. TInv /\ [SessionsNext]_sessionsVars => TInv'
    BY NextTypes
  <1> QED
    BY <1>1, <1>2, PTL DEF SessionsSpec

\* Every variable keeps its type, even where loop() overtakes an upgrade: no
\* position leaves the log, and nothing is removed from an empty list.
THEOREM TypeCorrect == WebsocketSessionsAssumption => (SessionsSpec => []SessionsTypeOK)
  <1> SUFFICES ASSUME WebsocketSessionsAssumption PROVE SessionsSpec => []SessionsTypeOK
    OBVIOUS
  <1>1. TInv => SessionsTypeOK
    BY DEF TInv
  <1> QED
    BY TypeInvariance, <1>1, PTL

-----------------------------------------------------------------------------
(* Sessions, clients and frames, if loop() leaves alone what is not        *)
(* announced yet.                                                          *)

\* Sessions have sockets, and clients have theirs alone.
LEMMA OwnFacts ==
    ASSUME IInv
    PROVE  /\ Range(sessions) \subseteq Conn /\ Range(routeClients) \subseteq Range(sessions)
           /\ \A c \in Range(sessions) :
                 /\ peer[c].st \in {"async", "returned", "closed"}
                 /\ loop.at # "erase" \/ c # loop.todo[1] => peer[c].st = "async"
           /\ \A c \in Range(routeClients) :
                 peer[c].st = "async" /\ FdOf(c) \in Fd /\ socket[FdOf(c)] = c
           /\ \A c, d \in Conn :
                 peer[c].st = "async" /\ peer[d].st = "async" /\ FdOf(c) = FdOf(d) => c = d
           /\ loop.at \in {"disconnect", "complete", "erase"} =>
                 loop.todo # <<>> /\ loop.todo[1] \in Range(loop.todo)
  <1>1. Range(sessions) \subseteq Known /\ \A c \in Known : c \in Conn /\ FdOf(c) \in Fd
    BY Before DEF IInv, Known, FdOf
  <1>2. Range(routeClients) \subseteq Range(sessions)
    BY DEF IInv, OInv, ClientsInv
  <1>3. \A c \in Range(sessions) :
           /\ peer[c].st \in {"async", "returned", "closed"}
           /\ loop.at # "erase" \/ c # loop.todo[1] => peer[c].st = "async"
    BY DEF IInv, OInv, SessionsInv
  <1>4. \A c \in Range(routeClients) : ~(loop.at = "erase" /\ c = loop.todo[1])
    BY DEF IInv, OInv, ClientsInv, Removing
  <1>5. \A c \in Conn : peer[c].st = "async" => socket[FdOf(c)] = c
    BY DEF IInv, OInv, SocketInv, FdOf
  <1>6. loop.at \in {"disconnect", "complete", "erase"} =>
           loop.todo # <<>> /\ loop.todo[1] \in Range(loop.todo)
    BY TodoFacts DEF IInv, TInv, LoopInv
  <1> QED
    BY <1>1, <1>2, <1>3, <1>4, <1>5, <1>6

\* A connection whose state matters keeps it.
LEMMA PeersOwn ==
    ASSUME WebsocketSessionsAssumption, IInv, NEW c \in Conn,
           Connects(c) \/ SendsFrame(c) \/ Leaves(c)
    PROVE  OInv'
  <1>1. /\ UNCHANGED <<httpd, sessions, marked, routeClients, loop, readPos, last, foreign>>
        /\ peer \in [Conn -> PeerRecord]
    BY Before DEF Connects, SendsFrame, Leaves, taskVars, consoleVars, IInv
  <1>2. /\ \A d \in Conn : peer[d].st # "new" =>
              peer'[d].st = peer[d].st /\ peer'[d].fd = peer[d].fd
        /\ SocketInv'
    <2>1. CASE Connects(c)
      <3>1. PICK f \in Fd : /\ socket[f] = None /\ peer[c].st = "new"
                            /\ socket' = [socket EXCEPT ![f] = c]
                            /\ peer' = [peer EXCEPT ![c].st = "http", ![c].fd = f]
        BY <2>1 DEF Connects
      <3>2. /\ peer'[c].fd = f /\ \A d \in Conn : d # c => peer'[d] = peer[d]
            /\ socket'[f] = c /\ \A g \in Fd : g # f => socket'[g] = socket[g]
        BY <1>1, <3>1, Before DEF PeerRecord, IInv
      <3>3. \A d \in Conn : peer[d].st # "new" => peer[d].fd \in Fd
        BY Before DEF IInv, Known
      <3>4. \A d \in Conn : d # None
        BY DEF WebsocketSessionsAssumption
      <3>5. ASSUME NEW d \in Conn, peer'[d].st \in {"http", "async", "returned"}
            PROVE  socket'[peer'[d].fd] = d
        <4>1. CASE d = c
          BY <3>2, <4>1
        <4>2. CASE d # c
          <5>1. peer'[d] = peer[d] /\ peer[d].fd \in Fd /\ socket[peer[d].fd] = d
            BY <3>2, <3>3, <3>5, <4>2 DEF IInv, OInv, SocketInv
          <5>2. peer[d].fd # f
            BY <3>1, <3>4, <5>1
          <5> QED
            BY <3>2, <5>1, <5>2
        <4> QED
          BY <4>1, <4>2
      <3>6. SocketInv'
        BY <3>5 DEF SocketInv
      <3> QED
        BY <3>1, <3>2, <3>6
    <2>2. CASE SendsFrame(c) \/ Leaves(c)
      <3>1. /\ socket' = socket
            /\ \A d \in Conn : peer'[d].st = peer[d].st /\ peer'[d].fd = peer[d].fd
        BY <1>1, <2>2 DEF SendsFrame, Leaves, taskVars, PeerRecord
      <3> QED
        BY <3>1 DEF IInv, OInv, SocketInv
    <2> QED
      BY <2>1, <2>2
  <1>3. /\ \A d \in Range(sessions) : d \in Conn /\ peer'[d].st = peer[d].st
        /\ \A d \in Range(routeClients) : FdOf(d)' = FdOf(d)
    BY <1>2, OwnFacts DEF FdOf
  <1>4. UpgradeInv'
    <2>1. httpd.at # "idle" => httpd.conn \in Conn
      BY DEF IInv, TInv, KnownInv, Known
    <2> QED
      BY <1>1, <1>2, <2>1, Before DEF IInv, OInv, UpgradeInv, Serving, TInv, SessionsTypeOK, HttpdRecord
  <1>5. SessionsInv' /\ ClientsInv' /\ TodoInv' /\ FramesOwn'
    BY <1>1, <1>3 DEF IInv, OInv, SessionsInv, ClientsInv, TodoInv, FramesOwn, Serving, Removing
  <1>6. PositionInv'
    <2>1. loop.at = "console" => Range(loop.todo) \subseteq Range(routeClients)
      BY DEF IInv, OInv, TodoInv
    <2> QED
      BY <1>1, <1>3, <2>1 DEF IInv, OInv, PositionInv
  <1> QED
    BY <1>2, <1>4, <1>5, <1>6 DEF OInv

\* A line of the log changes no session.
LEMMA LogsOwn ==
    ASSUME IInv, Logs \/ UNCHANGED sessionsVars
    PROVE  OInv'
  <1>1. UNCHANGED <<peer, socket, httpd, sessions, marked, routeClients, loop, readPos, last, foreign>>
    BY DEF Logs, sessionsVars, taskVars, consoleVars
  <1> QED
    BY <1>1 DEF IInv, OInv, SocketInv, UpgradeInv, SessionsInv, ClientsInv, TodoInv,
       PositionInv, FramesOwn, Serving, Removing, FdOf

\* An upgrade takes its connection from httpd, then it is a session, then a
\* client.
LEMMA UpgradesOwn ==
    ASSUME WebsocketSessionsAssumption, IInv,
           HttpdUpgrades \/ \E c \in Conn : UpgradeStarts(c)
    PROVE  OInv'
  <1> DEFINE up == httpd.conn
  <1>0. /\ httpd.at # "idle" => up \in Conn /\ FdOf(up) \in Fd
        /\ peer \in [Conn -> PeerRecord] /\ httpd \in HttpdRecord
        /\ sessions \in Seq(Conn) /\ routeClients \in Seq(Conn) /\ last \in [Conn -> 0 .. written]
    BY Before DEF IInv, TInv, SessionsTypeOK, KnownInv, Known, FdOf
  <1> HIDE DEF up
  <1>1. CASE \/ UpgradeFails
             \/ \E c \in Conn : UpgradeStarts(c)
    <2>1. /\ UNCHANGED <<peer, socket, sessions, marked, routeClients, loop, readPos, last, foreign>>
          /\ httpd.at # "announce"
          /\ \/ httpd'.at = "idle"
             \/ /\ httpd'.at = "begin" /\ peer[httpd'.conn].st = "http"
                /\ Len(sessions) < MaxSockets
      BY <1>1 DEF UpgradeFails, UpgradeStarts, consoleVars
    <2> QED
      BY <2>1 DEF IInv, OInv, SocketInv, UpgradeInv, SessionsInv, ClientsInv, TodoInv,
         PositionInv, FramesOwn, Serving, Removing, FdOf
  <1>2. CASE AsyncBegins
    <2>1. /\ httpd.at = "begin" /\ httpd' = [httpd EXCEPT !.at = "append"]
          /\ peer' = [peer EXCEPT ![up].st = "async"]
          /\ UNCHANGED <<socket, sessions, marked, routeClients, loop, readPos, last, foreign>>
      BY <1>2 DEF AsyncBegins, consoleVars, up
    <2>2. /\ httpd'.at = "append" /\ httpd'.conn = up /\ up \in Conn
          /\ peer'[up].st = "async" /\ peer'[up].fd = peer[up].fd
          /\ \A d \in Conn : d # up => peer'[d] = peer[d]
      BY <1>0, <2>1 DEF HttpdRecord, PeerRecord, up
    <2>3. peer[up].st = "http" /\ Len(sessions) < MaxSockets
      BY <2>1 DEF IInv, OInv, UpgradeInv, up
    <2>4. up \notin Range(sessions)
      BY <2>3, OwnFacts
    <2>5. /\ \A d \in Range(sessions) : peer'[d] = peer[d]
          /\ \A d \in Conn : FdOf(d)' = FdOf(d)
      BY <2>2, <2>4, OwnFacts DEF FdOf
    <2>6. SocketInv' /\ UpgradeInv'
      BY <2>1, <2>2, <2>3, <2>4 DEF IInv, OInv, SocketInv, UpgradeInv
    <2>7. SessionsInv' /\ ClientsInv' /\ TodoInv' /\ FramesOwn'
      BY <2>1, <2>2, <2>5 DEF IInv, OInv, SessionsInv, ClientsInv, TodoInv, FramesOwn, Serving, Removing
    <2>8. PositionInv'
      <3>1. /\ Range(routeClients) \subseteq Conn
            /\ loop.at = "console" => Range(loop.todo) \subseteq Conn
        BY OwnFacts DEF IInv, OInv, TodoInv
      <3> QED
        BY <2>1, <2>5, <3>1 DEF IInv, OInv, PositionInv
    <2> QED
      BY <2>6, <2>7, <2>8 DEF OInv
  <1>3. CASE AppendsSession
    <2>1. /\ httpd.at = "append" /\ sessions' = Append(sessions, up)
          /\ httpd' = [httpd EXCEPT !.at = "announce"]
          /\ UNCHANGED <<peer, socket, marked, routeClients, loop, readPos, last, foreign>>
      BY <1>3 DEF AppendsSession, consoleVars, up
    <2>2. /\ httpd'.at = "announce" /\ httpd'.conn = up /\ up \in Conn
          /\ peer[up].st = "async" /\ up \notin Range(sessions) /\ Len(sessions) < MaxSockets
      BY <1>0, <2>1 DEF HttpdRecord, IInv, OInv, UpgradeInv, up
    <2>3. /\ Len(sessions') = Len(sessions) + 1 /\ Range(sessions') = Range(sessions) \cup {up}
          /\ IsInjective(sessions')
      <3>1. IsInjective(sessions)
        BY DEF IInv, OInv, SessionsInv
      <3> QED
        BY <1>0, <2>1, <2>2, <3>1, AppendFacts
    <2>4. Len(sessions') <= MaxSockets
      <3>1. Len(sessions) \in Nat /\ MaxSockets \in Nat
        BY <1>0 DEF WebsocketSessionsAssumption
      <3> QED
        BY <2>2, <2>3, <3>1
    <2>5. /\ marked \subseteq Range(sessions)
          /\ Serving => Range(loop.todo) \subseteq Range(sessions)
      BY DEF IInv, OInv, SessionsInv, TodoInv
    <2>6. SocketInv' /\ UpgradeInv'
      BY <2>1, <2>2, <2>3, <2>5 DEF IInv, OInv, SocketInv, UpgradeInv, Serving
    <2>7. SessionsInv' /\ TodoInv'
      BY <2>1, <2>2, <2>3, <2>4 DEF IInv, OInv, SessionsInv, TodoInv, Serving
    <2>8. ClientsInv'
      BY <2>1, <2>2, <2>3 DEF IInv, OInv, ClientsInv, Removing
    <2>9. PositionInv' /\ FramesOwn'
      BY <2>1 DEF IInv, OInv, PositionInv, FramesOwn, FdOf
    <2> QED
      BY <2>6, <2>7, <2>8, <2>9 DEF OInv
  <1>4. CASE Announces
    <2>1. /\ httpd.at = "announce" /\ routeClients' = Append(routeClients, up)
          /\ last' = [last EXCEPT ![up] = written]
          /\ httpd' = [at |-> "idle", conn |-> None]
          /\ UNCHANGED <<peer, socket, sessions, marked, loop, readPos, foreign>>
      BY <1>4 DEF Announces, up
    <2>2. /\ httpd'.at = "idle" /\ up \in Conn /\ peer[up].st = "async"
          /\ up \in Range(sessions) /\ up \notin marked
          /\ Serving => up \notin Range(loop.todo)
      BY <1>0, <2>1 DEF IInv, OInv, UpgradeInv, up
    <2>3. up \notin Range(routeClients)
      BY <2>1 DEF IInv, OInv, ClientsInv, up
    <2>4. Range(routeClients') = Range(routeClients) \cup {up} /\ IsInjective(routeClients')
      <3>1. IsInjective(routeClients)
        BY DEF IInv, OInv, ClientsInv
      <3> QED
        BY <1>0, <2>1, <2>2, <2>3, <3>1, AppendFacts
    <2>5. ~Removing(up)
      BY <2>2, OwnFacts DEF Removing, Serving
    <2>6. SocketInv' /\ UpgradeInv' /\ SessionsInv' /\ FramesOwn'
      BY <2>1, <2>2 DEF IInv, OInv, SocketInv, UpgradeInv, SessionsInv, FramesOwn
    <2>7. ClientsInv'
      BY <2>1, <2>2, <2>4, <2>5 DEF IInv, OInv, ClientsInv, Removing, up
    <2>8. TodoInv'
      BY <2>1, <2>4 DEF IInv, OInv, TodoInv, Serving
    <2>9. PositionInv'
      <3>1. FdOf(up) \notin DOMAIN readPos
        <4>1. \A c \in Range(routeClients) : FdOf(c) # FdOf(up)
          BY <2>2, <2>3, OwnFacts
        <4> QED
          BY <4>1 DEF IInv, OInv, PositionInv
      <3>2. \A c \in Range(routeClients) : last'[c] = last[c]
        BY <1>0, <2>1, <2>3, OwnFacts
      <3>3. \A c \in Conn : FdOf(c)' = FdOf(c)
        BY <2>1 DEF FdOf
      <3>4. loop.at = "console" => Range(loop.todo) \subseteq Range(routeClients)
        BY DEF IInv, OInv, TodoInv
      <3>5. Range(routeClients) \subseteq Conn
        BY OwnFacts
      <3> QED
        BY <2>1, <2>2, <2>4, <3>1, <3>2, <3>3, <3>4, <3>5 DEF IInv, OInv, PositionInv
    <2> QED
      BY <2>6, <2>7, <2>8, <2>9 DEF OInv
  <1> QED
    BY <1>1, <1>2, <1>3, <1>4 DEF HttpdUpgrades

\* httpd closes no socket of a client.
LEMMA ClosesOwn ==
    ASSUME WebsocketSessionsAssumption, IInv, NEW f \in Fd, HttpdCloses(f)
    PROVE  OInv'
  <1> DEFINE c == socket[f]
  <1>1. /\ httpd.at = "idle" /\ c # None /\ peer[c].st \in {"http", "returned"}
        /\ socket' = [socket EXCEPT ![f] = None]
        /\ peer' = [peer EXCEPT ![c] = [NewPeer EXCEPT !.st = "closed", !.fd = f]]
        /\ last' = [last EXCEPT ![c] = 0]
        /\ UNCHANGED <<httpd, sessions, marked, routeClients, loop, readPos, foreign>>
    BY DEF HttpdCloses
  <1>2. /\ c \in Conn /\ peer \in [Conn -> PeerRecord] /\ socket \in [Fd -> Conn \cup {None}]
        /\ last \in [Conn -> 0 .. written]
    BY <1>1, Before DEF IInv
  <1>3. /\ peer'[c].st = "closed" /\ \A d \in Conn : d # c => peer'[d] = peer[d]
        /\ \A g \in Fd : g # f => socket'[g] = socket[g]
        /\ \A d \in Conn : d # c => last'[d] = last[d]
    <2> HIDE DEF c
    <2> QED
      BY <1>1, <1>2 DEF NewPeer
  <1>4. \A d \in Conn : peer[d].st # "new" => peer[d].fd \in Fd
    BY Before DEF IInv, Known
  <1>5. c \notin Range(routeClients)
    BY <1>1, OwnFacts
  <1>6. SocketInv'
    <2>1. ASSUME NEW d \in Conn, peer'[d].st \in {"http", "async", "returned"}
          PROVE  socket'[peer'[d].fd] = d
      <3>1. d # c /\ peer'[d] = peer[d]
        BY <1>3, <2>1
      <3>2. peer[d].fd \in Fd /\ socket[peer[d].fd] = d
        BY <1>4, <2>1, <3>1 DEF IInv, OInv, SocketInv
      <3> QED
        BY <1>3, <3>1, <3>2
    <2> QED
      BY <2>1 DEF SocketInv
  <1> HIDE DEF c
  <1>7. SessionsInv'
    <2>1. c \in Range(sessions) => loop.at = "erase" /\ c = loop.todo[1]
      BY <1>1, OwnFacts
    <2> QED
      BY <1>1, <1>3, <2>1, OwnFacts DEF IInv, OInv, SessionsInv
  <1>8. UpgradeInv' /\ ClientsInv' /\ TodoInv' /\ FramesOwn'
    BY <1>1 DEF IInv, OInv, UpgradeInv, ClientsInv, TodoInv, FramesOwn, Serving, Removing
  <1>9. PositionInv'
    <2>1. /\ \A d \in Range(routeClients) : FdOf(d)' = FdOf(d) /\ last'[d] = last[d]
          /\ loop.at = "console" => Range(loop.todo) \subseteq Range(routeClients)
      BY <1>3, <1>5, OwnFacts DEF FdOf, IInv, OInv, TodoInv
    <2> QED
      BY <1>1, <2>1 DEF IInv, OInv, PositionInv
  <1> QED
    BY <1>6, <1>7, <1>8, <1>9 DEF OInv

\* Taking a connection from the clients takes it alone, and its position.
LEMMA WithoutOwn ==
    ASSUME IInv, NEW c \in Conn, peer[c].st = "async",
           routeClients' = ClientsWithout(c, FdOf(c)), ForgetsPosition(c, FdOf(c)),
           UNCHANGED <<peer, last>>
    PROVE  /\ Range(routeClients') = Range(routeClients) \ {c} /\ IsInjective(routeClients')
           /\ DOMAIN readPos' \subseteq {FdOf(d)' : d \in Range(routeClients') \ Monitors}
           /\ \A d \in Range(routeClients') \ Monitors :
                 FdOf(d)' \in DOMAIN readPos' => last'[d] <= readPos'[FdOf(d)']
           /\ \A d \in Range(routeClients') :
                 FdOf(d) \in DOMAIN readPos' <=> FdOf(d) \in DOMAIN readPos
  <1>1. /\ Range(routeClients') = {d \in Range(routeClients) :
                                FdOf(d) = FdOf(c) => (d \in Monitors) # (c \in Monitors)}
        /\ IsInjective(routeClients')
        /\ DOMAIN readPos' = IF c \in Monitors THEN DOMAIN readPos
                             ELSE DOMAIN readPos \ {FdOf(c)}
        /\ \A f \in DOMAIN readPos' : readPos'[f] = readPos[f]
    BY WithoutTypes DEF IInv, OInv, ClientsInv
  <1>2. \A d \in Range(routeClients) : FdOf(d) = FdOf(c) => d = c
    BY OwnFacts
  <1>3. Range(routeClients') = Range(routeClients) \ {c}
    BY <1>1, <1>2
  <1>4. \A d \in Conn : FdOf(d)' = FdOf(d) /\ last'[d] = last[d]
    BY DEF FdOf
  <1>5. Range(routeClients) \subseteq Conn
    BY OwnFacts
  <1>6. /\ DOMAIN readPos \subseteq {FdOf(d) : d \in Range(routeClients) \ Monitors}
        /\ \A d \in Range(routeClients) \ Monitors :
              FdOf(d) \in DOMAIN readPos => last[d] <= readPos[FdOf(d)]
    BY DEF IInv, OInv, PositionInv
  <1>7. DOMAIN readPos' \subseteq {FdOf(d)' : d \in Range(routeClients') \ Monitors}
    <2>1. ASSUME NEW f \in DOMAIN readPos'
          PROVE  \E d \in Range(routeClients') \ Monitors : f = FdOf(d)'
      <3>1. PICK d \in Range(routeClients) \ Monitors : f = FdOf(d)
        BY <1>1, <1>6
      <3>2. d # c
        BY <1>1, <3>1
      <3> QED
        BY <1>3, <1>4, <1>5, <3>1, <3>2
    <2> QED
      BY <2>1
  <1>8. \A d \in Range(routeClients') \ Monitors :
           FdOf(d)' \in DOMAIN readPos' => last'[d] <= readPos'[FdOf(d)']
    BY <1>1, <1>3, <1>4, <1>5, <1>6
  <1>9. \A d \in Range(routeClients') :
           FdOf(d) \in DOMAIN readPos' <=> FdOf(d) \in DOMAIN readPos
    BY <1>1, <1>2, <1>3
  <1> QED
    BY <1>1, <1>3, <1>7, <1>8, <1>9

\* loop() serves a session only when it is announced, and what it removes is a
\* session to the end.
LEMMA ServingOwn ==
    ASSUME WebsocketSessionsAssumption, ~Overtakes, IInv,
           \/ TakesSessions \/ Disconnects \/ Completes \/ Erases
           \/ \E c \in Conn : Serves(c) \/ Dies(c)
    PROVE  OInv'
  <1>0. TInv /\ peer \in [Conn -> PeerRecord] /\ sessions \in Seq(Conn)
    BY Before DEF IInv
  <1>1. CASE TakesSessions
    <2>1. /\ httpd.at # "announce" /\ GoesTo("session", sessions) /\ loop.at = "serve"
          /\ UNCHANGED <<peer, socket, httpd, sessions, marked, routeClients, readPos, last, foreign>>
      BY <1>1 DEF TakesSessions, consoleVars
    <2>2. loop'.at = "session" /\ loop'.todo = sessions
      BY <1>0, <2>1, LoopChange
    <2>3. SocketInv' /\ UpgradeInv' /\ FramesOwn'
      BY <2>1, <2>2 DEF IInv, OInv, SocketInv, UpgradeInv, FramesOwn
    <2>4. SessionsInv' /\ ClientsInv' /\ TodoInv'
      BY <2>1, <2>2 DEF IInv, OInv, SessionsInv, ClientsInv, TodoInv, Removing
    <2>5. PositionInv'
      BY <2>1, <2>2 DEF IInv, OInv, PositionInv, FdOf
    <2> QED
      BY <2>3, <2>4, <2>5 DEF OInv
  <1>2. CASE Disconnects
    <2> DEFINE c == loop.todo[1]
    <2>1. /\ routeClients' = ClientsWithout(c, FdOf(c)) /\ ForgetsPosition(c, FdOf(c))
          /\ GoesTo("complete", loop.todo) /\ loop.at = "disconnect"
          /\ UNCHANGED <<peer, socket, httpd, sessions, marked, last, foreign>>
      BY <1>2 DEF Disconnects
    <2>2. loop'.at = "complete" /\ loop'.todo = loop.todo
      BY <1>0, <2>1, Before, LoopChange
    <2>3. c \in Range(loop.todo) /\ c \in Range(sessions) /\ c \in Conn /\ peer[c].st = "async"
      <3>1. c \in Range(loop.todo) /\ Range(loop.todo) \subseteq Range(sessions)
        BY <2>1, OwnFacts DEF IInv, OInv, TodoInv, Serving
      <3> QED
        BY <2>1, <3>1, OwnFacts
    <2>4. loop'.todo[1] = c
      BY <2>2
    <2> HIDE DEF c
    <2>5. /\ Range(routeClients') = Range(routeClients) \ {c} /\ IsInjective(routeClients')
          /\ DOMAIN readPos' \subseteq {FdOf(d)' : d \in Range(routeClients') \ Monitors}
          /\ \A d \in Range(routeClients') \ Monitors :
                FdOf(d)' \in DOMAIN readPos' => last'[d] <= readPos'[FdOf(d)']
      BY <2>1, <2>3, WithoutOwn
    <2>6. SocketInv' /\ UpgradeInv' /\ FramesOwn'
      BY <2>1, <2>2 DEF IInv, OInv, SocketInv, UpgradeInv, FramesOwn, Serving
    <2>7. SessionsInv' /\ TodoInv'
      BY <2>1, <2>2, OwnFacts DEF IInv, OInv, SessionsInv, TodoInv, Serving
    <2>8. ClientsInv'
      BY <2>1, <2>2, <2>4, <2>5 DEF IInv, OInv, ClientsInv, Removing
    <2>9. PositionInv'
      BY <2>2, <2>5 DEF PositionInv
    <2> QED
      BY <2>6, <2>7, <2>8, <2>9 DEF OInv
  <1>3. CASE Completes
    <2> DEFINE c == loop.todo[1]
    <2>1. /\ peer' = [peer EXCEPT ![c].st = "returned"] /\ loop.at = "complete"
          /\ GoesTo("erase", loop.todo)
          /\ UNCHANGED <<socket, httpd, sessions, marked, routeClients, readPos, last, foreign>>
      BY <1>3 DEF Completes, consoleVars
    <2>2. loop'.at = "erase" /\ loop'.todo = loop.todo
      BY <1>0, <2>1, Before, LoopChange
    <2>3. c \in Range(loop.todo) /\ c \in Range(sessions) /\ c \in Conn /\ peer[c].st = "async"
      <3>1. c \in Range(loop.todo) /\ Range(loop.todo) \subseteq Range(sessions)
        BY <2>1, OwnFacts DEF IInv, OInv, TodoInv, Serving
      <3> QED
        BY <2>1, <3>1, OwnFacts
    <2>4. loop'.todo[1] = c
      BY <2>2
    <2> HIDE DEF c
    <2>5. /\ peer'[c].st = "returned" /\ peer'[c].fd = peer[c].fd
          /\ \A d \in Conn : d # c => peer'[d] = peer[d]
      BY <1>0, <2>1, <2>3 DEF PeerRecord
    <2>6. \A d \in Conn : FdOf(d)' = FdOf(d)
      BY <2>5 DEF FdOf
    <2>7. SocketInv' /\ FramesOwn'
      <3>1. socket[peer[c].fd] = c
        BY <2>3 DEF IInv, OInv, SocketInv
      <3> QED
        BY <2>1, <2>5, <3>1 DEF IInv, OInv, SocketInv, FramesOwn
    <2>8. UpgradeInv'
      <3>1. /\ httpd.at = "begin" => httpd.conn # c
            /\ httpd.at \in {"append", "announce"} => httpd.conn # c
        BY <2>1, <2>3 DEF IInv, OInv, UpgradeInv, Serving
      <3>2. httpd.at # "idle" => httpd.conn \in Conn
        BY <1>0 DEF TInv, KnownInv, Known
      <3> QED
        BY <1>0, <2>1, <2>2, <2>5, <3>1, <3>2
        DEF IInv, OInv, UpgradeInv, Serving, TInv, SessionsTypeOK, HttpdRecord
    <2>9. SessionsInv' /\ ClientsInv' /\ TodoInv'
      <3>1. \A d \in Range(sessions) : d # c => peer[d].st = "async" /\ peer'[d] = peer[d]
        BY <2>1, <2>5, OwnFacts
      <3>2. SessionsInv'
        BY <2>1, <2>2, <2>4, <2>5, <3>1 DEF IInv, OInv, SessionsInv
      <3>3. ClientsInv' /\ TodoInv'
        BY <2>1, <2>2 DEF IInv, OInv, ClientsInv, TodoInv, Removing, Serving
      <3> QED
        BY <3>2, <3>3
    <2>10. PositionInv'
      BY <2>1, <2>2, <2>6, OwnFacts DEF IInv, OInv, PositionInv
    <2> QED
      BY <2>7, <2>8, <2>9, <2>10 DEF OInv
  <1>4. CASE Erases
    <2> DEFINE c == loop.todo[1]
               rest == Tail(loop.todo)
    <2>1. /\ sessions' = Among(sessions, Conn \ {c})
          /\ marked' = marked \ {c} /\ loop.at = "erase"
          /\ GoesTo("session", rest)
          /\ UNCHANGED <<peer, socket, httpd, routeClients, readPos, last, foreign>>
      BY <1>4 DEF Erases, consoleVars
    <2>2. /\ rest \in Seq(Conn) /\ Range(rest) \subseteq Range(loop.todo)
          /\ IsInjective(rest) /\ c \notin Range(rest) /\ c \in Range(loop.todo)
      <3>1. loop.todo # <<>> /\ IsInjective(loop.todo)
        BY <2>1, OwnFacts DEF IInv, OInv, TodoInv
      <3> QED
        BY <1>0, <3>1, TodoFacts
    <2>3. Removing(c) /\ \A d : Removing(d) => d = c
      BY <2>1 DEF Removing
    <2>4. \A d \in Range(sessions) : d # c => peer[d].st = "async"
      BY OwnFacts
    <2> HIDE DEF c, rest
    <2>5. loop'.at = "session" /\ loop'.todo = rest
      BY <1>0, <2>1, <2>2, LoopChange
    <2>6. /\ Len(sessions') <= Len(sessions) /\ IsInjective(sessions')
          /\ Range(sessions') = Range(sessions) \ {c}
          /\ Len(sessions) \in Nat /\ Len(sessions') \in Nat
      <3>1. IsInjective(sessions) /\ Range(sessions) \subseteq Conn
        BY OwnFacts DEF IInv, OInv, SessionsInv
      <3>2. /\ Len(sessions') <= Len(sessions) /\ IsInjective(sessions')
            /\ Range(sessions') = Range(sessions) \cap (Conn \ {c}) /\ sessions' \in Seq(Conn)
        BY <1>0, <2>1, <3>1, AmongFacts
      <3> QED
        BY <1>0, <3>1, <3>2
    <2>7. MaxSockets \in Nat
      BY DEF WebsocketSessionsAssumption
    <2>8. SocketInv' /\ FramesOwn'
      BY <2>1 DEF IInv, OInv, SocketInv, FramesOwn
    <2>9. UpgradeInv'
      <3>1. httpd.at = "announce" => httpd.conn # c /\ httpd.conn \notin Range(loop.todo)
        BY <2>1, <2>2 DEF IInv, OInv, UpgradeInv, Serving
      <3>2. Len(sessions) < MaxSockets => Len(sessions') < MaxSockets
        BY <2>6, <2>7
      <3> QED
        BY <2>1, <2>2, <2>5, <2>6, <3>1, <3>2 DEF IInv, OInv, UpgradeInv, Serving
    <2>10. SessionsInv'
      <3>1. Len(sessions') <= MaxSockets
        BY <2>6, <2>7 DEF IInv, OInv, SessionsInv
      <3> QED
        BY <2>1, <2>4, <2>6, <3>1 DEF IInv, OInv, SessionsInv
    <2>11. ClientsInv'
      BY <2>1, <2>3, <2>5, <2>6 DEF IInv, OInv, ClientsInv, Removing
    <2>12. TodoInv'
      BY <2>1, <2>2, <2>5, <2>6 DEF IInv, OInv, TodoInv, Serving
    <2>13. PositionInv'
      BY <2>1, <2>5 DEF IInv, OInv, PositionInv, FdOf
    <2> QED
      BY <2>8, <2>9, <2>10, <2>11, <2>12, <2>13 DEF OInv
  <1>5. ASSUME NEW c \in Conn, Serves(c) \/ Dies(c)
        PROVE  OInv'
    <2> DEFINE rest == Tail(loop.todo)
    <2>1. /\ peer' = [peer EXCEPT ![c].unread = 0] \/ peer' = peer
          /\ loop.todo # <<>> /\ loop.at = "session"
          /\ GoesTo("session", rest) \/ GoesTo("disconnect", loop.todo)
          /\ UNCHANGED <<socket, httpd, sessions, marked, routeClients, readPos, last, foreign>>
      BY <1>5 DEF Serves, Dies, InSession, consoleVars
    <2>2. \A d \in Conn : peer'[d].st = peer[d].st /\ peer'[d].fd = peer[d].fd
      BY <1>0, <2>1 DEF PeerRecord
    <2>3. /\ rest \in Seq(Conn) /\ loop.todo \in Seq(Conn)
          /\ Range(rest) \subseteq Range(loop.todo)
          /\ IsInjective(rest) /\ IsInjective(loop.todo)
      <3>1. IsInjective(loop.todo)
        BY DEF IInv, OInv, TodoInv
      <3> QED
        BY <1>0, <2>1, <3>1, TodoFacts, Before
    <2> HIDE DEF rest
    <2>4. /\ loop'.at \in {"session", "disconnect"} /\ IsInjective(loop'.todo)
          /\ Range(loop'.todo) \subseteq Range(loop.todo)
      <3>1. CASE GoesTo("session", rest)
        BY <1>0, <2>3, <3>1, LoopChange
      <3>2. CASE GoesTo("disconnect", loop.todo)
        BY <1>0, <2>3, <3>2, LoopChange
      <3> QED
        BY <2>1, <3>1, <3>2
    <2>5. /\ httpd.at # "idle" => httpd.conn \in Conn
          /\ httpd.at \in {"idle", "begin", "append", "announce"}
      BY <1>0 DEF TInv, SessionsTypeOK, KnownInv, Known, HttpdRecord
    <2>6. SocketInv' /\ UpgradeInv' /\ FramesOwn'
      BY <2>1, <2>2, <2>4, <2>5 DEF IInv, OInv, SocketInv, UpgradeInv, FramesOwn, Serving
    <2>7. SessionsInv' /\ ClientsInv' /\ TodoInv'
      BY <2>1, <2>2, <2>4, OwnFacts
      DEF IInv, OInv, SessionsInv, ClientsInv, TodoInv, Serving, Removing
    <2>8. PositionInv'
      <3>1. \A d \in Range(routeClients) : FdOf(d)' = FdOf(d)
        BY <2>2, OwnFacts DEF FdOf
      <3> QED
        BY <2>1, <2>4, <3>1 DEF IInv, OInv, PositionInv
    <2> QED
      BY <2>6, <2>7, <2>8 DEF OInv
  <1> QED
    BY <1>1, <1>2, <1>3, <1>4, <1>5

\* A frame for a client reaches it, and is a line it has not got.
LEMMA ReachesOwn ==
    ASSUME WebsocketSessionsAssumption, IInv,
           NEW c \in Range(routeClients), NEW old, ~old, Reaches(c, old)
    PROVE  FramesOwn'
  <1>1. socket[FdOf(c)] = c /\ peer[c].st = "async" /\ c \in Conn
    BY OwnFacts
  <1>2. c # None
    BY <1>1 DEF WebsocketSessionsAssumption
  <1>3. foreign = {}
    BY DEF IInv, OInv, FramesOwn
  <1> QED
    BY <1>1, <1>2, <1>3 DEF Reaches, FramesOwn

\* The position of a console is past what was logged before it and sent to it.
LEMMA PositionOwn ==
    ASSUME WebsocketSessionsAssumption, IInv, NEW c, InConsole(c)
    PROVE  /\ c \in Range(routeClients) \ Monitors /\ c \in Range(loop.todo)
           /\ FdOf(c) \in Fd /\ loop.at = "console" /\ loop.todo # <<>>
           /\ last[c] <= Position(FdOf(c))
           /\ Position(FdOf(c)) \in 0 .. written /\ last[c] \in 0 .. written
  <1> DEFINE fd == FdOf(c)
  <1>1. /\ loop.at = "console" /\ loop.todo # <<>> /\ c \in Range(loop.todo)
        /\ c \in Range(routeClients) \ Monitors
    <2>1. loop.at = "console" /\ loop.todo # <<>> /\ c = loop.todo[1]
      BY DEF InConsole
    <2>2. c \in Range(loop.todo)
      BY <2>1, TodoFacts DEF IInv
    <2> QED
      BY <2>1, <2>2 DEF IInv, OInv, TodoInv
  <1>2. fd \in Fd /\ c \in Conn
    BY <1>1, OwnFacts
  <1>3. /\ fd \in DOMAIN readPos => last[c] <= readPos[fd]
        /\ fd \notin DOMAIN readPos => last[c] <= loop.upTo
    BY <1>1 DEF IInv, OInv, PositionInv
  <1> HIDE DEF fd
  <1>4. /\ Position(fd) \in 0 .. written
        /\ fd \in DOMAIN readPos => readPos[fd] <= Position(fd)
        /\ fd \notin DOMAIN readPos => Position(fd) = loop.upTo
    BY <1>1, <1>2, PositionType DEF IInv
  <1>5. /\ last[c] \in 0 .. written /\ written \in 0 .. MaxLines /\ MaxLines \in Nat
        /\ fd \in DOMAIN readPos => readPos[fd] \in 0 .. written
    BY <1>2, Before DEF IInv, WebsocketSessionsAssumption
  <1>6. last[c] <= Position(fd)
    BY <1>3, <1>4, <1>5
  <1> QED
    BY <1>1, <1>2, <1>4, <1>5, <1>6 DEF fd

\* Setting the position of a console leaves those of the others.
LEMMA SetPositionOwn ==
    ASSUME WebsocketSessionsAssumption, IInv, NEW c, InConsole(c),
           NEW p \in Nat, SetPosition(FdOf(c), p), last'[c] <= p,
           \A d \in Conn : d # c => last'[d] = last[d],
           UNCHANGED <<peer, routeClients>>, Range(loop'.todo) \subseteq Range(loop.todo),
           loop'.at = "console", loop'.upTo = loop.upTo
    PROVE  PositionInv'
  <1> DEFINE fd == FdOf(c)
  <1>1. c \in Range(routeClients) \ Monitors /\ loop.at = "console"
    BY PositionOwn
  <1>2. \A d \in Conn : FdOf(d)' = FdOf(d)
    BY DEF FdOf
  <1>3. \A d \in Range(routeClients) : d \in Conn /\ (FdOf(d) = fd => d = c)
    BY <1>1, OwnFacts
  <1>4. FdOf(c) = fd
    OBVIOUS
  <1>5. /\ DOMAIN readPos' = DOMAIN readPos \cup {fd} /\ readPos'[fd] = p
        /\ \A f \in DOMAIN readPos : f # fd => readPos'[f] = readPos[f]
    BY DEF SetPosition
  <1> HIDE DEF fd
  <1>6. /\ DOMAIN readPos \subseteq {FdOf(d) : d \in Range(routeClients) \ Monitors}
        /\ \A d \in Range(routeClients) \ Monitors :
              FdOf(d) \in DOMAIN readPos => last[d] <= readPos[FdOf(d)]
        /\ \A d \in Range(loop.todo) :
              FdOf(d) \notin DOMAIN readPos => last[d] <= loop.upTo
    BY <1>1 DEF IInv, OInv, PositionInv
  <1>7. Range(loop.todo) \subseteq Range(routeClients)
    BY <1>1 DEF IInv, OInv, TodoInv
  <1>8. DOMAIN readPos' \subseteq {FdOf(d)' : d \in Range(routeClients') \ Monitors}
    <2>1. ASSUME NEW f \in DOMAIN readPos'
          PROVE  \E d \in Range(routeClients) \ Monitors : f = FdOf(d)
      BY <1>1, <1>4, <1>5, <1>6
    <2> QED
      BY <1>2, <1>3, <2>1
  <1>9. ASSUME NEW d \in Range(routeClients') \ Monitors, FdOf(d)' \in DOMAIN readPos'
        PROVE  last'[d] <= readPos'[FdOf(d)']
    <2>1. d \in Range(routeClients) \ Monitors /\ d \in Conn /\ FdOf(d)' = FdOf(d)
      BY <1>2, <1>3
    <2>2. CASE d = c
      BY <1>4, <1>5, <2>1, <2>2
    <2>3. CASE d # c
      BY <1>3, <1>5, <1>6, <1>9, <2>1, <2>3
    <2> QED
      BY <2>2, <2>3
  <1>10. ASSUME NEW d \in Range(loop'.todo), FdOf(d)' \notin DOMAIN readPos'
         PROVE  last'[d] <= loop'.upTo
    <2>1. d \in Range(loop.todo) /\ d \in Conn /\ FdOf(d)' = FdOf(d)
      BY <1>2, <1>3, <1>7
    <2>2. d # c /\ FdOf(d) \notin DOMAIN readPos
      BY <1>4, <1>5, <1>10, <2>1
    <2> QED
      BY <1>6, <2>1, <2>2
  <1> QED
    BY <1>8, <1>9, <1>10 DEF PositionInv

\* What sending leaves alone.
LEMMA SendingFrame ==
    ASSUME IInv, UNCHANGED <<peer, socket, httpd, sessions, marked, routeClients>>,
           ~Serving, loop'.at \notin {"disconnect", "complete", "erase"},
           loop'.at = "session" => loop'.todo = <<>>
    PROVE  SocketInv' /\ UpgradeInv' /\ SessionsInv' /\ ClientsInv'
  <1>1. SocketInv' /\ SessionsInv' /\ ClientsInv'
    BY DEF IInv, OInv, SocketInv, SessionsInv, ClientsInv, Removing, Serving
  <1>2. UpgradeInv'
    BY EmptyFacts DEF IInv, OInv, UpgradeInv, Serving
  <1> QED
    BY <1>1, <1>2

\* A pass of the console, or a broadcast, starts and ends.
LEMMA PassOwn ==
    ASSUME WebsocketSessionsAssumption, IInv, ConsoleStarts \/ Broadcasts \/ BroadcastEnds
    PROVE  OInv'
  <1>0. /\ TInv /\ routeClients \in Seq(Conn) /\ IsInjective(routeClients)
        /\ Range(routeClients) \subseteq Conn
    BY Before, OwnFacts DEF IInv, OInv, ClientsInv
  <1>1. UNCHANGED <<peer, socket, httpd, sessions, marked, routeClients, last, foreign>>
    BY DEF ConsoleStarts, Broadcasts, BroadcastEnds, consoleVars
  <1>2. /\ loop.at \notin {"disconnect", "complete", "erase"}
        /\ loop'.at \notin {"session", "disconnect", "complete", "erase"}
    <2>1. CASE ConsoleStarts
      BY <2>1 DEF ConsoleStarts
    <2>2. CASE Broadcasts
      BY <2>2 DEF Broadcasts
    <2>3. CASE BroadcastEnds
      <3>1. <<>> \in Seq(Conn) /\ GoesTo("serve", <<>>) /\ loop.at = "broadcast"
        BY <2>3 DEF BroadcastEnds
      <3>2. loop'.at = "serve"
        BY <1>0, <3>1, LoopChange
      <3> QED
        BY <3>1, <3>2
    <2> QED
      BY <2>1, <2>2, <2>3
  <1>3. SocketInv' /\ SessionsInv' /\ ClientsInv' /\ UpgradeInv' /\ FramesOwn'
    BY <1>1, <1>2 DEF IInv, OInv, SocketInv, SessionsInv, ClientsInv, UpgradeInv, FramesOwn,
       Removing, Serving
  <1>4. \A d \in Conn : FdOf(d)' = FdOf(d)
    BY <1>1 DEF FdOf
  <1>5. CASE ConsoleStarts
    <2> DEFINE consoles == ConsoleClients
    <2>1. /\ loop'.at = "console" /\ loop'.todo = consoles /\ loop'.upTo = written
          /\ readPos' = IF consoles = <<>> THEN readPos
                        ELSE Restrict(readPos, DOMAIN readPos \cap
                                               {FdOf(c) : c \in Range(consoles)})
      BY <1>5 DEF ConsoleStarts
    <2>2. /\ consoles \in Seq(Conn) /\ IsInjective(consoles)
          /\ Range(consoles) = Range(routeClients) \ Monitors
      <3>1. /\ consoles \in Seq(Conn) /\ IsInjective(consoles)
            /\ Range(consoles) = Range(routeClients) \cap (Conn \ Monitors)
        BY <1>0, AmongFacts DEF ConsoleClients
      <3> QED
        BY <1>0, <3>1
    <2> HIDE DEF consoles
    <2>3. TodoInv'
      BY <1>1, <2>1, <2>2 DEF TodoInv, Serving
    <2>4. /\ DOMAIN readPos' \subseteq DOMAIN readPos
          /\ \A f \in DOMAIN readPos' : readPos'[f] = readPos[f]
      BY <2>1 DEF Restrict
    <2>5. \A d \in Conn : last[d] <= written
      BY Before DEF IInv
    <2>6. PositionInv'
      <3>1. DOMAIN readPos' \subseteq {FdOf(d)' : d \in Range(routeClients') \ Monitors}
        BY <1>0, <1>1, <1>4, <2>4 DEF IInv, OInv, PositionInv
      <3>2. \A d \in Range(routeClients') \ Monitors :
               FdOf(d)' \in DOMAIN readPos' => last'[d] <= readPos'[FdOf(d)']
        BY <1>0, <1>1, <1>4, <2>4 DEF IInv, OInv, PositionInv
      <3>3. \A d \in Range(loop'.todo) : last'[d] <= loop'.upTo
        BY <1>0, <1>1, <2>1, <2>2, <2>5
      <3> QED
        BY <3>1, <3>2, <3>3 DEF PositionInv
    <2> QED
      BY <1>3, <2>3, <2>6 DEF OInv
  <1>6. CASE Broadcasts \/ BroadcastEnds
    <2> DEFINE monitors == MonitorClients
    <2>1. /\ \/ loop'.at = "broadcast" /\ loop'.todo = monitors
             \/ loop'.at = "serve" /\ loop'.todo = <<>>
          /\ readPos' = readPos
      <3>1. CASE Broadcasts
        BY <3>1 DEF Broadcasts, consoleVars
      <3>2. CASE BroadcastEnds
        <4>1. <<>> \in Seq(Conn) /\ GoesTo("serve", <<>>)
          BY <3>2 DEF BroadcastEnds
        <4> QED
          BY <1>0, <3>2, <4>1, LoopChange DEF BroadcastEnds, consoleVars
      <3> QED
        BY <1>6, <3>1, <3>2
    <2>2. IsInjective(monitors) /\ Range(monitors) = Range(routeClients) \cap Monitors
      BY <1>0, AmongFacts DEF MonitorClients
    <2> HIDE DEF monitors
    <2>3. TodoInv'
      BY <1>1, <2>1, <2>2, EmptyFacts DEF TodoInv, Serving
    <2>4. PositionInv'
      BY <1>0, <1>1, <1>4, <2>1 DEF IInv, OInv, PositionInv
    <2> QED
      BY <1>3, <2>3, <2>4 DEF OInv
  <1> QED
    BY <1>5, <1>6

\* A console or a group monitor gets a frame, or is passed by.
LEMMA FrameOwn ==
    ASSUME WebsocketSessionsAssumption, IInv, NEW c \in Conn,
           ConsoleSends(c) \/ ConsoleNext(c) \/ BroadcastSends(c)
    PROVE  OInv'
  <1>0. /\ TInv /\ peer \in [Conn -> PeerRecord] /\ last \in [Conn -> 0 .. written]
        /\ written \in 0 .. MaxLines /\ loop.upTo \in 0 .. MaxLines /\ MaxLines \in Nat
    BY Before DEF IInv, WebsocketSessionsAssumption
  <1>1. UNCHANGED <<peer, socket, httpd, sessions, marked, routeClients>>
    BY DEF ConsoleSends, ConsoleNext, BroadcastSends, taskVars
  <1>2. /\ loop.todo # <<>> /\ c \in Range(loop.todo) /\ c \in Range(routeClients)
        /\ loop.at \in {"console", "broadcast"}
    <2>1. loop.todo # <<>> /\ c = loop.todo[1] /\ loop.at \in {"console", "broadcast"}
      BY DEF ConsoleSends, ConsoleNext, BroadcastSends, InConsole, InBroadcast
    <2>2. c \in Range(loop.todo)
      BY <1>0, <2>1, TodoFacts
    <2> QED
      BY <2>1, <2>2 DEF IInv, OInv, TodoInv
  <1> DEFINE rest == Tail(loop.todo)
  <1>3. rest \in Seq(Conn) /\ IsInjective(rest) /\ Range(rest) \subseteq Range(loop.todo)
    <2>1. IsInjective(loop.todo)
      BY DEF IInv, OInv, TodoInv
    <2> QED
      BY <1>0, <1>2, <2>1, TodoFacts
  <1> HIDE DEF rest
  <1>4. loop' = loop \/ GoesTo(loop.at, rest)
    BY DEF ConsoleSends, ConsoleNext, BroadcastSends, taskVars, rest, InConsole, InBroadcast
  <1>5. /\ loop'.at = loop.at /\ loop'.upTo = loop.upTo
        /\ Range(loop'.todo) \subseteq Range(loop.todo) /\ IsInjective(loop'.todo)
    <2>1. CASE loop' = loop
      BY <2>1 DEF IInv, OInv, TodoInv
    <2>2. CASE GoesTo(loop.at, rest)
      BY <1>0, <1>2, <1>3, <2>2, LoopChange
    <2> QED
      BY <1>4, <2>1, <2>2
  <1>6. SocketInv' /\ UpgradeInv' /\ SessionsInv' /\ ClientsInv'
    BY <1>1, <1>2, <1>5, SendingFrame DEF Serving
  <1>7. TodoInv'
    BY <1>1, <1>2, <1>5 DEF IInv, OInv, TodoInv, Serving
  <1>8. CASE ConsoleSends(c)
    <2> DEFINE fd == FdOf(c)
               line == Position(fd) + 1
    <2>1. /\ InConsole(c) /\ SetPosition(fd, line)
          /\ Reaches(c, socket[fd] # None /\ line <= last[socket[fd]])
          /\ last' = IF socket[fd] = None THEN last ELSE [last EXCEPT ![socket[fd]] = line]
      BY <1>8 DEF ConsoleSends
    <2>2. /\ loop.at = "console" /\ last[c] <= Position(fd)
          /\ Position(fd) \in 0 .. written /\ last[c] \in 0 .. written
      BY <2>1, PositionOwn
    <2>3. socket[fd] = c /\ c # None
      BY <1>2, OwnFacts DEF WebsocketSessionsAssumption
    <2> HIDE DEF fd
    <2>4. line \in Nat /\ ~(line <= last[c]) /\ line <= line
      BY <1>0, <2>2
    <2> HIDE DEF line
    <2>5. last'[c] = line /\ \A d \in Conn : d # c => last'[d] = last[d]
      BY <1>0, <2>1, <2>3
    <2>6. FramesOwn'
      <3>1. ~(socket[fd] # None /\ line <= last[socket[fd]])
        BY <2>3, <2>4
      <3> QED
        BY <1>2, <2>1, <3>1, ReachesOwn
    <2>7. PositionInv'
      BY <1>1, <1>5, <2>1, <2>2, <2>4, <2>5, SetPositionOwn DEF fd
    <2> QED
      BY <1>6, <1>7, <2>6, <2>7 DEF OInv
  <1>9. CASE ConsoleNext(c)
    <2> DEFINE fd == FdOf(c)
    <2>1. InConsole(c) /\ SetPosition(fd, Position(fd)) /\ UNCHANGED <<last, foreign>>
      BY <1>9 DEF ConsoleNext
    <2>2. /\ loop.at = "console" /\ last[c] <= Position(fd)
          /\ Position(fd) \in 0 .. written
      BY <2>1, PositionOwn
    <2>3. Position(fd) \in Nat
      BY <2>2
    <2>4. PositionInv'
      BY <1>1, <1>5, <2>1, <2>2, <2>3, SetPositionOwn
    <2>5. FramesOwn'
      BY <2>1 DEF IInv, OInv, FramesOwn
    <2> QED
      BY <1>6, <1>7, <2>4, <2>5 DEF OInv
  <1>10. CASE BroadcastSends(c)
    <2>1. /\ UNCHANGED foreign \/ Reaches(c, FALSE)
          /\ loop.at = "broadcast"
          /\ UNCHANGED <<readPos, last>>
      BY <1>10 DEF BroadcastSends, InBroadcast
    <2>2. FramesOwn'
      <3>1. CASE UNCHANGED foreign
        BY <3>1 DEF IInv, OInv, FramesOwn
      <3>2. CASE Reaches(c, FALSE)
        BY <1>2, <3>2, ReachesOwn
      <3> QED
        BY <2>1, <3>1, <3>2
    <2>3. PositionInv'
      <3>1. loop.at = "broadcast"
        BY <1>10 DEF BroadcastSends, InBroadcast
      <3> QED
        BY <1>1, <1>5, <2>1, <3>1 DEF IInv, OInv, PositionInv, FdOf
    <2> QED
      BY <1>6, <1>7, <2>2, <2>3 DEF OInv
  <1> QED
    BY <1>8, <1>9, <1>10

\* A send that fails takes the client, and marks its own session.
LEMMA FailsOwn ==
    ASSUME WebsocketSessionsAssumption, IInv, NEW c \in Conn,
           ConsoleFails(c) \/ BroadcastFails(c)
    PROVE  OInv'
  <1>0. TInv /\ Range(routeClients) \subseteq Range(sessions) /\ Range(sessions) \subseteq Conn
    BY OwnFacts DEF IInv
  <1> DEFINE rest == Tail(loop.todo)
  <1>1. /\ Fails(c) /\ loop.todo # <<>> /\ c = loop.todo[1]
        /\ GoesTo(loop.at, rest) /\ loop.at \in {"console", "broadcast"}
        /\ UNCHANGED <<peer, socket, httpd, sessions, last, foreign>>
    BY DEF ConsoleFails, BroadcastFails, InConsole, InBroadcast
  <1>2. /\ rest \in Seq(Conn) /\ IsInjective(rest) /\ c \notin Range(rest)
        /\ Range(rest) \subseteq Range(loop.todo) /\ c \in Range(loop.todo)
    <2>1. IsInjective(loop.todo)
      BY DEF IInv, OInv, TodoInv
    <2> QED
      BY <1>0, <1>1, <2>1, TodoFacts
  <1> HIDE DEF rest
  <1>3. loop'.at = loop.at /\ loop'.upTo = loop.upTo /\ loop'.todo = rest
    BY <1>0, <1>1, <1>2, LoopChange
  <1>4. c \in Range(routeClients) /\ c \in Range(sessions) /\ peer[c].st = "async"
    <2>1. c \in Range(routeClients)
      BY <1>1, <1>2 DEF IInv, OInv, TodoInv
    <2> QED
      BY <2>1, OwnFacts
  <1>5. marked' = marked \cup {c}
    <2> DEFINE with == {d \in Range(sessions) : FdOf(d) = FdOf(c)}
    <2>1. IF with = {} THEN marked' = marked ELSE \E d \in with : marked' = marked \cup {d}
      BY <1>0, <1>1, FailsTypes
    <2>2. \A d \in Range(sessions) : peer[d].st = "async"
      BY <1>1, OwnFacts
    <2>3. with = {c}
      BY <1>0, <1>4, <2>2, OwnFacts
    <2> HIDE DEF with
    <2> QED
      BY <2>1, <2>3
  <1>6. routeClients' = ClientsWithout(c, FdOf(c)) /\ ForgetsPosition(c, FdOf(c))
    BY <1>1 DEF Fails
  <1>7. /\ Range(routeClients') = Range(routeClients) \ {c} /\ IsInjective(routeClients')
        /\ DOMAIN readPos' \subseteq {FdOf(d)' : d \in Range(routeClients') \ Monitors}
        /\ \A d \in Range(routeClients') \ Monitors :
              FdOf(d)' \in DOMAIN readPos' => last'[d] <= readPos'[FdOf(d)']
        /\ \A d \in Range(routeClients') :
              FdOf(d) \in DOMAIN readPos' <=> FdOf(d) \in DOMAIN readPos
    BY <1>1, <1>4, <1>6, WithoutOwn
  <1>8. SocketInv' /\ FramesOwn'
    BY <1>1 DEF IInv, OInv, SocketInv, FramesOwn
  <1>9. UpgradeInv'
    <2>1. httpd.at = "announce" => httpd.conn # c
      BY <1>4 DEF IInv, OInv, ClientsInv
    <2> QED
      BY <1>1, <1>3, <1>5, <2>1 DEF IInv, OInv, UpgradeInv, Serving
  <1>10. SessionsInv'
    BY <1>1, <1>3, <1>4, <1>5, OwnFacts DEF IInv, OInv, SessionsInv
  <1>11. ClientsInv'
    BY <1>1, <1>3, <1>5, <1>7 DEF IInv, OInv, ClientsInv, Removing
  <1>12. TodoInv'
    BY <1>1, <1>2, <1>3, <1>7 DEF IInv, OInv, TodoInv, Serving
  <1>13. PositionInv'
    <2>1. ASSUME loop'.at = "console", NEW d \in Range(loop'.todo),
                 FdOf(d)' \notin DOMAIN readPos'
          PROVE  last'[d] <= loop'.upTo
      <3>1. /\ loop.at = "console" /\ d \in Range(loop.todo) /\ d # c
            /\ d \in Range(routeClients') /\ FdOf(d)' = FdOf(d)
        BY <1>1, <1>2, <1>3, <1>7, <2>1 DEF IInv, OInv, TodoInv, FdOf
      <3>2. FdOf(d) \notin DOMAIN readPos
        BY <1>7, <2>1, <3>1
      <3> QED
        BY <1>1, <1>3, <3>1, <3>2 DEF IInv, OInv, PositionInv
    <2> QED
      BY <1>7, <2>1 DEF PositionInv
  <1> QED
    BY <1>8, <1>9, <1>10, <1>11, <1>12, <1>13 DEF OInv

\* Every step keeps the invariant, if no session is overtaken.
LEMMA NextOwn == WebsocketSessionsAssumption /\ ~Overtakes /\ IInv /\ [SessionsNext]_sessionsVars => IInv'
  <1> SUFFICES ASSUME WebsocketSessionsAssumption, ~Overtakes, IInv, [SessionsNext]_sessionsVars
               PROVE  IInv'
    OBVIOUS
  <1>1. TInv'
    BY NextTypes DEF IInv
  <1>2. OInv'
    <2>1. CASE LoopTask
      BY <2>1, ServingOwn, PassOwn, FrameOwn, FailsOwn DEF LoopTask
    <2>2. CASE HttpdTask
      BY <2>2, UpgradesOwn, ClosesOwn DEF HttpdTask
    <2>3. CASE Peers
      BY <2>3, LogsOwn, PeersOwn, UpgradesOwn DEF Peers
    <2>4. CASE UNCHANGED sessionsVars
      BY <2>4, LogsOwn
    <2> QED
      BY <2>1, <2>2, <2>3, <2>4 DEF SessionsNext
  <1> QED
    BY <1>1, <1>2 DEF IInv

\* At first there is no session.
LEMMA InitOwn == WebsocketSessionsAssumption /\ SessionsInit => IInv
  <1> SUFFICES ASSUME WebsocketSessionsAssumption, SessionsInit PROVE IInv
    OBVIOUS
  <1>1. TInv
    BY InitTypes
  <1>2. /\ \A c \in Conn : peer[c].st = "new"
        /\ httpd.at = "idle" /\ sessions = <<>> /\ routeClients = <<>> /\ marked = {}
        /\ loop.at = "serve" /\ loop.todo = <<>> /\ DOMAIN readPos = {} /\ foreign = {}
    BY DEF SessionsInit, NewPeer
  <1>3. Len(<<>>) <= MaxSockets
    BY DEF WebsocketSessionsAssumption
  <1>4. OInv
    BY <1>2, <1>3, EmptyFacts DEF OInv, SocketInv, UpgradeInv, SessionsInv, ClientsInv,
       TodoInv, PositionInv, FramesOwn, Serving
  <1> QED
    BY <1>1, <1>4 DEF IInv

-----------------------------------------------------------------------------
\* The inductive invariant, for every number of connections, sockets and
\* sessions, if loop() serves no session that is not announced yet.
THEOREM Invariance == WebsocketSessionsAssumption /\ ~Overtakes => (SessionsSpec => []IInv)
  <1> SUFFICES ASSUME WebsocketSessionsAssumption, ~Overtakes PROVE SessionsSpec => []IInv
    OBVIOUS
  <1>1. SessionsInit => IInv
    BY InitOwn
  <1>2. IInv /\ [SessionsNext]_sessionsVars => IInv'
    BY NextOwn
  <1> QED
    BY <1>1, <1>2, PTL DEF SessionsSpec

\* The clients of the console and of the group monitor are the sessions that
\* live, each once and on its own socket, through upgrades, failed sends and
\* sessions that end, and sockets whose numbers come back: never more than
\* OPENKNX_WEBSOCKET_MAX.
THEOREM ClientsMatchSessions ==
    WebsocketSessionsAssumption /\ ~Overtakes => (SessionsSpec => []ClientsAreSessions)
  <1> SUFFICES ASSUME WebsocketSessionsAssumption, ~Overtakes
               PROVE  SessionsSpec => []ClientsAreSessions
    OBVIOUS
  <1>1. IInv => ClientsAreSessions
    BY OwnFacts DEF IInv, OInv, SessionsInv, ClientsInv, ClientsAreSessions
  <1> QED
    BY Invariance, <1>1, PTL

\* What is sent to a client reaches that very connection, though it is sent to
\* a file descriptor and those are given to the next connection; and a console gets
\* no line twice or out of order, and none logged before it connected.
THEOREM OwnFrames == WebsocketSessionsAssumption /\ ~Overtakes => (SessionsSpec => []FramesOwn)
  <1> SUFFICES ASSUME WebsocketSessionsAssumption, ~Overtakes PROVE SessionsSpec => []FramesOwn
    OBVIOUS
  <1>1. IInv => FramesOwn
    BY DEF IInv, OInv
  <1> QED
    BY Invariance, <1>1, PTL
=============================================================================
