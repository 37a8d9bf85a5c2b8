------------------------ MODULE WebclientTaskProofs -------------------------
(***************************************************************************)
(* Theorems about the web client of the ESP32 for every number of requests *)
(* and every length of its queues: each callback that loop() keeps has one *)
(* answer under way, whatever the callbacks do meanwhile, the pieces of a  *)
(* body come before onDone, and onDone is called once.  Where sendDone()   *)
(* reads the id it deleted, Freed = {"kept"} is a hypothesis: run          *)
(* WebclientFreed shows what becomes of the body without it.               *)
(***************************************************************************)
EXTENDS WebclientTask, FiniteSetTheorems, SequenceTheorems, NaturalsInduction,
        WellFoundedInduction, TLAPS

(* The elements of the queues and of the stack.                            *)

Pair  == [id : Nat, req : Request]
Entry == [type : {"DATA", "DONE"}, id : Nat, piece : 0 .. MaxPieces]
Job(n) == [at : {"receive", "headers", "body", "deleted", "done"},
           req : Request \cup {None}, id : Nat, later : SUBSET (1 .. n)]
Frame == [op : {"enqueue", "callback", "data", "erase"},
          req : Request \cup {None}, at : Nat, moved : BOOLEAN]

(* The stack: an enqueue() is the innermost call; a loop() is the outermost*)
(* one, and its iterator points into a vector of n callbacks.              *)

Caller == {"enqueue", "callback"}

Framed(s, n) ==
    \A k \in 1..Len(s) :
        /\ s[k].op \in Caller => s[k].req \in Request
        /\ s[k].op = "enqueue" => k = 1
        /\ s[k].op \notin Caller => k = Len(s) /\ s[k].at \in 1..n

WorkInv ==
    /\ worker.at # "receive" => worker.req \in Request
    /\ worker.at = "receive" => worker.req = None
    /\ \A k \in 1..Len(results) : results[k].type = "DATA" => results[k].piece > 0
    /\ \A r \in cut : read[r] > 0

TInv == TypeOK /\ Framed(stack, Len(callbacks)) /\ WorkInv

\* The iterators of the loops that are to erase what they point to.
Erases(s) == {s[k].at : k \in {k \in 1..Len(s) : s[k].op = "erase"}}

-----------------------------------------------------------------------------
(* Sequences.                                                              *)

\* A sequence without its first element.
LEMMA TakeFacts ==
    ASSUME NEW S, NEW s \in Seq(S), s # <<>>
    PROVE  /\ Len(s) \in Nat \ {0} /\ s[1] \in S /\ Head(s) = s[1] /\ Tail(s) \in Seq(S)
           /\ Len(Tail(s)) = Len(s) - 1
           /\ \A k \in 1..Len(s) - 1 : Tail(s)[k] = s[k + 1]
  OBVIOUS

\* A sequence that counts up from 1.
LEMMA CountsUp ==
    ASSUME NEW S, NEW s \in Seq(S), \A j \in 1..Len(s) : s[j] = j
    PROVE  s = [j \in 1..Len(s) |-> j]
  OBVIOUS

\* A sequence with one element more.
LEMMA AppendFacts ==
    ASSUME NEW S, NEW s \in Seq(S), NEW e \in S
    PROVE  /\ Append(s, e) \in Seq(S) /\ Len(Append(s, e)) = Len(s) + 1
           /\ Len(s) \in Nat /\ Append(s, e)[Len(s) + 1] = e
           /\ \A k \in 1..Len(s) : Append(s, e)[k] = s[k]
  OBVIOUS

\* A sequence with an element put before it.
LEMMA PushFacts ==
    ASSUME NEW S, NEW t \in Seq(S), NEW f \in S, NEW s, s = <<f>> \o t
    PROVE  /\ s \in Seq(S) /\ s # <<>> /\ s[1] = f
           /\ Len(t) \in Nat /\ Len(s) = Len(t) + 1
           /\ \A k \in 1..Len(t) : s[k + 1] = t[k]
  OBVIOUS

\* The elements of a sequence.
LEMMA AmongFacts ==
    ASSUME NEW S, NEW s \in Seq(S)
    PROVE  Len(s) \in Nat /\ \A k \in 1..Len(s) : s[k] \in S
  OBVIOUS

\* A sequence without the element at one place.
LEMMA RemoveFacts ==
    ASSUME NEW S, NEW s \in Seq(S), NEW p \in 1..Len(s)
    PROVE  /\ RemoveAt(s, p) \in Seq(S) /\ Len(s) \in Nat \ {0}
           /\ Len(RemoveAt(s, p)) = Len(s) - 1
           /\ \A k \in 1..Len(s) - 1 :
                 RemoveAt(s, p)[k] = IF k < p THEN s[k] ELSE s[k + 1]
  <1>1. Len(s) \in Nat /\ p \in Nat /\ p >= 1 /\ p <= Len(s)
    OBVIOUS
  <1> DEFINE n == Len(s)  a == SubSeq(s, 1, p - 1)  b == SubSeq(s, p + 1, n)
  <1>2. \A i \in 1..n : s[i] \in S
    OBVIOUS
  <1>3. /\ a \in Seq(S) /\ Len(a) = p - 1
        /\ \A i \in 1..p - 1 : a[i] = s[i]
    <2>1. 1 \in Int /\ p - 1 \in Int /\ \A i \in 1..p - 1 : s[i] \in S
      BY <1>1, <1>2
    <2>2. /\ a \in Seq(S) /\ Len(a) = IF 1 <= p - 1 THEN (p - 1) - 1 + 1 ELSE 0
          /\ \A i \in 1..(p - 1) - 1 + 1 : a[i] = s[1 + i - 1]
      BY <2>1, SubSeqProperties
    <2> HIDE DEF a
    <2> QED
      BY <2>2, <1>1
  <1>4. /\ b \in Seq(S) /\ Len(b) = n - p
        /\ \A i \in 1..n - p : b[i] = s[p + i]
    <2>1. p + 1 \in Int /\ n \in Int /\ \A i \in p + 1..n : s[i] \in S
      BY <1>1, <1>2
    <2>2. /\ b \in Seq(S) /\ Len(b) = IF p + 1 <= n THEN n - (p + 1) + 1 ELSE 0
          /\ \A i \in 1..n - (p + 1) + 1 : b[i] = s[(p + 1) + i - 1]
      BY <2>1, SubSeqProperties
    <2> HIDE DEF b
    <2> QED
      BY <2>2, <1>1
  <1>5. RemoveAt(s, p) = a \o b
    BY DEF RemoveAt
  <1> HIDE DEF a, b
  <1>6. /\ a \o b \in Seq(S) /\ Len(a \o b) = Len(a) + Len(b)
        /\ \A i \in 1..Len(a) + Len(b) :
              (a \o b)[i] = IF i <= Len(a) THEN a[i] ELSE b[i - Len(a)]
    BY <1>3, <1>4, ConcatProperties
  <1>7. Len(a) + Len(b) = n - 1
    BY <1>1, <1>3, <1>4
  <1>8. ASSUME NEW k \in 1..n - 1
        PROVE  (a \o b)[k] = IF k < p THEN s[k] ELSE s[k + 1]
    <2>1. k \in Int /\ k >= 1 /\ k <= n - 1
      BY <1>1
    <2>2. CASE k < p
      BY <2>1, <2>2, <1>1, <1>3, <1>6, <1>7
    <2>3. CASE ~(k < p)
      <3>1. k - (p - 1) \in 1..n - p /\ p + (k - (p - 1)) = k + 1 /\ ~(k <= Len(a))
        BY <2>1, <2>3, <1>1, <1>3
      <3>2. b[k - (p - 1)] = s[k + 1]
        BY <3>1, <1>4
      <3> QED
        BY <2>3, <3>1, <3>2, <1>3, <1>6, <1>7
    <2> QED
      BY <2>2, <2>3
  <1> QED
    BY <1>1, <1>5, <1>6, <1>7, <1>8

-----------------------------------------------------------------------------
(* The stack.                                                              *)

\* The fields of a call in progress.
LEMMA FrameFacts ==
    ASSUME NEW f \in Frame
    PROVE  /\ f.op \in {"enqueue", "callback", "data", "erase"}
           /\ f.req \in Request \cup {None} /\ f.at \in Nat /\ f.moved \in BOOLEAN
  BY DEF Frame

\* No call in progress.
LEMMA EmptyFacts ==
    /\ <<>> \in Seq(Frame) /\ Erases(<<>>) = {}
    /\ \A n : Framed(<<>>, n)
  BY DEF Erases, Framed

\* A place below the first.
LEMMA PlaceBelow ==
    ASSUME NEW m \in Nat, NEW n, n = m - 1, NEW k \in 1..n
    PROVE  /\ k \in 1..m - 1 /\ k + 1 \in 1..m /\ k + 1 # 1
           /\ (k + 1 = m => k = n)
  OBVIOUS

\* What is below the innermost call.
LEMMA PopFacts ==
    ASSUME NEW s \in Seq(Frame), s # <<>>, NEW n, Framed(s, n)
    PROVE  /\ Tail(s) \in Seq(Frame) /\ Framed(Tail(s), n) /\ s[1] \in Frame
           /\ \A k \in 1..Len(Tail(s)) : Tail(s)[k].op # "enqueue"
           /\ s[1].op \in Caller =>
                 s[1].req \in Request /\ Erases(Tail(s)) = Erases(s)
           /\ s[1].op \notin Caller => Tail(s) = <<>> /\ s[1].at \in 1..n
           /\ s[1].op = "data" => Erases(s) = {}
           /\ s[1].op = "erase" => Erases(s) = {s[1].at}
  <1>1. /\ Len(s) \in Nat \ {0} /\ s[1] \in Frame /\ Tail(s) \in Seq(Frame)
        /\ Len(Tail(s)) = Len(s) - 1
        /\ \A k \in 1..Len(s) - 1 : Tail(s)[k] = s[k + 1]
    BY TakeFacts
  <1>2. ASSUME NEW k \in 1..Len(Tail(s))
        PROVE  /\ k \in 1..Len(s) - 1 /\ k + 1 \in 1..Len(s) /\ k + 1 # 1
               /\ Tail(s)[k] = s[k + 1] /\ (k + 1 = Len(s) => k = Len(Tail(s)))
    <2>1. Len(s) \in Nat /\ Len(Tail(s)) = Len(s) - 1
      BY <1>1
    <2>2. /\ k \in 1..Len(s) - 1 /\ k + 1 \in 1..Len(s) /\ k + 1 # 1
          /\ (k + 1 = Len(s) => k = Len(Tail(s)))
      BY <2>1, PlaceBelow
    <2> QED
      BY <1>1, <2>2
  <1>3. Framed(Tail(s), n) /\ \A k \in 1..Len(Tail(s)) : Tail(s)[k].op # "enqueue"
    BY <1>2 DEF Framed
  <1>4. 1 \in 1..Len(s)
    <2>1. Len(s) \in Nat /\ Len(s) # 0
      BY <1>1
    <2> QED
      BY <2>1
  <1>5. s[1].op \in Caller => s[1].req \in Request
    BY <1>4 DEF Framed
  <1>6. ASSUME s[1].op \notin Caller
        PROVE  Tail(s) = <<>> /\ s[1].at \in 1..n /\ Len(s) = 1
    <2>1. 1 = Len(s) /\ s[1].at \in 1..n
      BY <1>4, <1>6 DEF Framed
    <2> QED
      BY <2>1, <1>1
  <1>7. ASSUME s[1].op \in Caller
        PROVE  Erases(Tail(s)) = Erases(s)
    <2>1. ASSUME NEW p \in Erases(s)
          PROVE  p \in Erases(Tail(s))
      <3>1. PICK k \in 1..Len(s) : s[k].op = "erase" /\ s[k].at = p
        BY <2>1 DEF Erases
      <3>2. k # 1
        BY <3>1, <1>7 DEF Caller
      <3>3. k - 1 \in 1..Len(Tail(s)) /\ (k - 1) + 1 = k /\ k - 1 \in 1..Len(s) - 1
        BY <3>2, <1>1
      <3>4. Tail(s)[k - 1] = s[k]
        BY <3>3, <1>1
      <3> QED
        BY <3>1, <3>3, <3>4 DEF Erases
    <2>2. ASSUME NEW p \in Erases(Tail(s))
          PROVE  p \in Erases(s)
      <3>1. PICK k \in 1..Len(Tail(s)) : Tail(s)[k].op = "erase" /\ Tail(s)[k].at = p
        BY <2>2 DEF Erases
      <3> QED
        BY <3>1, <1>2 DEF Erases
    <2> QED
      BY <2>1, <2>2
  <1>8. ASSUME Len(s) = 1
        PROVE  Erases(s) = IF s[1].op = "erase" THEN {s[1].at} ELSE {}
    <2>1. \A k \in 1..Len(s) : k = 1
      BY <1>8
    <2>2. 1 \in 1..Len(s)
      BY <1>8
    <2> QED
      BY <2>1, <2>2 DEF Erases
  <1>9. s[1].op = "data" => s[1].op \notin Caller /\ s[1].op # "erase"
    BY DEF Caller
  <1>10. s[1].op = "erase" => s[1].op \notin Caller
    BY DEF Caller
  <1> QED
    BY <1>1, <1>3, <1>5, <1>6, <1>7, <1>8, <1>9, <1>10

\* A call made from where no enqueue() is in progress.
LEMMA CallFacts ==
    ASSUME NEW t \in Seq(Frame), NEW n, Framed(t, n),
           \A k \in 1..Len(t) : t[k].op # "enqueue",
           NEW f \in Frame, f.op \in Caller, f.req \in Request,
           NEW s, s = <<f>> \o t
    PROVE  /\ s \in Seq(Frame) /\ Framed(s, n) /\ s # <<>> /\ s[1] = f
           /\ Erases(s) = Erases(t)
  <1>1. /\ s \in Seq(Frame) /\ s # <<>> /\ s[1] = f
        /\ Len(t) \in Nat /\ Len(s) = Len(t) + 1
        /\ \A k \in 1..Len(t) : s[k + 1] = t[k]
    BY PushFacts
  <1>2. ASSUME NEW k \in 1..Len(s), k # 1
        PROVE  /\ k - 1 \in 1..Len(t) /\ s[k] = t[k - 1]
               /\ (k - 1 = Len(t) => k = Len(s))
    <2>1. k - 1 \in 1..Len(t) /\ (k - 1) + 1 = k /\ (k - 1 = Len(t) => k = Len(s))
      BY <1>1, <1>2
    <2> QED
      BY <2>1, <1>1
  <1>3. Framed(s, n)
    <2> SUFFICES ASSUME NEW k \in 1..Len(s)
                 PROVE  /\ s[k].op \in Caller => s[k].req \in Request
                        /\ s[k].op = "enqueue" => k = 1
                        /\ s[k].op \notin Caller => k = Len(s) /\ s[k].at \in 1..n
      BY DEF Framed
    <2>1. CASE k = 1
      BY <2>1, <1>1
    <2>2. CASE k # 1
      BY <2>2, <1>2 DEF Framed
    <2> QED
      BY <2>1, <2>2
  <1>4. ASSUME NEW p \in Erases(s)
        PROVE  p \in Erases(t)
    <2>1. PICK k \in 1..Len(s) : s[k].op = "erase" /\ s[k].at = p
      BY <1>4 DEF Erases
    <2>2. k # 1
      BY <2>1, <1>1 DEF Caller
    <2> QED
      BY <2>1, <2>2, <1>2 DEF Erases
  <1>5. ASSUME NEW p \in Erases(t)
        PROVE  p \in Erases(s)
    <2>1. PICK k \in 1..Len(t) : t[k].op = "erase" /\ t[k].at = p
      BY <1>5 DEF Erases
    <2>2. k + 1 \in 1..Len(s) /\ s[k + 1] = t[k]
      BY <1>1
    <2> QED
      BY <2>1, <2>2 DEF Erases
  <1> QED
    BY <1>1, <1>3, <1>4, <1>5

\* loop() calls a callback, and waits below it.
LEMMA LoopFacts ==
    ASSUME NEW f \in Frame, f.op = "callback", f.req \in Request,
           NEW g \in Frame, g.op \in {"data", "erase"}, NEW n, g.at \in 1..n,
           NEW s, s = <<f, g>>
    PROVE  /\ s \in Seq(Frame) /\ Framed(s, n) /\ s # <<>> /\ s[1] = f
           /\ Erases(s) = IF g.op = "erase" THEN {g.at} ELSE {}
  <1>1. s \in Seq(Frame) /\ Len(s) = 2 /\ s[1] = f /\ s[2] = g /\ s # <<>>
    OBVIOUS
  <1>2. \A k \in 1..Len(s) : k = 1 \/ k = 2
    BY <1>1
  <1>3. Framed(s, n)
    BY <1>1, <1>2 DEF Framed, Caller
  <1>4. 2 \in 1..Len(s)
    BY <1>1
  <1>5. Erases(s) = IF g.op = "erase" THEN {g.at} ELSE {}
    BY <1>1, <1>2, <1>4 DEF Erases
  <1> QED
    BY <1>1, <1>3, <1>5

\* What is below, once the vector has moved.
Moved(s) == [i \in 1 .. Len(s) - 1 |-> [s[i + 1] EXCEPT !.moved = TRUE]]

\* The iterators still count the same elements.
LEMMA MovedFacts ==
    ASSUME NEW s \in Seq(Frame), s # <<>>, NEW n, Framed(s, n), s[1].op \in Caller
    PROVE  /\ Moved(s) \in Seq(Frame) /\ Framed(Moved(s), n)
           /\ \A k \in 1..Len(Moved(s)) : Moved(s)[k].op # "enqueue"
           /\ Erases(Moved(s)) = Erases(s)
  <1> DEFINE t == Tail(s)  m == Moved(s)
  <1>1. /\ t \in Seq(Frame) /\ Framed(t, n)
        /\ \A k \in 1..Len(t) : t[k].op # "enqueue"
        /\ Erases(t) = Erases(s)
    BY PopFacts
  <1>2. /\ Len(s) \in Nat \ {0} /\ Len(t) = Len(s) - 1
        /\ \A k \in 1..Len(s) - 1 : t[k] = s[k + 1]
    BY TakeFacts
  <1>3. \A k \in 1..Len(t) : t[k] \in Frame
    BY <1>1
  <1>4. m = [k \in 1..Len(t) |-> [t[k] EXCEPT !.moved = TRUE]]
    BY <1>2 DEF Moved
  <1> HIDE DEF t, m
  <1>5. ASSUME NEW f \in Frame
        PROVE  /\ [f EXCEPT !.moved = TRUE] \in Frame
               /\ [f EXCEPT !.moved = TRUE].op = f.op
               /\ [f EXCEPT !.moved = TRUE].req = f.req
               /\ [f EXCEPT !.moved = TRUE].at = f.at
    BY DEF Frame
  <1>6. Len(t) \in Nat
    BY <1>1
  <1>7. m \in [1..Len(t) -> Frame]
    BY <1>3, <1>4, <1>5
  <1>8. m \in Seq(Frame) /\ Len(m) = Len(t)
    BY <1>6, <1>7, <1>4
  <1>9. \A k \in 1..Len(t) : m[k].op = t[k].op /\ m[k].req = t[k].req /\ m[k].at = t[k].at
    BY <1>3, <1>4, <1>5
  <1>10. Framed(m, n) /\ \A k \in 1..Len(m) : m[k].op # "enqueue"
    <2>1. \A k \in 1..Len(m) : k \in 1..Len(t)
      BY <1>8
    <2>2. \A k \in 1..Len(m) : m[k].op # "enqueue"
      BY <2>1, <1>1, <1>9
    <2>3. ASSUME NEW k \in 1..Len(m)
          PROVE  /\ m[k].op \in Caller => m[k].req \in Request
                 /\ m[k].op \notin Caller => k = Len(m) /\ m[k].at \in 1..n
      BY <2>1, <1>1, <1>8, <1>9 DEF Framed
    <2> QED
      BY <2>2, <2>3 DEF Framed
  <1>11. Erases(m) = Erases(t)
    BY <1>8, <1>9 DEF Erases
  <1> QED
    BY <1>1, <1>8, <1>10, <1>11 DEF m, t

\* One element more in the vector.
LEMMA FramedMore ==
    ASSUME NEW s, NEW n \in Nat, Framed(s, n)
    PROVE  Framed(s, n + 1)
  <1>1. \A p \in 1..n : p \in 1..n + 1
    OBVIOUS
  <1> QED
    BY <1>1 DEF Framed

\* What points to an element.
LEMMA ErasesFacts ==
    ASSUME NEW s \in Seq(Frame), NEW n, Framed(s, n), NEW p \in Erases(s)
    PROVE  p \in 1..n
  BY DEF Erases, Framed, Caller

-----------------------------------------------------------------------------
(* Types.                                                                  *)

\* The types, by the names of their sets.
LEMMA TypeFacts ==
    TypeOK <=>
        /\ requests \in Seq(Pair) /\ Len(requests) <= RequestDepth
        /\ results \in Seq(Entry) /\ Len(results) <= ResultDepth
        /\ callbacks \in Seq(Pair) /\ Len(callbacks) <= capacity
        /\ capacity \in Nat /\ nextId \in Nat \ {0}
        /\ worker \in Job(nextId) /\ stack \in Seq(Frame)
        /\ url \in [Request -> Kinds \cup {"new"}]
        /\ answers \in [Request -> Nat] /\ wild \in BOOLEAN
        /\ cut \subseteq Request /\ online \in BOOLEAN
        /\ read \in [Request -> 0 .. MaxPieces]
        /\ got \in [Request -> Seq(1 .. MaxPieces)]
  BY DEF TypeOK, Pair, Entry, Job, Frame

\* The same of the next state.
LEMMA TypeFactsNext ==
    TypeOK' <=>
        /\ requests' \in Seq(Pair) /\ Len(requests') <= RequestDepth
        /\ results' \in Seq(Entry) /\ Len(results') <= ResultDepth
        /\ callbacks' \in Seq(Pair) /\ Len(callbacks') <= capacity'
        /\ capacity' \in Nat /\ nextId' \in Nat \ {0}
        /\ worker' \in Job(nextId') /\ stack' \in Seq(Frame)
        /\ url' \in [Request -> Kinds \cup {"new"}]
        /\ answers' \in [Request -> Nat] /\ wild' \in BOOLEAN
        /\ cut' \subseteq Request /\ online' \in BOOLEAN
        /\ read' \in [Request -> 0 .. MaxPieces]
        /\ got' \in [Request -> Seq(1 .. MaxPieces)]
  BY DEF TypeOK, Pair, Entry, Job, Frame

\* A pair of an id and a request.
LEMMA PairFacts ==
    /\ \A i \in Nat, r \in Request :
          /\ [id |-> i, req |-> r] \in Pair
          /\ [id |-> i, req |-> r].id = i /\ [id |-> i, req |-> r].req = r
    /\ \A c \in Pair : c.id \in Nat /\ c.req \in Request
  BY DEF Pair

\* An entry of the results.
LEMMA EntryFacts ==
    ASSUME NEW e \in Entry
    PROVE  e.type \in {"DATA", "DONE"} /\ e.id \in Nat /\ e.piece \in 0 .. MaxPieces
  BY DEF Entry

\* What the worker task is about.
LEMMA JobFacts ==
    ASSUME NEW n, NEW w \in Job(n)
    PROVE  /\ w.at \in {"receive", "headers", "body", "deleted", "done"}
           /\ w.req \in Request \cup {None} /\ w.id \in Nat
           /\ w.later \subseteq 1 .. n
  BY DEF Job

\* It takes a request.
LEMMA JobStarts ==
    ASSUME NEW n \in Nat, NEW c \in Pair
    PROVE  LET w == [Idle EXCEPT !.at = "headers", !.req = c.req, !.id = c.id]
           IN  /\ w \in Job(n) /\ w.at = "headers" /\ w.req = c.req /\ w.id = c.id
  BY DEF Job, Pair, Idle

\* It has none.
LEMMA JobIdle ==
    ASSUME NEW n \in Nat
    PROVE  Idle \in Job(n) /\ Idle.at = "receive" /\ Idle.req = None
  BY DEF Job, Idle

\* A TaskRequest is allocated while it is at it.
LEMMA JobAllocates ==
    ASSUME NEW n \in Nat \ {0}, NEW w \in Job(n)
    PROVE  /\ w \in Job(n + 1)
           /\ [w EXCEPT !.later = @ \cup {n}] \in Job(n + 1)
           /\ [w EXCEPT !.later = @ \cup {n}].at = w.at
           /\ [w EXCEPT !.later = @ \cup {n}].req = w.req
           /\ [w EXCEPT !.later = @ \cup {n}].id = w.id
  <1>1. \A i \in 1..n : i \in 1..n + 1
    OBVIOUS
  <1>2. n \in 1..n + 1
    OBVIOUS
  <1>3. w.later \subseteq 1..n + 1
    BY <1>1, JobFacts
  <1>4. w.later \cup {n} \in SUBSET (1..n + 1)
    BY <1>2, <1>3
  <1> QED
    BY <1>3, <1>4 DEF Job

\* Allocates leaves the worker where it is.
LEMMA AllocatesFacts ==
    ASSUME TypeOK, Allocates(nextId)
    PROVE  /\ worker' \in Job(nextId + 1)
           /\ worker'.at = worker.at /\ worker'.req = worker.req /\ worker'.id = worker.id
  <1>1. nextId \in Nat \ {0} /\ worker \in Job(nextId)
    BY TypeFacts
  <1>2. CASE worker' = worker
    BY <1>1, <1>2, JobAllocates
  <1>3. CASE worker' = [worker EXCEPT !.later = @ \cup {nextId}]
    BY <1>1, <1>3, JobAllocates
  <1> QED
    BY <1>2, <1>3 DEF Allocates

\* The frames of the calls.
LEMMA FramesMade ==
    ASSUME NEW r \in Request
    PROVE  /\ Enqueue(r) \in Frame /\ Enqueue(r).op = "enqueue" /\ Enqueue(r).req = r
           /\ Callback(r) \in Frame /\ Callback(r).op = "callback" /\ Callback(r).req = r
           /\ \A k \in Nat, op \in {"data", "erase"} :
                 Loop(op, k) \in Frame /\ Loop(op, k).op = op /\ Loop(op, k).at = k
  BY DEF Frame, Enqueue, Callback, Loop

\* There is a least element in every set of natural numbers.
LEMMA SmallestNat ==
    ASSUME NEW S, S \subseteq Nat, S # {}
    PROVE  \E m \in S : \A n \in S : m <= n
  <1>1. PICK m \in S : \A n \in Nat : <<n, m>> \in OpToRel(<, Nat) => n \notin S
    BY NatLessThanWellFounded, WFMin, Zenon
  <1>2. \A n \in S : ~(n < m)
    BY <1>1 DEF OpToRel
  <1> QED
    BY <1>2

\* No enqueue() is in progress.
Quiet(s) == \A k \in 1..Len(s) : s[k].op # "enqueue"

\* The call of a callback, or the return, from enqueue() or a callback.
LEMMA LeaveFacts ==
    ASSUME TInv, stack # <<>>, stack[1].op \in Caller,
           NEW b \in {Tail(stack), Moved(stack)}, NEW r \in Request
    PROVE  /\ b \in Seq(Frame) /\ Framed(b, Len(callbacks)) /\ Quiet(b)
           /\ Erases(b) = Erases(stack)
           /\ LET s == <<Callback(r)>> \o b IN
              /\ s \in Seq(Frame) /\ Framed(s, Len(callbacks)) /\ Quiet(s)
              /\ Erases(s) = Erases(stack)
  <1>1. stack \in Seq(Frame) /\ Framed(stack, Len(callbacks))
    BY TypeFacts DEF TInv
  <1>2. /\ b \in Seq(Frame) /\ Framed(b, Len(callbacks)) /\ Quiet(b)
        /\ Erases(b) = Erases(stack)
    BY <1>1, PopFacts, MovedFacts DEF Quiet
  <1>3. /\ Callback(r) \in Frame /\ Callback(r).op = "callback" /\ Callback(r).req = r
    BY FramesMade
  <1> DEFINE s == <<Callback(r)>> \o b
  <1>4. /\ s \in Seq(Frame) /\ Framed(s, Len(callbacks)) /\ Erases(s) = Erases(b)
    <2>1. Callback(r).op \in Caller /\ Callback(r).req \in Request
      BY <1>3 DEF Caller
    <2>2. \A k \in 1..Len(b) : b[k].op # "enqueue"
      BY <1>2 DEF Quiet
    <2> QED
      BY <1>2, <1>3, <2>1, <2>2, CallFacts
  <1>5. /\ s[1] = Callback(r) /\ Len(s) = Len(b) + 1 /\ Len(b) \in Nat
        /\ \A k \in 1..Len(b) : s[k + 1] = b[k]
    BY <1>2, <1>3, PushFacts
  <1> HIDE DEF s
  <1>6. ASSUME NEW k \in 1..Len(s)
        PROVE  s[k].op # "enqueue"
    <2>1. CASE k = 1
      BY <2>1, <1>3, <1>5
    <2>2. CASE k # 1
      <3>1. k - 1 \in 1..Len(b) /\ (k - 1) + 1 = k
        BY <1>5, <2>2
      <3>2. s[k] = b[k - 1]
        BY <3>1, <1>5
      <3> QED
        BY <3>1, <3>2, <1>2 DEF Quiet
    <2> QED
      BY <2>1, <2>2
  <1>7. Quiet(s)
    BY <1>6 DEF Quiet
  <1> QED
    BY <1>2, <1>4, <1>7 DEF s

\* What push_back() does to the capacity and to the calls in progress.
LEMMA PushBackFacts ==
    ASSUME TInv, Running("enqueue"), PushBack
    PROVE  /\ stack[1].req \in Request
           /\ capacity' \in Nat /\ Len(callbacks) + 1 <= capacity'
           /\ stack' \in Seq(Frame) /\ Framed(stack', Len(callbacks)) /\ Quiet(stack')
           /\ Erases(stack') = Erases(stack)
  <1>1. /\ stack # <<>> /\ stack[1].op \in Caller
        /\ stack \in Seq(Frame) /\ Framed(stack, Len(callbacks))
    BY TypeFacts DEF TInv, Running, Caller
  <1>2. stack[1].req \in Request
    BY <1>1, PopFacts
  <1>3. capacity \in Nat /\ Len(callbacks) <= capacity /\ Len(callbacks) \in Nat
    BY TypeFacts DEF TInv
  <1>4. capacity' = IF HasRoom THEN capacity ELSE IF capacity = 0 THEN 1 ELSE 2 * capacity
    BY DEF PushBack
  <1>5. capacity' \in Nat /\ Len(callbacks) + 1 <= capacity'
    BY <1>3, <1>4 DEF HasRoom
  <1>6. \E b \in {Tail(stack), Moved(stack)} :
            stack' = (IF Len(requests) < RequestDepth THEN <<>>
                      ELSE <<Callback(stack[1].req)>>) \o b
    BY Zenon DEF PushBack, Moved
  <1>7. PICK b \in {Tail(stack), Moved(stack)} :
            stack' = (IF Len(requests) < RequestDepth THEN <<>>
                      ELSE <<Callback(stack[1].req)>>) \o b
    BY <1>6
  <1> DEFINE s == <<Callback(stack[1].req)>> \o b
  <1>8. /\ b \in Seq(Frame) /\ Framed(b, Len(callbacks)) /\ Quiet(b)
        /\ Erases(b) = Erases(stack)
        /\ s \in Seq(Frame) /\ Framed(s, Len(callbacks)) /\ Quiet(s)
        /\ Erases(s) = Erases(stack)
    BY <1>1, <1>2, LeaveFacts
  <1>9. <<>> \o b = b
    BY <1>8, ConcatEmptySeq
  <1>10. stack' = b \/ stack' = s
    BY <1>7, <1>9, Zenon
  <1> HIDE DEF s
  <1> QED
    BY <1>2, <1>5, <1>8, <1>10

\* The first callback of an id that has one.
LEMMA IndexFacts ==
    ASSUME NEW id, PositionsOf(id) # {}
    PROVE  IndexOf(id) \in 1..Len(callbacks) /\ callbacks[IndexOf(id)].id = id
  <1>1. PositionsOf(id) \subseteq Nat
    BY DEF PositionsOf
  <1>2. \E k \in PositionsOf(id) : \A j \in PositionsOf(id) : k <= j
    BY <1>1, SmallestNat
  <1>3. IndexOf(id) \in PositionsOf(id)
    BY <1>2 DEF IndexOf
  <1> QED
    BY <1>3 DEF PositionsOf

-----------------------------------------------------------------------------
(* Every state has its types.                                              *)

LEMMA TInitial == Init => TInv
  <1> SUFFICES ASSUME Init PROVE TInv
    OBVIOUS
  <1>1. /\ <<>> \in Seq(Pair) /\ <<>> \in Seq(Entry) /\ <<>> \in Seq(Frame)
        /\ <<>> \in Seq(1..MaxPieces) /\ Len(<<>>) = 0
    OBVIOUS
  <1>2. /\ RequestDepth \in Nat /\ ResultDepth \in Nat /\ 0 \in 0..MaxPieces
        /\ 0 <= RequestDepth /\ 0 <= ResultDepth
    BY WebclientTaskAssumption
  <1>3. worker \in Job(nextId)
    BY JobIdle DEF Init
  <1>4. /\ url \in [Request -> Kinds \cup {"new"}] /\ answers \in [Request -> Nat]
        /\ cut \subseteq Request /\ online \in BOOLEAN
        /\ read \in [Request -> 0 .. MaxPieces]
        /\ got \in [Request -> Seq(1 .. MaxPieces)]
    BY <1>1, <1>2 DEF Init
  <1>5. /\ requests = <<>> /\ results = <<>> /\ callbacks = <<>> /\ stack = <<>>
        /\ capacity \in Nat /\ capacity = 0 /\ nextId \in Nat \ {0}
    BY DEF Init
  <1>6. wild \in BOOLEAN /\ online \in BOOLEAN /\ cut = {}
    BY DEF Init
  <1>7. TypeOK
    <2>1. /\ requests \in Seq(Pair) /\ Len(requests) <= RequestDepth
          /\ results \in Seq(Entry) /\ Len(results) <= ResultDepth
          /\ callbacks \in Seq(Pair) /\ Len(callbacks) <= capacity
          /\ stack \in Seq(Frame)
      BY <1>1, <1>2, <1>5
    <2> QED
      BY <2>1, <1>3, <1>4, <1>5, <1>6, TypeFacts
  <1>8. WorkInv
    BY JobIdle, <1>6 DEF Init, WorkInv
  <1> QED
    BY <1>5, <1>7, <1>8, EmptyFacts DEF TInv

\* Request::send(), at the top or in a callback.
Starts(r, kind) ==
    /\ MaySend(r)
    /\ stack # <<>> => stack[1].op = "callback"
    /\ url' = [url EXCEPT ![r] = kind]
    /\ stack' = <<Enqueue(r)>> \o stack
    /\ UNCHANGED <<requests, results, callbacks, capacity, nextId, worker,
                   answers, read, got, cut, online, wild>>

LEMMA StartsFacts ==
    ASSUME TypeOK,
           (\E r \in Request, kind \in Kinds : Send(r, kind)) \/ CallbackSends
    PROVE  \E r \in Request, kind \in Kinds : Starts(r, kind)
  <1>1. ASSUME NEW r \in Request, NEW kind \in Kinds, Send(r, kind)
        PROVE  Starts(r, kind)
    <2>1. Enqueue(r) \in Frame
      BY FramesMade
    <2>2. <<Enqueue(r)>> \in Seq(Frame)
      BY <2>1
    <2>3. <<Enqueue(r)>> \o <<>> = <<Enqueue(r)>>
      BY <2>2, ConcatEmptySeq
    <2> QED
      BY <1>1, <2>3, Zenon DEF Send, Starts, AtTop
  <1>2. CallbackSends => \E r \in Request, kind \in Kinds : Starts(r, kind)
    BY DEF CallbackSends, Running, Starts
  <1> QED
    BY <1>1, <1>2

\* The stack of a request that is sent.
LEMMA StartsStack ==
    ASSUME TInv, NEW r \in Request, NEW kind \in Kinds, Starts(r, kind)
    PROVE  /\ stack' \in Seq(Frame) /\ Framed(stack', Len(callbacks))
           /\ Erases(stack') = Erases(stack) /\ Quiet(stack)
           /\ stack' # <<>> /\ stack'[1].op = "enqueue" /\ stack'[1].req = r
  <1>1. stack \in Seq(Frame) /\ Framed(stack, Len(callbacks))
    BY TypeFacts DEF TInv
  <1>2. Quiet(stack)
    BY <1>1 DEF Quiet, Framed, Starts
  <1>3. Enqueue(r) \in Frame /\ Enqueue(r).op = "enqueue" /\ Enqueue(r).req = r
    BY FramesMade
  <1>4. stack' = <<Enqueue(r)>> \o stack
    BY DEF Starts
  <1>5. /\ stack' \in Seq(Frame) /\ Framed(stack', Len(callbacks)) /\ stack' # <<>>
        /\ stack'[1] = Enqueue(r) /\ Erases(stack') = Erases(stack)
    BY <1>1, <1>2, <1>3, <1>4, CallFacts DEF Quiet, Caller
  <1> QED
    BY <1>2, <1>3, <1>5

\* The types, as they are used.
LEMMA TFacts ==
    ASSUME TInv
    PROVE  /\ requests \in Seq(Pair) /\ Len(requests) <= RequestDepth
           /\ results \in Seq(Entry) /\ Len(results) <= ResultDepth
           /\ callbacks \in Seq(Pair) /\ Len(callbacks) <= capacity
           /\ capacity \in Nat /\ nextId \in Nat \ {0}
           /\ worker \in Job(nextId) /\ stack \in Seq(Frame)
           /\ url \in [Request -> Kinds \cup {"new"}]
           /\ answers \in [Request -> Nat] /\ wild \in BOOLEAN
           /\ cut \subseteq Request /\ online \in BOOLEAN
           /\ read \in [Request -> 0 .. MaxPieces]
           /\ handed \in [Request -> 0 .. MaxPieces]
           /\ got \in [Request -> Seq(1 .. MaxPieces)]
           /\ Framed(stack, Len(callbacks)) /\ WorkInv
  <1>1. /\ read \in [Request -> 0 .. MaxPieces] /\ MaxPieces \in Nat
        /\ \A r \in cut : read[r] > 0
    BY TypeFacts, WebclientTaskAssumption DEF TInv, WorkInv
  <1>2. ASSUME NEW r \in Request
        PROVE  (IF r \in cut THEN read[r] - 1 ELSE read[r]) \in 0 .. MaxPieces
    <2>1. read[r] \in 0 .. MaxPieces /\ (r \in cut => read[r] > 0)
      BY <1>1
    <2> QED
      BY <2>1, <1>1
  <1>3. handed \in [Request -> 0 .. MaxPieces]
    BY <1>2 DEF handed
  <1> QED
    BY <1>3, TypeFacts DEF TInv

\* A step that reads nothing hands nothing to the queue.
LEMMA HandsSame == UNCHANGED <<read, cut>> => UNCHANGED handed
  BY DEF handed

LEMMA TStarts ==
    ASSUME TInv, NEW r \in Request, NEW kind \in Kinds, Starts(r, kind)
    PROVE  TInv'
  <1>1. stack' \in Seq(Frame) /\ Framed(stack', Len(callbacks))
    BY StartsStack
  <1>2. /\ url' = [url EXCEPT ![r] = kind]
        /\ UNCHANGED <<requests, results, callbacks, capacity, nextId, worker,
                       answers, read, got, cut, online, wild>>
    BY DEF Starts
  <1>3. url' \in [Request -> Kinds \cup {"new"}]
    BY <1>2, TFacts
  <1>4. TypeOK'
    BY <1>1, <1>2, <1>3, TFacts, TypeFactsNext
  <1>5. WorkInv'
    BY <1>2, TFacts DEF WorkInv
  <1> QED
    BY <1>1, <1>2, <1>4, <1>5 DEF TInv

\* enqueue() refuses a request, because of its URL or for want of room.
Rejects(r) ==
    /\ answers' = [answers EXCEPT ![r] = @ + 1]
    /\ nextId' = nextId + 1
    /\ worker' \in Job(nextId + 1)
    /\ worker'.at = worker.at /\ worker'.req = worker.req /\ worker'.id = worker.id
    /\ stack' \in Seq(Frame) /\ Framed(stack', Len(callbacks)) /\ Quiet(stack')
    /\ Erases(stack') = Erases(stack)
    /\ capacity' \in Nat /\ Len(callbacks) <= capacity'
    /\ UNCHANGED <<requests, results, callbacks, url, read, got, cut, online, wild>>

LEMMA RejectsFacts ==
    ASSUME TInv, EnqueueBadUrl \/ EnqueueFull
    PROVE  /\ stack # <<>> /\ stack[1].op = "enqueue"
           /\ stack[1].req \in Request /\ Rejects(stack[1].req)
  <1>1. Running("enqueue") /\ Allocates(nextId)
    BY DEF EnqueueBadUrl, EnqueueFull
  <1>2. stack # <<>> /\ stack[1].op = "enqueue" /\ stack[1].op \in Caller
    BY <1>1 DEF Running, Caller
  <1>3. stack[1].req \in Request
    BY <1>2, TFacts, PopFacts
  <1>4. /\ worker' \in Job(nextId + 1)
        /\ worker'.at = worker.at /\ worker'.req = worker.req /\ worker'.id = worker.id
    BY <1>1, AllocatesFacts DEF TInv
  <1>5. /\ answers' = [answers EXCEPT ![stack[1].req] = @ + 1]
        /\ nextId' = nextId + 1
        /\ UNCHANGED <<requests, results, callbacks, url, read, got, cut, online, wild>>
    BY DEF EnqueueBadUrl, EnqueueFull, Refuses
  <1>6. /\ stack' \in Seq(Frame) /\ Framed(stack', Len(callbacks)) /\ Quiet(stack')
        /\ Erases(stack') = Erases(stack)
        /\ capacity' \in Nat /\ Len(callbacks) <= capacity'
    <2>1. CASE EnqueueBadUrl
      <3>1. stack' = <<Callback(stack[1].req)>> \o Tail(stack) /\ capacity' = capacity
        BY <2>1 DEF EnqueueBadUrl, Refuses, Calls
      <3> QED
        BY <3>1, <1>2, <1>3, LeaveFacts, TFacts
    <2>2. CASE EnqueueFull
      <3>1. PushBack
        BY <2>2 DEF EnqueueFull
      <3>2. /\ stack' \in Seq(Frame) /\ Framed(stack', Len(callbacks)) /\ Quiet(stack')
            /\ Erases(stack') = Erases(stack)
            /\ capacity' \in Nat /\ Len(callbacks) + 1 <= capacity'
        BY <3>1, <1>1, PushBackFacts
      <3>3. Len(callbacks) \in Nat
        BY TFacts
      <3> QED
        BY <3>2, <3>3
    <2> QED
      BY <2>1, <2>2
  <1> QED
    BY <1>2, <1>3, <1>4, <1>5, <1>6 DEF Rejects

LEMMA TRejects ==
    ASSUME TInv, NEW r \in Request, Rejects(r)
    PROVE  TInv'
  <1>1. answers' \in [Request -> Nat] /\ nextId' \in Nat \ {0} /\ worker' \in Job(nextId')
    <2>1. answers \in [Request -> Nat] /\ nextId \in Nat
      BY TFacts
    <2>2. /\ answers' = [answers EXCEPT ![r] = @ + 1] /\ nextId' = nextId + 1
          /\ worker' \in Job(nextId + 1)
      BY DEF Rejects
    <2>3. answers' \in [Request -> Nat]
      BY <2>1, <2>2
    <2> QED
      BY <2>1, <2>2, <2>3
  <1>2. TypeOK'
    BY <1>1, TFacts, TypeFactsNext DEF Rejects
  <1>3. WorkInv'
    BY TFacts DEF WorkInv, Rejects
  <1> QED
    BY <1>2, <1>3 DEF TInv, Rejects

\* enqueue() keeps the callbacks of a request, and queues it.
Keeps(r) ==
    /\ callbacks' = Append(callbacks, [id |-> nextId, req |-> r])
    /\ requests' = Append(requests, [id |-> nextId, req |-> r])
    /\ Len(requests) < RequestDepth
    /\ nextId' = nextId + 1
    /\ worker' \in Job(nextId + 1)
    /\ worker'.at = worker.at /\ worker'.req = worker.req /\ worker'.id = worker.id
    /\ stack' \in Seq(Frame) /\ Framed(stack', Len(callbacks)) /\ Quiet(stack')
    /\ Erases(stack') = Erases(stack)
    /\ capacity' \in Nat /\ Len(callbacks) + 1 <= capacity'
    /\ UNCHANGED <<results, url, answers, read, got, cut, online, wild>>

LEMMA KeepsFacts ==
    ASSUME TInv, Enqueues
    PROVE  /\ stack # <<>> /\ stack[1].op = "enqueue"
           /\ stack[1].req \in Request /\ Keeps(stack[1].req)
  <1>1. Running("enqueue") /\ Allocates(nextId) /\ PushBack
    BY DEF Enqueues
  <1>2. /\ worker' \in Job(nextId + 1)
        /\ worker'.at = worker.at /\ worker'.req = worker.req /\ worker'.id = worker.id
    BY <1>1, AllocatesFacts DEF TInv
  <1>3. /\ stack[1].req \in Request
        /\ stack' \in Seq(Frame) /\ Framed(stack', Len(callbacks)) /\ Quiet(stack')
        /\ Erases(stack') = Erases(stack)
        /\ capacity' \in Nat /\ Len(callbacks) + 1 <= capacity'
    BY <1>1, PushBackFacts
  <1> QED
    BY <1>1, <1>2, <1>3 DEF Enqueues, Keeps, Running

LEMMA TKeeps ==
    ASSUME TInv, NEW r \in Request, Keeps(r)
    PROVE  TInv'
  <1>1. [id |-> nextId, req |-> r] \in Pair
    BY TFacts, PairFacts
  <1>2. /\ callbacks' \in Seq(Pair) /\ Len(callbacks') = Len(callbacks) + 1
        /\ Len(callbacks) \in Nat
    BY <1>1, TFacts, AppendFacts DEF Keeps
  <1>3. requests' \in Seq(Pair) /\ Len(requests') <= RequestDepth
    <2>1. /\ requests' \in Seq(Pair) /\ Len(requests') = Len(requests) + 1
          /\ Len(requests) \in Nat
      BY <1>1, TFacts, AppendFacts DEF Keeps
    <2>2. Len(requests) < RequestDepth /\ RequestDepth \in Nat
      BY WebclientTaskAssumption DEF Keeps
    <2> QED
      BY <2>1, <2>2
  <1>4. nextId' \in Nat \ {0} /\ worker' \in Job(nextId')
    <2>1. nextId \in Nat \ {0}
      BY TFacts
    <2>2. nextId' = nextId + 1 /\ worker' \in Job(nextId + 1)
      BY DEF Keeps
    <2> QED
      BY <2>1, <2>2
  <1>5. TypeOK'
    BY <1>2, <1>3, <1>4, TFacts, TypeFactsNext DEF Keeps
  <1>6. WorkInv'
    BY TFacts DEF WorkInv, Keeps
  <1>7. Framed(stack', Len(callbacks'))
    BY <1>2, FramedMore DEF Keeps
  <1> QED
    BY <1>5, <1>6, <1>7 DEF TInv

\* loop() finds no callback for an entry.
Drops ==
    /\ results # <<>> /\ PositionsOf(results[1].id) = {}
    /\ results' = Tail(results)
    /\ UNCHANGED <<requests, callbacks, capacity, nextId, worker, stack, url,
                   answers, read, got, cut, online, wild>>

\* loop() calls the callback at k, for a piece of the body or as the last.
Gives(k) ==
    /\ stack = <<>> /\ results # <<>> /\ k \in 1..Len(callbacks)
    /\ callbacks[k].id = results[1].id
    /\ results' = Tail(results)
    /\ stack' \in Seq(Frame) /\ Framed(stack', Len(callbacks)) /\ Quiet(stack')
    /\ UNCHANGED <<requests, callbacks, capacity, nextId, worker, url, read, cut, online, wild>>

GivesPiece(k) ==
    /\ Gives(k) /\ results[1].type = "DATA" /\ Erases(stack') = {}
    /\ got' = [got EXCEPT ![callbacks[k].req] = Append(@, results[1].piece)]
    /\ answers' = answers

GivesDone(k) ==
    /\ Gives(k) /\ results[1].type = "DONE" /\ Erases(stack') = {k}
    /\ answers' = [answers EXCEPT ![callbacks[k].req] = @ + 1]
    /\ got' = got

LEMMA ReceiveFacts ==
    ASSUME TInv, Receive
    PROVE  Drops \/ \E k \in 1..Len(callbacks) : GivesPiece(k) \/ GivesDone(k)
  <1>1. /\ stack = <<>> /\ results # <<>>
        /\ results \in Seq(Entry) /\ callbacks \in Seq(Pair)
    BY TFacts DEF Receive, AtTop
  <1>2. Head(results) = results[1] /\ results[1] \in Entry
    BY <1>1, TakeFacts
  <1>3. CASE PositionsOf(results[1].id) = {}
    BY <1>1, <1>2, <1>3 DEF Receive, Drops
  <1>4. CASE PositionsOf(results[1].id) # {}
    <2> DEFINE k == IndexOf(results[1].id)
    <2>1. k \in 1..Len(callbacks) /\ callbacks[k].id = results[1].id
      BY <1>4, IndexFacts
    <2>2. Len(callbacks) \in Nat /\ callbacks[k] \in Pair
      BY <1>1, <2>1, AmongFacts
    <2>3. callbacks[k].req \in Request /\ k \in Nat
      BY <2>1, <2>2, PairFacts
    <2>4. /\ results' = Tail(results)
          /\ UNCHANGED <<requests, callbacks, capacity, nextId, worker, url, read, cut, online, wild>>
          /\ IF results[1].type = "DATA"
             THEN /\ got' = [got EXCEPT ![callbacks[k].req] = Append(@, results[1].piece)]
                  /\ stack' = <<Callback(callbacks[k].req), Loop("data", k)>>
                  /\ answers' = answers
             ELSE /\ answers' = [answers EXCEPT ![callbacks[k].req] = @ + 1]
                  /\ stack' = <<Callback(callbacks[k].req), Loop("erase", k)>>
                  /\ got' = got
      BY <1>2, <1>4 DEF Receive
    <2> HIDE DEF k
    <2>5. ASSUME NEW op \in {"data", "erase"},
                 stack' = <<Callback(callbacks[k].req), Loop(op, k)>>
          PROVE  /\ stack' \in Seq(Frame) /\ Framed(stack', Len(callbacks)) /\ Quiet(stack')
                 /\ Erases(stack') = IF op = "erase" THEN {k} ELSE {}
      <3> DEFINE f == Callback(callbacks[k].req)  g == Loop(op, k)
      <3>1. /\ f \in Frame /\ f.op = "callback" /\ f.req \in Request
            /\ g \in Frame /\ g.op = op /\ g.at = k
        BY <2>3, FramesMade
      <3>2. stack' = <<f, g>>
        BY <2>5
      <3> HIDE DEF f, g
      <3>3. /\ stack' \in Seq(Frame) /\ Framed(stack', Len(callbacks))
            /\ Erases(stack') = IF g.op = "erase" THEN {g.at} ELSE {}
        <4>1. g.op \in {"data", "erase"} /\ g.at \in 1..Len(callbacks)
          BY <3>1, <2>1
        <4> QED
          BY <3>1, <3>2, <4>1, LoopFacts
      <3>4. Len(stack') = 2 /\ stack'[1].op # "enqueue" /\ stack'[2].op # "enqueue"
        BY <3>1, <3>2
      <3>5. Quiet(stack')
        BY <3>4 DEF Quiet
      <3> QED
        BY <3>1, <3>3, <3>5
    <2>6. Gives(k)
      BY <1>1, <2>1, <2>4, <2>5 DEF Gives
    <2>7. CASE results[1].type = "DATA"
      BY <2>1, <2>4, <2>5, <2>6, <2>7 DEF GivesPiece
    <2>8. CASE results[1].type # "DATA"
      <3>1. results[1].type = "DONE"
        BY <2>8, <1>2, EntryFacts
      <3> QED
        BY <2>1, <2>4, <2>5, <2>6, <3>1 DEF GivesDone
    <2> QED
      BY <2>7, <2>8
  <1> QED
    BY <1>3, <1>4

\* The results without the first.
LEMMA ResultsTaken ==
    ASSUME TInv, results # <<>>, results' = Tail(results)
    PROVE  /\ results' \in Seq(Entry) /\ Len(results') <= ResultDepth
           /\ results[1] \in Entry /\ Len(results) \in Nat
           /\ Len(results') = Len(results) - 1
           /\ \A k \in 1..Len(results') :
                 results'[k] = results[k + 1] /\ k + 1 \in 1..Len(results) /\ k \in Nat
           /\ \A k \in 1..Len(results) :
                 k # 1 => k - 1 \in 1..Len(results') /\ results'[k - 1] = results[k]
           /\ 1 \in 1..Len(results)
  <1>1. results \in Seq(Entry) /\ Len(results) <= ResultDepth
    BY TFacts
  <1>2. /\ Len(results) \in Nat \ {0} /\ results[1] \in Entry /\ results' \in Seq(Entry)
        /\ Len(results') = Len(results) - 1
        /\ \A k \in 1..Len(results) - 1 : results'[k] = results[k + 1]
    BY <1>1, TakeFacts
  <1>3. ResultDepth \in Nat /\ Len(results) \in Nat /\ Len(results) # 0
    BY <1>2, WebclientTaskAssumption
  <1>4. Len(results') <= ResultDepth
    BY <1>1, <1>2, <1>3
  <1>5. ASSUME NEW k \in 1..Len(results')
        PROVE  results'[k] = results[k + 1] /\ k + 1 \in 1..Len(results) /\ k \in Nat
    <2>1. k \in 1..Len(results) - 1 /\ k + 1 \in 1..Len(results)
      BY <1>2, <1>3, PlaceBelow
    <2> QED
      BY <2>1, <1>2
  <1>6. ASSUME NEW k \in 1..Len(results), k # 1
        PROVE  k - 1 \in 1..Len(results') /\ results'[k - 1] = results[k]
    <2>1. k - 1 \in 1..Len(results) - 1 /\ (k - 1) + 1 = k
      BY <1>3, <1>6
    <2>2. results'[k - 1] = results[(k - 1) + 1]
      BY <2>1, <1>2
    <2> QED
      BY <2>1, <2>2, <1>2
  <1>7. 1 \in 1..Len(results)
    BY <1>3
  <1> QED
    BY <1>1, <1>2, <1>3, <1>4, <1>5, <1>6, <1>7

LEMMA ResultsTyped ==
    ASSUME TInv, results # <<>>, results' = Tail(results),
           UNCHANGED <<worker, read, cut>>
    PROVE  WorkInv'
  <1>1. WorkInv
    BY DEF TInv
  <1>2. ASSUME NEW k \in 1..Len(results'), results'[k].type = "DATA"
        PROVE  results'[k].piece > 0
    <2>1. results'[k] = results[k + 1] /\ k + 1 \in 1..Len(results)
      BY ResultsTaken
    <2> QED
      BY <1>1, <1>2, <2>1 DEF WorkInv
  <1> QED
    BY <1>1, <1>2 DEF WorkInv

LEMMA TDrops ==
    ASSUME TInv, Drops
    PROVE  TInv'
  <1>1. results' \in Seq(Entry) /\ Len(results') <= ResultDepth /\ WorkInv'
    BY ResultsTaken, ResultsTyped DEF Drops
  <1>2. TypeOK'
    BY <1>1, TFacts, TypeFactsNext DEF Drops
  <1> QED
    BY <1>1, <1>2, TFacts DEF TInv, Drops

LEMMA TGives ==
    ASSUME TInv, NEW k, GivesPiece(k) \/ GivesDone(k)
    PROVE  TInv'
  <1>1. Gives(k)
    BY DEF GivesPiece, GivesDone
  <1>2. /\ results' \in Seq(Entry) /\ Len(results') <= ResultDepth /\ WorkInv'
        /\ results[1] \in Entry
    BY <1>1, ResultsTaken, ResultsTyped DEF Gives
  <1>3. callbacks[k] \in Pair
    BY <1>1, TFacts, AmongFacts DEF Gives
  <1>4. callbacks[k].req \in Request
    BY <1>3, PairFacts
  <1>5. answers' \in [Request -> Nat]
    <2>1. answers \in [Request -> Nat]
      BY TFacts
    <2>2. CASE answers' = answers
      BY <2>1, <2>2
    <2>3. CASE answers' = [answers EXCEPT ![callbacks[k].req] = @ + 1]
      BY <2>1, <2>3, <1>4
    <2> QED
      BY <2>2, <2>3 DEF GivesPiece, GivesDone
  <1>6. got' \in [Request -> Seq(1 .. MaxPieces)]
    <2>1. CASE GivesPiece(k)
      <3>1. 1 \in 1..Len(results)
        BY <1>1, ResultsTaken DEF Gives
      <3>2. results[1].piece > 0 /\ results[1].piece \in 0..MaxPieces
        BY <2>1, <3>1, <1>2, TFacts, EntryFacts DEF WorkInv, GivesPiece
      <3>3. results[1].piece \in 1..MaxPieces
        BY <3>2, WebclientTaskAssumption
      <3>4. got[callbacks[k].req] \in Seq(1 .. MaxPieces)
        BY <1>4, TFacts
      <3>5. Append(got[callbacks[k].req], results[1].piece) \in Seq(1 .. MaxPieces)
        BY <3>3, <3>4, AppendFacts
      <3> QED
        BY <2>1, <1>4, <3>5, TFacts DEF GivesPiece
    <2>2. CASE GivesDone(k)
      BY <2>2, TFacts DEF GivesDone
    <2> QED
      BY <2>1, <2>2
  <1>7. TypeOK'
    BY <1>1, <1>2, <1>5, <1>6, TFacts, TypeFactsNext DEF Gives
  <1> QED
    BY <1>1, <1>2, <1>7 DEF TInv, Gives

\* A callback returns, or loop() goes on after onData.
Returns ==
    /\ stack # <<>>
    /\ stack' \in Seq(Frame) /\ Framed(stack', Len(callbacks)) /\ Quiet(stack')
    /\ Erases(stack') = Erases(stack)
    /\ wild' \in BOOLEAN
    /\ UNCHANGED <<requests, results, callbacks, capacity, nextId, worker, url,
                   answers, read, got, cut, online>>

LEMMA ReturnsFacts ==
    ASSUME TInv, CallbackReturns \/ DataReturns
    PROVE  Returns /\ stack[1].op \in {"callback", "data"}
  <1>1. /\ stack # <<>> /\ stack \in Seq(Frame) /\ Framed(stack, Len(callbacks))
        /\ stack[1].op \in {"callback", "data"}
    BY TFacts DEF CallbackReturns, DataReturns, Running
  <1>2. Tail(stack) \in Seq(Frame) /\ Framed(Tail(stack), Len(callbacks)) /\ Quiet(Tail(stack))
    BY <1>1, PopFacts DEF Quiet
  <1>3. stack' = Tail(stack)
    <2>1. stack' = <<>> \o Tail(stack)
      BY DEF CallbackReturns, DataReturns, Calls
    <2> QED
      BY <2>1, <1>2, ConcatEmptySeq
  <1>4. Erases(Tail(stack)) = Erases(stack)
    <2>1. CASE stack[1].op = "callback"
      BY <2>1, <1>1, PopFacts DEF Caller
    <2>2. CASE stack[1].op = "data"
      <3>1. Tail(stack) = <<>> /\ Erases(stack) = {}
        BY <2>2, <1>1, PopFacts DEF Caller
      <3> QED
        BY <3>1, EmptyFacts
    <2> QED
      BY <1>1, <2>1, <2>2
  <1>5. wild' \in BOOLEAN
    <2>1. stack[1] \in Frame
      BY <1>1, TakeFacts
    <2>2. stack[1].moved \in BOOLEAN
      BY <2>1, FrameFacts
    <2>3. CASE CallbackReturns
      BY <2>3, TFacts DEF CallbackReturns
    <2>4. CASE DataReturns
      BY <2>4, <2>2, Zenon DEF DataReturns
    <2> QED
      BY <2>3, <2>4
  <1> QED
    BY <1>1, <1>2, <1>3, <1>4, <1>5 DEF Returns, CallbackReturns, DataReturns

LEMMA TReturns ==
    ASSUME TInv, Returns
    PROVE  TInv'
  <1>1. TypeOK'
    BY TFacts, TypeFactsNext DEF Returns
  <1>2. WorkInv'
    BY TFacts DEF WorkInv, Returns
  <1> QED
    BY <1>1, <1>2 DEF TInv, Returns

\* loop() erases the callbacks at p after onDone.
Removes(p) ==
    /\ stack # <<>> /\ stack[1].op = "erase"
    /\ p \in 1..Len(callbacks) /\ Erases(stack) = {p}
    /\ callbacks' = RemoveAt(callbacks, p) /\ stack' = <<>>
    /\ wild' \in BOOLEAN
    /\ UNCHANGED <<requests, results, capacity, nextId, worker, url, answers, read, got, cut, online>>

LEMMA EraseFacts ==
    ASSUME TInv, Erase
    PROVE  \E p \in 1..Len(callbacks) : Removes(p)
  <1>1. /\ stack # <<>> /\ stack \in Seq(Frame) /\ Framed(stack, Len(callbacks))
        /\ stack[1].op = "erase" /\ stack[1].op \notin Caller
    BY TFacts DEF Erase, Running, Caller
  <1>2. /\ Tail(stack) = <<>> /\ stack[1].at \in 1..Len(callbacks)
        /\ Erases(stack) = {stack[1].at}
    BY <1>1, PopFacts
  <1>3. stack' = <<>>
    <2>1. stack' = <<>> \o Tail(stack)
      BY DEF Erase, Calls
    <2> QED
      BY <2>1, <1>2, EmptyFacts, ConcatEmptySeq
  <1>4. wild' \in BOOLEAN
    <2>1. stack[1] \in Frame
      BY <1>1, TakeFacts
    <2>2. stack[1].moved \in BOOLEAN
      BY <2>1, FrameFacts
    <2> QED
      BY <2>2, Zenon DEF Erase
  <1> QED
    BY <1>1, <1>2, <1>3, <1>4 DEF Erase, Removes

LEMMA TRemoves ==
    ASSUME TInv, NEW p, Removes(p)
    PROVE  TInv'
  <1>1. callbacks \in Seq(Pair) /\ p \in 1..Len(callbacks) /\ callbacks' = RemoveAt(callbacks, p)
    BY TFacts DEF Removes
  <1>2. callbacks' \in Seq(Pair) /\ Len(callbacks') = Len(callbacks) - 1 /\ Len(callbacks) \in Nat
    BY <1>1, RemoveFacts
  <1>3. Len(callbacks') <= capacity
    BY <1>2, TFacts
  <1>4. stack' \in Seq(Frame) /\ Framed(stack', Len(callbacks'))
    BY EmptyFacts DEF Removes
  <1>5. TypeOK'
    BY <1>2, <1>3, <1>4, TFacts, TypeFactsNext DEF Removes
  <1>6. WorkInv'
    BY TFacts DEF WorkInv, Removes
  <1> QED
    BY <1>4, <1>5, <1>6 DEF TInv

\* The worker takes the first request.
LEMMA TakesFacts ==
    ASSUME TInv, Takes
    PROVE  /\ requests # <<>> /\ requests[1] \in Pair
           /\ worker.at = "receive"
           /\ worker' \in Job(nextId) /\ worker'.at = "headers"
           /\ worker'.req = requests[1].req /\ worker'.id = requests[1].id
           /\ worker'.req \in Request
  <1>1. requests # <<>> /\ requests \in Seq(Pair) /\ nextId \in Nat
    BY TFacts DEF Takes
  <1>2. Head(requests) = requests[1] /\ requests[1] \in Pair
    BY <1>1, TakeFacts
  <1>3. worker' = [Idle EXCEPT !.at = "headers", !.req = requests[1].req,
                               !.id = requests[1].id]
    BY <1>2 DEF Takes
  <1>4. /\ worker' \in Job(nextId) /\ worker'.at = "headers"
        /\ worker'.req = requests[1].req /\ worker'.id = requests[1].id
    BY <1>1, <1>2, <1>3, JobStarts
  <1> QED
    BY <1>1, <1>2, <1>4, PairFacts DEF Takes, At

LEMMA TTakes ==
    ASSUME TInv, Takes
    PROVE  TInv'
  <1>1. /\ requests' = Tail(requests)
        /\ UNCHANGED <<results, callbacks, capacity, nextId, stack, url, answers,
                       read, got, cut, online, wild>>
    BY DEF Takes
  <1>2. requests' \in Seq(Pair) /\ Len(requests') <= RequestDepth
    <2>1. /\ requests' \in Seq(Pair) /\ Len(requests') = Len(requests) - 1
          /\ Len(requests) \in Nat
      BY <1>1, TFacts, TakesFacts, TakeFacts
    <2> QED
      BY <2>1, TFacts, WebclientTaskAssumption
  <1>3. TypeOK'
    BY <1>1, <1>2, TFacts, TakesFacts, TypeFactsNext
  <1>4. WorkInv'
    BY <1>1, TFacts, TakesFacts DEF WorkInv
  <1> QED
    BY <1>1, <1>3, <1>4, TFacts DEF TInv

\* The worker goes on, with the id it finds.
Moves ==
    /\ worker.at # "receive"
    /\ worker' \in Job(nextId) /\ worker'.at \in {"body", "deleted", "done"}
    /\ worker'.at = "body" => worker.at = "headers"
    /\ worker'.req = worker.req /\ worker'.id \in {worker.id} \cup IdFound
    /\ \/ UNCHANGED <<read, cut>>
       \/ /\ worker.at = "body" /\ worker'.at = "deleted"
          /\ read[worker.req] < MaxPieces
          /\ read' = [read EXCEPT ![worker.req] = @ + 1]
          /\ cut' = cut \cup {worker.req}
    /\ UNCHANGED <<main, results, got>>

LEMMA MovesFacts ==
    ASSUME TInv, HeadersFail \/ HeadersEnd \/ PieceTooLarge \/ BodyEnds \/ MakesDone
    PROVE  Moves
  <1>1. worker \in Job(nextId) /\ worker.id \in Nat /\ worker.later \subseteq Nat
    BY TFacts, JobFacts
  <1>2. ASSUME NEW p \in {"body", "deleted", "done"}, worker.at # "receive",
               Goes([worker EXCEPT !.at = p]), UNCHANGED <<results, got>>,
               p = "body" => worker.at = "headers",
               \/ UNCHANGED <<read, cut>>
               \/ /\ worker.at = "body" /\ p = "deleted"
                  /\ read[worker.req] < MaxPieces
                  /\ read' = [read EXCEPT ![worker.req] = @ + 1]
                  /\ cut' = cut \cup {worker.req}
        PROVE  Moves
    <2>1. /\ worker' \in Job(nextId) /\ worker'.at = p
          /\ worker'.req = worker.req /\ worker'.id = worker.id
      <3>1. worker' = [worker EXCEPT !.at = p] /\ worker \in Job(nextId)
        BY <1>1, <1>2 DEF Goes
      <3> QED
        BY <3>1 DEF Job
    <2> QED
      BY <1>2, <2>1 DEF Goes, Moves
  <1>3. CASE HeadersFail \/ HeadersEnd \/ BodyEnds
    <2>1. /\ worker.at # "receive" /\ UNCHANGED <<results, read, got, cut>>
          /\ \/ Goes([worker EXCEPT !.at = "deleted"])
             \/ worker.at = "headers" /\ Goes([worker EXCEPT !.at = "body"])
      BY <1>3 DEF HeadersFail, HeadersEnd, BodyEnds, Deletes, At
    <2> QED
      BY <2>1, <1>2
  <1>4. CASE PieceTooLarge
    BY <1>2, <1>4 DEF PieceTooLarge, ReadsPiece, Deletes, At
  <1>5. CASE MakesDone
    <2>1. PICK i \in IdFound : Goes([worker EXCEPT !.at = "done", !.id = i])
      BY <1>5 DEF MakesDone
    <2>2. i \in Nat
      BY <1>1 DEF IdFound
    <2>3. /\ worker' \in Job(nextId) /\ worker'.at = "done"
          /\ worker'.req = worker.req /\ worker'.id = i
      <3>1. worker' = [worker EXCEPT !.at = "done", !.id = i] /\ worker \in Job(nextId)
        BY <1>1, <2>1 DEF Goes
      <3> QED
        BY <2>2, <3>1 DEF Job
    <2> QED
      BY <1>5, <2>1, <2>3 DEF MakesDone, Goes, Moves, At
  <1> QED
    BY <1>3, <1>4, <1>5

\* What the worker has read, when it goes on.
LEMMA MovesRead ==
    ASSUME TInv, Moves
    PROVE  /\ cut' \subseteq Request /\ read' \in [Request -> 0 .. MaxPieces]
           /\ \A r \in cut' : read'[r] > 0
  <1>1. /\ cut \subseteq Request /\ read \in [Request -> 0 .. MaxPieces] /\ MaxPieces \in Nat
        /\ worker.req \in Request /\ \A r \in cut : read[r] > 0
    BY TFacts, WebclientTaskAssumption DEF Moves, WorkInv
  <1>2. CASE UNCHANGED <<read, cut>>
    BY <1>1, <1>2
  <1>3. CASE /\ read[worker.req] < MaxPieces
             /\ read' = [read EXCEPT ![worker.req] = @ + 1]
             /\ cut' = cut \cup {worker.req}
    <2>1. read[worker.req] \in 0 .. MaxPieces
      BY <1>1
    <2>2. read[worker.req] + 1 \in 0 .. MaxPieces /\ read[worker.req] + 1 > 0
      BY <1>1, <1>3, <2>1
    <2> QED
      BY <1>1, <1>3, <2>2
  <1> QED
    BY <1>2, <1>3 DEF Moves

LEMMA TMoves ==
    ASSUME TInv, Moves
    PROVE  TInv'
  <1>1. TypeOK'
    BY MovesRead, TFacts, TypeFactsNext DEF Moves, main
  <1>2. WorkInv'
    BY MovesRead, TFacts DEF WorkInv, Moves
  <1> QED
    BY <1>1, <1>2, TFacts DEF TInv, Moves, main

\* The worker reads a piece, for a request that wants it.
LEMMA PieceFacts ==
    ASSUME TInv, Piece
    PROVE  /\ worker.at = "body" /\ worker.req \in Request
           /\ read' = [read EXCEPT ![worker.req] = @ + 1]
           /\ read[worker.req] + 1 \in 1..MaxPieces
           /\ UNCHANGED <<main, worker, got, cut>>
           /\ url[worker.req] # "plain" /\ Len(results) < ResultDepth
           /\ results' = Append(results, PieceRead)
           /\ PieceRead \in Entry /\ PieceRead.type = "DATA"
           /\ PieceRead.id = worker.id /\ PieceRead.piece = read[worker.req] + 1
  <1>1. worker.at = "body" /\ worker.req \in Request /\ worker.id \in Nat
    BY TFacts, JobFacts DEF Piece, ReadsPiece, At, WorkInv
  <1>2. read[worker.req] \in 0..MaxPieces /\ read[worker.req] < MaxPieces
    BY <1>1, TFacts DEF Piece, ReadsPiece
  <1>3. read[worker.req] + 1 \in 1..MaxPieces /\ read[worker.req] + 1 \in 0..MaxPieces
    BY <1>2, WebclientTaskAssumption
  <1>4. /\ PieceRead \in Entry /\ PieceRead.type = "DATA"
        /\ PieceRead.id = worker.id /\ PieceRead.piece = read[worker.req] + 1
    BY <1>1, <1>3 DEF PieceRead, Entry
  <1> QED
    BY <1>1, <1>3, <1>4 DEF Piece, ReadsPiece, Goes

LEMMA TPiece ==
    ASSUME TInv, Piece
    PROVE  TInv'
  <1>1. /\ worker.req \in Request /\ read[worker.req] + 1 \in 0..MaxPieces
        /\ read' = [read EXCEPT ![worker.req] = @ + 1]
        /\ UNCHANGED <<main, worker, got, cut>>
    BY PieceFacts, WebclientTaskAssumption
  <1>2. read' \in [Request -> 0 .. MaxPieces]
    BY <1>1, TFacts
  <1>3. \A r \in cut' : read'[r] > 0
    BY <1>1, TFacts DEF WorkInv
  <1>4. results' = Append(results, PieceRead) /\ Len(results) < ResultDepth
    BY PieceFacts
  <1>5. TInv'
    <2>1. /\ results' \in Seq(Entry) /\ Len(results') = Len(results) + 1
          /\ Len(results) \in Nat /\ results'[Len(results) + 1] = PieceRead
          /\ \A k \in 1..Len(results) : results'[k] = results[k]
      BY <1>4, TFacts, PieceFacts, AppendFacts
    <2>2. Len(results') <= ResultDepth
      BY <1>4, <2>1, WebclientTaskAssumption
    <2>3. TypeOK'
      BY <1>1, <1>2, <2>1, <2>2, TFacts, TypeFactsNext DEF main
    <2>4. ASSUME NEW k \in 1..Len(results'), results'[k].type = "DATA"
          PROVE  results'[k].piece > 0
      <3>1. k \in 1..Len(results) \/ k = Len(results) + 1
        BY <2>1
      <3>2. CASE k \in 1..Len(results)
        BY <3>2, <2>1, <2>4, TFacts DEF WorkInv
      <3>3. CASE k = Len(results) + 1
        BY <3>3, <2>1, PieceFacts
      <3> QED
        BY <3>1, <3>2, <3>3
    <2>5. WorkInv'
      BY <1>1, <1>3, <2>4, TFacts DEF WorkInv
    <2> QED
      BY <1>1, <2>3, <2>5, TFacts DEF TInv, main
  <1> QED
    BY <1>5

\* The worker sends DONE.
LEMMA SendDoneFacts ==
    ASSUME TInv, SendDone
    PROVE  /\ worker.at = "done" /\ Len(results) < ResultDepth
           /\ results' = Append(results, DoneEntry) /\ DoneEntry \in Entry
           /\ DoneEntry.type = "DONE" /\ DoneEntry.id = worker.id
           /\ worker' \in Job(nextId) /\ worker'.at = "receive" /\ worker'.req = None
           /\ UNCHANGED <<main, read, got, cut>>
  <1>1. worker.id \in Nat
    BY TFacts, JobFacts
  <1>2. DoneEntry \in Entry /\ DoneEntry.type = "DONE" /\ DoneEntry.id = worker.id
    BY <1>1, WebclientTaskAssumption DEF DoneEntry, Entry
  <1>3. worker' \in Job(nextId) /\ worker'.at = "receive" /\ worker'.req = None
    BY TFacts, JobIdle DEF SendDone, Goes
  <1> QED
    BY <1>2, <1>3 DEF SendDone, At, Goes

LEMMA TSendDone ==
    ASSUME TInv, SendDone
    PROVE  TInv'
  <1>1. /\ results' \in Seq(Entry) /\ Len(results') = Len(results) + 1
        /\ Len(results) \in Nat /\ results'[Len(results) + 1] = DoneEntry
        /\ \A k \in 1..Len(results) : results'[k] = results[k]
    <2>1. results' = Append(results, DoneEntry) /\ DoneEntry \in Entry
      BY SendDoneFacts
    <2> QED
      BY <2>1, TFacts, AppendFacts
  <1>2. Len(results') <= ResultDepth
    BY <1>1, SendDoneFacts, WebclientTaskAssumption
  <1>3. TypeOK'
    BY <1>1, <1>2, TFacts, SendDoneFacts, TypeFactsNext DEF main
  <1>4. ASSUME NEW k \in 1..Len(results'), results'[k].type = "DATA"
        PROVE  results'[k].piece > 0
    <2>1. k \in 1..Len(results) \/ k = Len(results) + 1
      BY <1>1
    <2> QED
      BY <2>1, <1>1, <1>4, TFacts, SendDoneFacts DEF WorkInv
  <1>5. WorkInv'
    BY <1>4, TFacts, SendDoneFacts DEF WorkInv
  <1> QED
    BY <1>3, <1>5, TFacts, SendDoneFacts DEF TInv, main

\* The network goes or comes back, or nothing happens.
Stutters ==
    /\ online' \in BOOLEAN
    /\ UNCHANGED <<requests, results, callbacks, capacity, nextId, worker, stack,
                   url, answers, read, got, cut, wild>>

LEMMA TStutters ==
    ASSUME TInv, Stutters
    PROVE  TInv'
  BY TFacts, TypeFactsNext DEF TInv, WorkInv, Stutters

\* What a step does, in the words of the lemmas above.
LEMMA StepFacts ==
    ASSUME TInv, Next
    PROVE  \/ \E r \in Request, kind \in Kinds : Starts(r, kind)
           \/ /\ stack # <<>> /\ stack[1].op = "enqueue" /\ stack[1].req \in Request
              /\ Rejects(stack[1].req) \/ Keeps(stack[1].req)
           \/ Drops
           \/ \E k \in 1..Len(callbacks) : GivesPiece(k) \/ GivesDone(k)
           \/ Returns /\ stack[1].op \in {"callback", "data"}
           \/ \E p \in 1..Len(callbacks) : Removes(p)
           \/ Takes \/ Moves \/ Piece \/ SendDone \/ Stutters
  <1>1. CASE (\E r \in Request, kind \in Kinds : Send(r, kind)) \/ CallbackSends
    BY <1>1, StartsFacts DEF TInv
  <1>2. CASE EnqueueBadUrl \/ EnqueueFull
    BY <1>2, RejectsFacts
  <1>3. CASE Enqueues
    BY <1>3, KeepsFacts
  <1>4. CASE Receive
    BY <1>4, ReceiveFacts
  <1>5. CASE CallbackReturns \/ DataReturns
    BY <1>5, ReturnsFacts
  <1>6. CASE Erase
    BY <1>6, EraseFacts
  <1>7. CASE HeadersFail \/ HeadersEnd \/ PieceTooLarge \/ BodyEnds \/ MakesDone
    BY <1>7, MovesFacts
  <1>8. (\E on \in BOOLEAN : Switches(on)) => Stutters
    BY DEF Switches, Stutters
  <1> QED
    BY <1>1, <1>2, <1>3, <1>4, <1>5, <1>6, <1>7, <1>8 DEF Next, Main, TaskRun

LEMMA TStep == TInv /\ [Next]_vars => TInv'
  <1> SUFFICES ASSUME TInv, [Next]_vars PROVE TInv'
    OBVIOUS
  <1>1. CASE Next
    BY <1>1, StepFacts, TStarts, TRejects, TKeeps, TDrops, TGives, TReturns,
       TRemoves, TTakes, TMoves, TPiece, TSendDone, TStutters
  <1>2. CASE UNCHANGED vars
    BY <1>2, TStutters, TFacts DEF Stutters, vars, main
  <1> QED
    BY <1>1, <1>2

\* Every state of the web client has its types, and no queue is longer than it
\* was made, whatever sendDone() finds in the deleted request.
THEOREM TypeCorrect == Spec => []TypeOK
  <1>1. TInv => TypeOK
    BY DEF TInv
  <1> QED
    BY TInitial, TStep, <1>1, PTL DEF Spec

-----------------------------------------------------------------------------
(* Where the answer of each request comes from.                            *)

Has(i, r)  == \E c \in 1..Len(callbacks) : callbacks[c].id = i /\ callbacks[c].req = r
Waiting(i) == \E k \in 1..Len(requests) : requests[k].id = i
Works(i)   == worker.at # "receive" /\ worker.id = i
Done(i)    == \E k \in 1..Len(results) : results[k].type = "DONE" /\ results[k].id = i
Erasing(i) == \E p \in Erases(stack) : callbacks[p].id = i

\* No two callbacks have the same id, or are of the same request.
CallbackInv ==
    /\ \A c \in 1..Len(callbacks) : callbacks[c].id < nextId
    /\ \A c, d \in 1..Len(callbacks) :
          /\ callbacks[c].id = callbacks[d].id => c = d
          /\ callbacks[c].req = callbacks[d].req => c = d

\* Each is waited for in one place, and nothing else is on its way.
PlaceInv ==
    /\ \A k \in 1..Len(requests) :
          /\ Has(requests[k].id, requests[k].req)
          /\ ~Works(requests[k].id) /\ ~Done(requests[k].id) /\ ~Erasing(requests[k].id)
    /\ \A k, l \in 1..Len(requests) : requests[k].id = requests[l].id => k = l
    /\ worker.at # "receive" =>
          Has(worker.id, worker.req) /\ ~Done(worker.id) /\ ~Erasing(worker.id)
    /\ \A k \in 1..Len(results) :
          /\ \E r \in Request : Has(results[k].id, r)
          /\ ~Erasing(results[k].id)
    /\ \A c \in 1..Len(callbacks) :
          \/ Waiting(callbacks[c].id) \/ Works(callbacks[c].id)
          \/ Done(callbacks[c].id) \/ Erasing(callbacks[c].id)

\* DONE is the last entry of its id, comes when there is a piece before it,
\* and the pieces come in order.
OrderInv ==
    /\ \A k, l \in 1..Len(results) :
          results[k].id = results[l].id /\ results[k].type = "DONE" => l <= k
    /\ \A k \in 1..Len(results) :
          results[k].type = "DATA" => Works(results[k].id) \/ Done(results[k].id)
    /\ \A k, l \in 1..Len(results) :
          results[k].id = results[l].id /\ results[k].type = "DATA"
          /\ results[l].type = "DATA" /\ k < l => results[k].piece < results[l].piece

\* What onData was given is the beginning of what was handed; the rest of it is
\* in the queue.
GotInv ==
    \A r \in Request :
        got[r] = [i \in 1 .. Len(got[r]) |-> i] /\ Len(got[r]) <= handed[r]

PieceInv ==
    \A c \in 1..Len(callbacks), k \in 1..Len(results) :
        results[k].type = "DATA" /\ results[k].id = callbacks[c].id =>
            /\ url[callbacks[c].req] # "plain"
            /\ Len(got[callbacks[c].req]) < results[k].piece
            /\ results[k].piece <= handed[callbacks[c].req]

Queued(i, p) ==
    \E k \in 1..Len(results) :
        results[k].type = "DATA" /\ results[k].id = i /\ results[k].piece = p

RestInv ==
    \A c \in 1..Len(callbacks), p \in 1..MaxPieces :
        url[callbacks[c].req] # "plain" /\ Len(got[callbacks[c].req]) < p
        /\ p <= handed[callbacks[c].req] => Queued(callbacks[c].id, p)

\* A request that enqueue() has not dealt with.
Fresh(r) == url[r] = "new" \/ (stack # <<>> /\ stack[1].op = "enqueue" /\ stack[1].req = r)

\* onDone is called once, when the whole body was given.
AnswerInv ==
    /\ \A r \in Request :
          /\ Fresh(r) => /\ answers[r] = 0 /\ handed[r] = 0
                         /\ \A c \in 1..Len(callbacks) : callbacks[c].req # r
          /\ answers[r] <= 1
          /\ answers[r] > 0 => /\ worker.req # r
                               /\ url[r] # "plain" => Len(got[r]) = handed[r]
    /\ \A k \in 1..Len(stack) : stack[k].op = "enqueue" => url[stack[k].req] # "new"
    /\ \A c \in 1..Len(callbacks) :
          answers[callbacks[c].req] > 0 => Erasing(callbacks[c].id)

\* A body that went beyond bodyMaxSize is the last thing the worker has to do
\* with its request.
CutInv ==
    /\ \A k \in 1..Len(requests) : requests[k].req \notin cut
    /\ worker.at \in {"headers", "body"} => worker.req \notin cut
    /\ \A r \in Request : Fresh(r) => r \notin cut

IInv == /\ TInv /\ CallbackInv /\ PlaceInv /\ OrderInv
        /\ GotInv /\ PieceInv /\ RestInv /\ AnswerInv

-----------------------------------------------------------------------------
(* What follows from the invariant in a state.                             *)

\* The callbacks and their requests.
LEMMA CallbackFacts ==
    ASSUME TInv, NEW c \in 1..Len(callbacks)
    PROVE  /\ callbacks[c] \in Pair /\ callbacks[c].req \in Request
           /\ callbacks[c].id \in Nat /\ Has(callbacks[c].id, callbacks[c].req)
  <1>1. callbacks[c] \in Pair
    BY TFacts, AmongFacts
  <1> QED
    BY <1>1, PairFacts DEF Has

\* The worker's request has its callback, and was not answered.
LEMMA WorkerFacts ==
    ASSUME IInv, worker.at # "receive"
    PROVE  \E c \in 1..Len(callbacks) :
              /\ callbacks[c].id = worker.id /\ callbacks[c].req = worker.req
              /\ \A d \in 1..Len(callbacks) :
                    callbacks[d].id = worker.id \/ callbacks[d].req = worker.req => d = c
  <1>1. PICK c \in 1..Len(callbacks) : callbacks[c].id = worker.id /\ callbacks[c].req = worker.req
    BY DEF IInv, PlaceInv, Has
  <1> QED
    BY <1>1 DEF IInv, CallbackInv

\* Nothing is erased when no call is in progress.
LEMMA IdleFacts ==
    ASSUME IInv, stack = <<>>
    PROVE  /\ \A i : ~Erasing(i)
           /\ \A c \in 1..Len(callbacks) : answers[callbacks[c].req] = 0
  <1>1. \A i : ~Erasing(i)
    BY EmptyFacts DEF Erasing
  <1>2. ASSUME NEW c \in 1..Len(callbacks)
        PROVE  answers[callbacks[c].req] = 0
    <2>1. answers[callbacks[c].req] \in Nat
      BY CallbackFacts, TFacts DEF IInv
    <2>2. ~(answers[callbacks[c].req] > 0)
      BY <1>1 DEF IInv, AnswerInv
    <2> QED
      BY <2>1, <2>2
  <1> QED
    BY <1>1, <1>2

\* The lengths of what was given.
LEMMA GotFacts ==
    ASSUME IInv, NEW r \in Request
    PROVE  /\ got[r] \in Seq(1 .. MaxPieces) /\ Len(got[r]) \in Nat
           /\ handed[r] \in 0 .. MaxPieces /\ handed[r] \in Nat
           /\ Len(got[r]) <= handed[r] /\ answers[r] \in Nat
  <1>1. got[r] \in Seq(1 .. MaxPieces) /\ handed[r] \in 0 .. MaxPieces /\ answers[r] \in Nat
    BY TFacts DEF IInv
  <1>2. Len(got[r]) <= handed[r]
    BY DEF IInv, GotInv
  <1>3. Len(got[r]) \in Nat
    BY <1>1
  <1>4. handed[r] \in Nat
    BY <1>1, WebclientTaskAssumption
  <1> QED
    BY <1>1, <1>2, <1>3, <1>4

\* The queues and the vector are as they were, and the worker where it was.
LEMMA PlaceSame ==
    ASSUME PlaceInv, OrderInv,
           UNCHANGED <<requests, results, callbacks>>,
           worker'.id = worker.id, worker'.req = worker.req,
           worker'.at = "receive" <=> worker.at = "receive",
           Erases(stack') = Erases(stack)
    PROVE  PlaceInv' /\ OrderInv' /\ \A i : Erasing(i)' <=> Erasing(i)
  <1>1. \A i, r : Has(i, r)' <=> Has(i, r)
    BY DEF Has
  <1>2. \A i : /\ Waiting(i)' <=> Waiting(i)
               /\ Works(i)' <=> Works(i)
               /\ Done(i)' <=> Done(i)
    BY DEF Waiting, Works, Done
  <1>3. \A i : Erasing(i)' <=> Erasing(i)
    BY DEF Erasing
  <1>4. PlaceInv'
    BY <1>1, <1>2, <1>3 DEF PlaceInv
  <1>5. OrderInv'
    BY <1>2 DEF OrderInv
  <1> QED
    BY <1>3, <1>4, <1>5

\* So are the bodies.
LEMMA BodySame ==
    ASSUME GotInv, PieceInv, RestInv,
           UNCHANGED <<results, callbacks, got, handed>>,
           \A c \in 1..Len(callbacks) : url'[callbacks[c].req] = url[callbacks[c].req]
    PROVE  GotInv' /\ PieceInv' /\ RestInv'
  <1>1. GotInv'
    BY DEF GotInv
  <1>2. PieceInv'
    BY DEF PieceInv
  <1>3. RestInv'
    BY DEF RestInv, Queued
  <1> QED
    BY <1>1, <1>2, <1>3

-----------------------------------------------------------------------------
(* Every step keeps the invariant.                                         *)

LEMMA Initial == Init => IInv
  <1> SUFFICES ASSUME Init PROVE IInv
    OBVIOUS
  <1>1. /\ requests = <<>> /\ results = <<>> /\ callbacks = <<>> /\ stack = <<>>
        /\ Len(requests) = 0 /\ Len(results) = 0 /\ Len(callbacks) = 0 /\ Len(stack) = 0
        /\ worker.at = "receive" /\ TInv
    BY TInitial, JobIdle DEF Init
  <1>2. CallbackInv /\ OrderInv /\ PieceInv /\ RestInv
    BY <1>1 DEF CallbackInv, OrderInv, PieceInv, RestInv
  <1>3. PlaceInv
    BY <1>1 DEF PlaceInv
  <1>4. \A r \in Request : got[r] = <<>> /\ handed[r] = 0 /\ answers[r] = 0
    BY DEF Init, handed
  <1>5. GotInv
    <2>1. <<>> = [i \in 1 .. Len(<<>>) |-> i] /\ Len(<<>>) <= 0
      OBVIOUS
    <2> QED
      BY <1>4, <2>1 DEF GotInv
  <1>6. AnswerInv
    BY <1>1, <1>4 DEF AnswerInv
  <1> QED
    BY <1>1, <1>2, <1>3, <1>5, <1>6 DEF IInv

LEMMA StepStarts ==
    ASSUME IInv, NEW r \in Request, NEW kind \in Kinds, Starts(r, kind)
    PROVE  IInv'
  <1>1. TInv /\ TInv'
    BY TStarts DEF IInv
  <1>2. /\ stack' \in Seq(Frame) /\ Framed(stack', Len(callbacks))
        /\ Erases(stack') = Erases(stack) /\ Quiet(stack)
        /\ stack' # <<>> /\ stack'[1].op = "enqueue" /\ stack'[1].req = r
    BY <1>1, StartsStack
  <1>3. /\ url[r] = "new" /\ url' = [url EXCEPT ![r] = kind]
        /\ UNCHANGED <<requests, results, callbacks, capacity, nextId, worker,
                       answers, handed, got, wild>>
    BY HandsSame DEF Starts, MaySend
  <1>4. /\ url'[r] = kind /\ kind # "new"
        /\ \A q \in Request : q # r => url'[q] = url[q]
    BY <1>1, <1>3, TFacts DEF Kinds
  <1>5. /\ Fresh(r) /\ answers[r] = 0
        /\ \A c \in 1..Len(callbacks) : callbacks[c].req # r
    BY <1>3 DEF IInv, AnswerInv, Fresh
  <1>6. PlaceInv' /\ OrderInv' /\ \A i : Erasing(i)' <=> Erasing(i)
    BY <1>2, <1>3, PlaceSame DEF IInv
  <1>7. CallbackInv'
    BY <1>3 DEF IInv, CallbackInv
  <1>8. GotInv' /\ PieceInv' /\ RestInv'
    <2>1. \A c \in 1..Len(callbacks) : url'[callbacks[c].req] = url[callbacks[c].req]
      BY <1>1, <1>4, <1>5, CallbackFacts
    <2> QED
      BY <1>3, <2>1, BodySame DEF IInv
  <1>9. ASSUME NEW q \in Request, Fresh(q)'
        PROVE  Fresh(q)
    BY <1>2, <1>4, <1>5, <1>9 DEF Fresh
  <1>10. ASSUME NEW q \in Request
         PROVE  /\ Fresh(q)' => /\ answers'[q] = 0 /\ handed'[q] = 0
                                /\ \A c \in 1..Len(callbacks') : callbacks'[c].req # q
                /\ answers'[q] <= 1
                /\ answers'[q] > 0 => /\ worker'.req # q
                                      /\ url'[q] # "plain" => Len(got'[q]) = handed'[q]
    <2>1. Fresh(q)' => /\ answers'[q] = 0 /\ handed'[q] = 0
                       /\ \A c \in 1..Len(callbacks') : callbacks'[c].req # q
      BY <1>3, <1>9 DEF IInv, AnswerInv
    <2>2. answers'[q] <= 1
      BY <1>3 DEF IInv, AnswerInv
    <2>3. answers[q] > 0 => q # r
      BY <1>5
    <2>4. answers'[q] > 0 => /\ worker'.req # q
                             /\ url'[q] # "plain" => Len(got'[q]) = handed'[q]
      BY <1>3, <1>4, <2>3 DEF IInv, AnswerInv
    <2> QED
      BY <2>1, <2>2, <2>4
  <1>11. \A k \in 1..Len(stack') : stack'[k].op = "enqueue" => url'[stack'[k].req] # "new"
    BY <1>2, <1>4 DEF Framed
  <1>12. \A c \in 1..Len(callbacks') :
            answers'[callbacks'[c].req] > 0 => Erasing(callbacks[c].id)'
    BY <1>3, <1>6 DEF IInv, AnswerInv
  <1>13. AnswerInv'
    BY <1>10, <1>11, <1>12 DEF AnswerInv
  <1> QED
    BY <1>1, <1>6, <1>7, <1>8, <1>13 DEF IInv

\* The request that enqueue() deals with.
LEMMA EnqueueFacts ==
    ASSUME IInv, stack # <<>>, stack[1].op = "enqueue", stack[1].req \in Request
    PROVE  LET r == stack[1].req IN
           /\ Fresh(r) /\ answers[r] = 0 /\ handed[r] = 0 /\ Len(got[r]) = 0
           /\ \A c \in 1..Len(callbacks) : callbacks[c].req # r
           /\ worker.req # r /\ url[r] # "new"
  <1> DEFINE r == stack[1].req
  <1>1. Fresh(r)
    BY DEF Fresh
  <1>2. answers[r] = 0 /\ handed[r] = 0 /\ \A c \in 1..Len(callbacks) : callbacks[c].req # r
    BY <1>1 DEF IInv, AnswerInv
  <1>3. Len(got[r]) = 0
    <2>1. Len(got[r]) \in Nat /\ Len(got[r]) <= handed[r]
      BY GotFacts
    <2> QED
      BY <1>2, <2>1
  <1>4. worker.req # r
    <2>1. CASE worker.at = "receive"
      <3>1. worker.req = None
        BY <2>1, TFacts DEF IInv, WorkInv
      <3> QED
        BY <3>1, WebclientTaskAssumption
    <2>2. CASE worker.at # "receive"
      BY <2>2, <1>2, WorkerFacts
    <2> QED
      BY <2>1, <2>2
  <1>5. url[r] # "new"
    <2>1. stack \in Seq(Frame)
      BY TFacts DEF IInv
    <2>2. Len(stack) \in Nat /\ Len(stack) # 0
      BY <2>1
    <2>3. 1 \in 1..Len(stack)
      BY <2>2
    <2> QED
      BY <2>3 DEF IInv, AnswerInv
  <1> QED
    BY <1>1, <1>2, <1>3, <1>4, <1>5

\* After a step that leaves no enqueue() on the stack.
LEMMA QuietFacts ==
    ASSUME Quiet(stack'), stack' \in Seq(Frame), url' = url, NEW q \in Request, Fresh(q)'
    PROVE  Fresh(q) /\ url[q] = "new"
  <1>1. stack' # <<>> => 1 \in 1..Len(stack')
    OBVIOUS
  <1>2. stack' # <<>> => stack'[1].op # "enqueue"
    BY <1>1 DEF Quiet
  <1> QED
    BY <1>2 DEF Fresh

LEMMA StepRejects ==
    ASSUME IInv, stack # <<>>, stack[1].op = "enqueue", stack[1].req \in Request,
           Rejects(stack[1].req)
    PROVE  IInv'
  <1> DEFINE r == stack[1].req
  <1>1. /\ Fresh(r) /\ answers[r] = 0 /\ handed[r] = 0 /\ Len(got[r]) = 0
        /\ \A c \in 1..Len(callbacks) : callbacks[c].req # r
        /\ worker.req # r /\ url[r] # "new" /\ r \in Request
    BY EnqueueFacts
  <1>2. Rejects(r)
    OBVIOUS
  <1> HIDE DEF r
  <1>3. TInv /\ TInv'
    BY <1>1, <1>2, TRejects DEF IInv
  <1>4. /\ answers' = [answers EXCEPT ![r] = @ + 1] /\ nextId' = nextId + 1
        /\ worker'.at = worker.at /\ worker'.req = worker.req /\ worker'.id = worker.id
        /\ stack' \in Seq(Frame) /\ Quiet(stack') /\ Erases(stack') = Erases(stack)
        /\ UNCHANGED <<requests, results, callbacks, url, handed, got>>
    BY <1>2, HandsSame DEF Rejects
  <1>5. answers'[r] = 1 /\ \A q \in Request : q # r => answers'[q] = answers[q]
    BY <1>1, <1>3, <1>4, TFacts
  <1>6. PlaceInv' /\ OrderInv' /\ \A i : Erasing(i)' <=> Erasing(i)
    BY <1>4, PlaceSame DEF IInv
  <1>7. CallbackInv'
    <2>1. \A c \in 1..Len(callbacks) : callbacks[c].id < nextId + 1
      BY <1>3, CallbackFacts, TFacts DEF IInv, CallbackInv
    <2> QED
      BY <2>1, <1>4 DEF IInv, CallbackInv
  <1>8. GotInv' /\ PieceInv' /\ RestInv'
    BY <1>4, BodySame DEF IInv
  <1>9. ASSUME NEW q \in Request
        PROVE  /\ Fresh(q)' => /\ answers'[q] = 0 /\ handed'[q] = 0
                               /\ \A c \in 1..Len(callbacks') : callbacks'[c].req # q
               /\ answers'[q] <= 1
               /\ answers'[q] > 0 => /\ worker'.req # q
                                     /\ url'[q] # "plain" => Len(got'[q]) = handed'[q]
    <2>1. Fresh(q)' => Fresh(q) /\ q # r
      BY <1>1, <1>4, QuietFacts
    <2>2. CASE q = r
      BY <2>1, <2>2, <1>1, <1>4, <1>5
    <2>3. CASE q # r
      BY <2>1, <2>3, <1>4, <1>5 DEF IInv, AnswerInv
    <2> QED
      BY <2>2, <2>3
  <1>10. \A k \in 1..Len(stack') : stack'[k].op = "enqueue" => url'[stack'[k].req] # "new"
    BY <1>4 DEF Quiet
  <1>11. \A c \in 1..Len(callbacks') :
            answers'[callbacks'[c].req] > 0 => Erasing(callbacks[c].id)'
    <2>1. \A c \in 1..Len(callbacks) : answers'[callbacks[c].req] = answers[callbacks[c].req]
      BY <1>1, <1>3, <1>5, CallbackFacts
    <2> QED
      BY <2>1, <1>4, <1>6 DEF IInv, AnswerInv
  <1>12. AnswerInv'
    BY <1>9, <1>10, <1>11 DEF AnswerInv
  <1> QED
    BY <1>3, <1>6, <1>7, <1>8, <1>12 DEF IInv

LEMMA StepReturns ==
    ASSUME IInv, Returns
    PROVE  IInv'
  <1>1. TInv /\ TInv'
    BY TReturns DEF IInv
  <1>2. /\ stack' \in Seq(Frame) /\ Quiet(stack') /\ Erases(stack') = Erases(stack)
        /\ UNCHANGED <<requests, results, callbacks, nextId, worker, url, answers, handed, got>>
    BY HandsSame DEF Returns
  <1>3. PlaceInv' /\ OrderInv' /\ \A i : Erasing(i)' <=> Erasing(i)
    BY <1>2, PlaceSame DEF IInv
  <1>4. CallbackInv'
    BY <1>2 DEF IInv, CallbackInv
  <1>5. GotInv' /\ PieceInv' /\ RestInv'
    BY <1>2, BodySame DEF IInv
  <1>6. \A q \in Request : Fresh(q)' => Fresh(q)
    BY <1>2, QuietFacts
  <1>7. \A k \in 1..Len(stack') : stack'[k].op = "enqueue" => url'[stack'[k].req] # "new"
    BY <1>2 DEF Quiet
  <1>8. AnswerInv'
    BY <1>2, <1>3, <1>6, <1>7 DEF IInv, AnswerInv
  <1> QED
    BY <1>1, <1>3, <1>4, <1>5, <1>8 DEF IInv

\* The worker finds the id it deleted.
\* The worker hands over no piece when it goes on: what it has read then goes
\* beyond bodyMaxSize.
LEMMA MovesHands ==
    ASSUME IInv, CutInv, Moves
    PROVE  UNCHANGED handed
  <1>1. CASE UNCHANGED <<read, cut>>
    BY <1>1, HandsSame
  <1>2. CASE /\ worker.at = "body"
             /\ read' = [read EXCEPT ![worker.req] = @ + 1]
             /\ cut' = cut \cup {worker.req}
    <2>1. /\ worker.req \notin cut /\ worker.req \in Request
          /\ read \in [Request -> 0 .. MaxPieces]
      BY <1>2, TFacts DEF IInv, CutInv, WorkInv
    <2>2. ASSUME NEW r \in Request
          PROVE  (IF r \in cut' THEN read'[r] - 1 ELSE read'[r])
                    = (IF r \in cut THEN read[r] - 1 ELSE read[r])
      <3>1. CASE r = worker.req
        <4>1. read'[r] = read[r] + 1 /\ read[r] \in Nat /\ r \in cut' /\ r \notin cut
          BY <1>2, <2>1, <3>1, WebclientTaskAssumption
        <4> QED
          BY <4>1
      <3>2. CASE r # worker.req
        BY <1>2, <2>1, <3>2
      <3> QED
        BY <3>1, <3>2
    <2> QED
      BY <2>2 DEF handed
  <1> QED
    BY <1>1, <1>2 DEF Moves

LEMMA StepMoves ==
    ASSUME IInv, CutInv, Moves, Freed = {"kept"}
    PROVE  IInv'
  <1>1. TInv /\ TInv'
    BY TMoves DEF IInv
  <1>2. IdFound = {worker.id}
    BY DEF IdFound
  <1>3. /\ worker'.id = worker.id /\ worker'.req = worker.req
        /\ worker.at # "receive" /\ worker'.at # "receive"
        /\ UNCHANGED <<requests, callbacks, nextId, stack, url, answers, results, handed, got>>
    BY <1>2, MovesHands DEF Moves, main
  <1>4. PlaceInv' /\ OrderInv' /\ \A i : Erasing(i)' <=> Erasing(i)
    BY <1>3, PlaceSame DEF IInv
  <1>5. CallbackInv'
    BY <1>3 DEF IInv, CallbackInv
  <1>6. GotInv' /\ PieceInv' /\ RestInv'
    BY <1>3, BodySame DEF IInv
  <1>7. \A q \in Request : Fresh(q)' <=> Fresh(q)
    BY <1>3 DEF Fresh
  <1>8. AnswerInv'
    BY <1>3, <1>4, <1>7 DEF IInv, AnswerInv
  <1> QED
    BY <1>1, <1>4, <1>5, <1>6, <1>8 DEF IInv

\* The vector with the new callbacks.
LEMMA KeepsCallbacks ==
    ASSUME IInv, NEW r \in Request, Keeps(r)
    PROVE  /\ Len(callbacks') = Len(callbacks) + 1 /\ Len(callbacks) \in Nat
           /\ callbacks'[Len(callbacks) + 1].id = nextId
           /\ callbacks'[Len(callbacks) + 1].req = r
           /\ \A c \in 1..Len(callbacks) : callbacks'[c] = callbacks[c]
           /\ \A c \in 1..Len(callbacks') :
                 c \in 1..Len(callbacks) \/ c = Len(callbacks) + 1
           /\ \A i, q : Has(i, q)' <=> Has(i, q) \/ (i = nextId /\ q = r)
           /\ \A i, q : Has(i, q) => i < nextId /\ i # nextId
           /\ \A i : Erasing(i)' <=> Erasing(i)
           /\ \A i : Erasing(i) => \E q \in Request : Has(i, q)
           /\ nextId \in Nat
  <1> DEFINE n == Len(callbacks)
  <1>1. nextId \in Nat /\ [id |-> nextId, req |-> r] \in Pair /\ callbacks \in Seq(Pair)
    BY TFacts, PairFacts DEF IInv
  <1>2. /\ Len(callbacks') = n + 1 /\ n \in Nat
        /\ callbacks'[n + 1] = [id |-> nextId, req |-> r]
        /\ \A c \in 1..n : callbacks'[c] = callbacks[c]
    BY <1>1, AppendFacts DEF Keeps
  <1>3. callbacks'[n + 1].id = nextId /\ callbacks'[n + 1].req = r
    BY <1>2
  <1>4. \A c \in 1..Len(callbacks') : c \in 1..n \/ c = n + 1
    BY <1>2
  <1>5. n + 1 \in 1..Len(callbacks') /\ \A c \in 1..n : c \in 1..Len(callbacks')
    BY <1>2
  <1>6. \A i, q : Has(i, q)' <=> Has(i, q) \/ (i = nextId /\ q = r)
    BY <1>2, <1>3, <1>4, <1>5 DEF Has
  <1>7. \A i, q : Has(i, q) => i < nextId /\ i # nextId
    <2>1. ASSUME NEW c \in 1..n
          PROVE  callbacks[c].id < nextId /\ callbacks[c].id # nextId
      <3>1. callbacks[c].id < nextId /\ callbacks[c].id \in Nat
        BY CallbackFacts DEF IInv, CallbackInv
      <3> QED
        BY <3>1, <1>1
    <2> QED
      BY <2>1 DEF Has
  <1>8. \A p \in Erases(stack) : p \in 1..n
    BY ErasesFacts, TFacts DEF IInv
  <1>9. Erases(stack') = Erases(stack)
    BY DEF Keeps
  <1>10. \A i : Erasing(i)' <=> Erasing(i)
    BY <1>2, <1>8, <1>9 DEF Erasing
  <1>11. \A i : Erasing(i) => \E q \in Request : Has(i, q)
    BY <1>8, CallbackFacts DEF Erasing, IInv
  <1> QED
    BY <1>1, <1>2, <1>3, <1>4, <1>6, <1>7, <1>10, <1>11

\* The queue with the new request.
LEMMA KeepsRequests ==
    ASSUME IInv, NEW r \in Request, Keeps(r)
    PROVE  /\ Len(requests') = Len(requests) + 1 /\ Len(requests) \in Nat
           /\ requests'[Len(requests) + 1].id = nextId
           /\ requests'[Len(requests) + 1].req = r
           /\ \A k \in 1..Len(requests) : requests'[k] = requests[k]
           /\ \A k \in 1..Len(requests') :
                 k \in 1..Len(requests) \/ k = Len(requests) + 1
           /\ \A i : Waiting(i)' <=> Waiting(i) \/ i = nextId
  <1> DEFINE n == Len(requests)
  <1>1. [id |-> nextId, req |-> r] \in Pair /\ requests \in Seq(Pair)
    BY TFacts, PairFacts DEF IInv
  <1>2. /\ Len(requests') = n + 1 /\ n \in Nat
        /\ requests'[n + 1] = [id |-> nextId, req |-> r]
        /\ \A k \in 1..n : requests'[k] = requests[k]
    BY <1>1, AppendFacts DEF Keeps
  <1>3. requests'[n + 1].id = nextId /\ requests'[n + 1].req = r
    BY <1>2
  <1>4. \A k \in 1..Len(requests') : k \in 1..n \/ k = n + 1
    BY <1>2
  <1>5. n + 1 \in 1..Len(requests') /\ \A k \in 1..n : k \in 1..Len(requests')
    BY <1>2
  <1>6. \A i : Waiting(i)' <=> Waiting(i) \/ i = nextId
    BY <1>2, <1>3, <1>4, <1>5 DEF Waiting
  <1> QED
    BY <1>2, <1>3, <1>4, <1>6

LEMMA StepKeeps ==
    ASSUME IInv, stack # <<>>, stack[1].op = "enqueue", stack[1].req \in Request,
           Keeps(stack[1].req)
    PROVE  IInv'
  <1> DEFINE r == stack[1].req  n == Len(callbacks)  m == Len(requests)
  <1>1. /\ Fresh(r) /\ answers[r] = 0 /\ handed[r] = 0
        /\ \A c \in 1..n : callbacks[c].req # r
        /\ url[r] # "new" /\ r \in Request
    BY EnqueueFacts
  <1>2. Keeps(r)
    OBVIOUS
  <1> HIDE DEF r
  <1>3. TInv /\ TInv'
    BY <1>1, <1>2, TKeeps DEF IInv
  <1>4. /\ nextId' = nextId + 1
        /\ worker'.at = worker.at /\ worker'.req = worker.req /\ worker'.id = worker.id
        /\ stack' \in Seq(Frame) /\ Quiet(stack')
        /\ UNCHANGED <<results, url, answers, handed, got>>
    BY <1>2, HandsSame DEF Keeps
  <1>5. /\ Len(callbacks') = n + 1 /\ n \in Nat /\ nextId \in Nat
        /\ callbacks'[n + 1].id = nextId /\ callbacks'[n + 1].req = r
        /\ \A c \in 1..n : callbacks'[c] = callbacks[c]
        /\ \A c \in 1..Len(callbacks') : c \in 1..n \/ c = n + 1
    BY <1>1, <1>2, KeepsCallbacks
  <1>6. /\ \A i, q : Has(i, q)' <=> Has(i, q) \/ (i = nextId /\ q = r)
        /\ \A i, q : Has(i, q) => i # nextId
        /\ \A i : Erasing(i)' <=> Erasing(i)
        /\ \A i : Erasing(i) => \E q \in Request : Has(i, q)
    BY <1>1, <1>2, KeepsCallbacks
  <1>7. /\ Len(requests') = m + 1 /\ m \in Nat
        /\ requests'[m + 1].id = nextId /\ requests'[m + 1].req = r
        /\ \A k \in 1..m : requests'[k] = requests[k]
        /\ \A k \in 1..Len(requests') : k \in 1..m \/ k = m + 1
        /\ \A i : Waiting(i)' <=> Waiting(i) \/ i = nextId
    BY <1>1, <1>2, KeepsRequests
  <1>8. \A i : (Works(i)' <=> Works(i)) /\ (Done(i)' <=> Done(i))
    BY <1>4 DEF Works, Done
  <1>9. ~Works(nextId) /\ ~Done(nextId) /\ ~Erasing(nextId) /\ ~Waiting(nextId)
    BY <1>6 DEF IInv, PlaceInv, Works, Done, Waiting
  <1>10. CallbackInv'
    <2>1. ASSUME NEW c \in 1..n
          PROVE  /\ callbacks[c].id < nextId + 1 /\ callbacks[c].id # nextId
                 /\ callbacks[c].req # r
      <3>1. callbacks[c].id < nextId /\ callbacks[c].id \in Nat
        BY <1>3, CallbackFacts DEF IInv, CallbackInv
      <3> QED
        BY <3>1, <1>1, <1>5
    <2>2. nextId < nextId + 1
      BY <1>5
    <2>3. \A c \in 1..Len(callbacks') : callbacks'[c].id < nextId'
      BY <2>1, <2>2, <1>4, <1>5
    <2>4. ASSUME NEW c \in 1..Len(callbacks'), NEW d \in 1..Len(callbacks')
          PROVE  /\ callbacks'[c].id = callbacks'[d].id => c = d
                 /\ callbacks'[c].req = callbacks'[d].req => c = d
      <3>1. CASE c \in 1..n /\ d \in 1..n
        BY <3>1, <1>5 DEF IInv, CallbackInv
      <3>2. CASE c = n + 1 /\ d \in 1..n
        BY <3>2, <2>1, <1>5
      <3>3. CASE c \in 1..n /\ d = n + 1
        BY <3>3, <2>1, <1>5
      <3> QED
        BY <3>1, <3>2, <3>3, <1>5
    <2> QED
      BY <2>3, <2>4 DEF CallbackInv
  <1>11. PlaceInv'
    <2>1. ASSUME NEW k \in 1..Len(requests')
          PROVE  /\ Has(requests[k].id, requests[k].req)' /\ ~Works(requests[k].id)'
                 /\ ~Done(requests[k].id)' /\ ~Erasing(requests[k].id)'
      <3>1. CASE k \in 1..m
        BY <3>1, <1>6, <1>7, <1>8 DEF IInv, PlaceInv
      <3>2. CASE k = m + 1
        BY <3>2, <1>6, <1>7, <1>8, <1>9
      <3> QED
        BY <3>1, <3>2, <1>7
    <2>2. ASSUME NEW k \in 1..Len(requests'), NEW l \in 1..Len(requests')
          PROVE  requests'[k].id = requests'[l].id => k = l
      <3>1. \A j \in 1..m : requests[j].id # nextId
        BY <1>9 DEF Waiting
      <3>2. CASE k \in 1..m /\ l \in 1..m
        BY <3>2, <1>7 DEF IInv, PlaceInv
      <3>3. CASE k = m + 1 \/ l = m + 1
        BY <3>1, <3>3, <1>7
      <3> QED
        BY <3>2, <3>3, <1>7
    <2>3. worker'.at # "receive" => /\ Has(worker.id, worker.req)'
                                    /\ ~Done(worker.id)' /\ ~Erasing(worker.id)'
      BY <1>4, <1>6, <1>8 DEF IInv, PlaceInv
    <2>4. ASSUME NEW k \in 1..Len(results')
          PROVE  (\E q \in Request : Has(results[k].id, q)') /\ ~Erasing(results[k].id)'
      BY <1>4, <1>6 DEF IInv, PlaceInv
    <2>5. ASSUME NEW c \in 1..Len(callbacks')
          PROVE  \/ Waiting(callbacks[c].id)' \/ Works(callbacks[c].id)'
                 \/ Done(callbacks[c].id)' \/ Erasing(callbacks[c].id)'
      <3>1. CASE c \in 1..n
        BY <3>1, <1>5, <1>6, <1>7, <1>8 DEF IInv, PlaceInv
      <3>2. CASE c = n + 1
        BY <3>2, <1>5, <1>7
      <3> QED
        BY <3>1, <3>2, <1>5
    <2> QED
      BY <2>1, <2>2, <2>3, <2>4, <2>5 DEF PlaceInv
  <1>12. OrderInv'
    BY <1>4, <1>8 DEF IInv, OrderInv
  <1>13. GotInv'
    BY <1>4 DEF IInv, GotInv
  <1>14. PieceInv'
    <2>1. \A k \in 1..Len(results) : results[k].id # nextId
      BY <1>6 DEF IInv, PlaceInv
    <2>2. ASSUME NEW c \in 1..Len(callbacks'), NEW k \in 1..Len(results'),
                 results'[k].type = "DATA", results'[k].id = callbacks'[c].id
          PROVE  /\ url'[callbacks'[c].req] # "plain"
                 /\ Len(got'[callbacks'[c].req]) < results'[k].piece
                 /\ results'[k].piece <= handed'[callbacks'[c].req]
      <3>1. c \in 1..n
        BY <2>1, <2>2, <1>4, <1>5
      <3> QED
        BY <2>2, <3>1, <1>4, <1>5 DEF IInv, PieceInv
    <2> QED
      BY <2>2 DEF PieceInv
  <1>15. RestInv'
    <2>1. ASSUME NEW c \in 1..Len(callbacks'), NEW p \in 1..MaxPieces,
                 url'[callbacks'[c].req] # "plain", Len(got'[callbacks'[c].req]) < p,
                 p <= handed'[callbacks'[c].req]
          PROVE  Queued(callbacks[c].id, p)'
      <3>1. c # n + 1
        BY <2>1, <1>1, <1>4, <1>5
      <3>2. c \in 1..n
        BY <3>1, <1>5
      <3>3. Queued(callbacks[c].id, p)
        BY <2>1, <3>2, <1>4, <1>5 DEF IInv, RestInv
      <3> QED
        BY <3>2, <3>3, <1>4, <1>5 DEF Queued
    <2> QED
      BY <2>1 DEF RestInv
  <1>16. ASSUME NEW q \in Request
         PROVE  /\ Fresh(q)' => /\ answers'[q] = 0 /\ handed'[q] = 0
                                /\ \A c \in 1..Len(callbacks') : callbacks'[c].req # q
                /\ answers'[q] <= 1
                /\ answers'[q] > 0 => /\ worker'.req # q
                                      /\ url'[q] # "plain" => Len(got'[q]) = handed'[q]
    <2>1. Fresh(q)' => Fresh(q) /\ q # r
      BY <1>1, <1>4, QuietFacts
    <2>2. Fresh(q)' => /\ answers'[q] = 0 /\ handed'[q] = 0
                       /\ \A c \in 1..Len(callbacks') : callbacks'[c].req # q
      BY <2>1, <1>4, <1>5 DEF IInv, AnswerInv
    <2> QED
      BY <2>2, <1>4 DEF IInv, AnswerInv
  <1>17. \A k \in 1..Len(stack') : stack'[k].op = "enqueue" => url'[stack'[k].req] # "new"
    BY <1>4 DEF Quiet
  <1>18. \A c \in 1..Len(callbacks') :
            answers'[callbacks'[c].req] > 0 => Erasing(callbacks[c].id)'
    <2>1. ~(answers[r] > 0)
      BY <1>1
    <2> QED
      BY <2>1, <1>4, <1>5, <1>6 DEF IInv, AnswerInv
  <1>19. AnswerInv'
    BY <1>16, <1>17, <1>18 DEF AnswerInv
  <1> QED
    BY <1>3, <1>10, <1>11, <1>12, <1>13, <1>14, <1>15, <1>19 DEF IInv

\* Every entry finds its callback.
LEMMA NoDrops ==
    ASSUME IInv, Drops
    PROVE  FALSE
  <1>1. results # <<>> /\ results' = Tail(results) /\ PositionsOf(results[1].id) = {}
    BY DEF Drops
  <1>2. 1 \in 1..Len(results)
    BY <1>1, ResultsTaken DEF IInv
  <1>3. PICK r \in Request : Has(results[1].id, r)
    BY <1>2 DEF IInv, PlaceInv
  <1>4. PositionsOf(results[1].id) # {}
    BY <1>3 DEF Has, PositionsOf
  <1> QED
    BY <1>1, <1>4

\* The entry that loop() has taken, and the callback it belongs to.
LEMMA GivesFacts ==
    ASSUME IInv, NEW k \in 1..Len(callbacks), Gives(k)
    PROVE  /\ 1 \in 1..Len(results) /\ results[1] \in Entry
           /\ callbacks[k].id = results[1].id /\ callbacks[k].req \in Request
           /\ callbacks' = callbacks /\ url' = url /\ handed' = handed /\ worker' = worker
           /\ requests' = requests /\ nextId' = nextId
           /\ stack' \in Seq(Frame) /\ Quiet(stack')
           /\ \A l \in 1..Len(results') :
                 results'[l] = results[l + 1] /\ l + 1 \in 1..Len(results) /\ l \in Nat
           /\ \A l \in 1..Len(results) :
                 l # 1 => l - 1 \in 1..Len(results') /\ results'[l - 1] = results[l]
           /\ \A i : ~Erasing(i)
           /\ \A c \in 1..Len(callbacks) : answers[callbacks[c].req] = 0
  <1>1. stack = <<>> /\ results # <<>> /\ results' = Tail(results)
    BY DEF Gives
  <1>2. callbacks[k].req \in Request
    BY CallbackFacts DEF IInv
  <1>3. /\ \A i : ~Erasing(i)
        /\ \A c \in 1..Len(callbacks) : answers[callbacks[c].req] = 0
    BY <1>1, IdleFacts
  <1>4. /\ 1 \in 1..Len(results) /\ results[1] \in Entry
        /\ \A l \in 1..Len(results') :
              results'[l] = results[l + 1] /\ l + 1 \in 1..Len(results) /\ l \in Nat
        /\ \A l \in 1..Len(results) :
              l # 1 => l - 1 \in 1..Len(results') /\ results'[l - 1] = results[l]
    BY <1>1, ResultsTaken DEF IInv
  <1> QED
    BY <1>2, <1>3, <1>4, HandsSame DEF Gives

\* The order of what is left.
LEMMA OrderTaken ==
    ASSUME IInv, NEW k \in 1..Len(callbacks), Gives(k),
           \A l \in 1..Len(results') : results'[l].type = "DATA" =>
              Works(results[l].id)' \/ Done(results[l].id)'
    PROVE  OrderInv'
  <1>1. \A l \in 1..Len(results') :
            results'[l] = results[l + 1] /\ l + 1 \in 1..Len(results) /\ l \in Nat
    BY GivesFacts
  <1>2. ASSUME NEW l \in 1..Len(results'), NEW j \in 1..Len(results'),
               results'[l].id = results'[j].id, results'[l].type = "DONE"
        PROVE  j <= l
    <2>1. j + 1 <= l + 1
      BY <1>1, <1>2 DEF IInv, OrderInv
    <2> QED
      BY <2>1, <1>1
  <1>3. ASSUME NEW l \in 1..Len(results'), NEW j \in 1..Len(results'),
               results'[l].id = results'[j].id, results'[l].type = "DATA",
               results'[j].type = "DATA", l < j
        PROVE  results'[l].piece < results'[j].piece
    <2>1. l + 1 < j + 1
      BY <1>1, <1>3
    <2> QED
      BY <2>1, <1>1, <1>3 DEF IInv, OrderInv
  <1> QED
    BY <1>1, <1>2, <1>3 DEF OrderInv

\* The number after g, when there is a larger one.
LEMMA NextNumber ==
    ASSUME NEW g \in Nat, NEW m \in Nat, NEW d \in 0..m, NEW p \in 0..m, g < p, p <= d
    PROVE  g + 1 \in 1..m /\ g < g + 1 /\ g + 1 <= d /\ g + 1 <= p
  OBVIOUS

\* onData is called with the piece that comes next.
LEMMA NextPiece ==
    ASSUME IInv, NEW k \in 1..Len(callbacks), GivesPiece(k)
    PROVE  LET r == callbacks[k].req IN
           /\ results[1].piece = Len(got[r]) + 1 /\ Len(got[r]) + 1 <= handed[r]
           /\ url[r] # "plain"
  <1> DEFINE r == callbacks[k].req  i == callbacks[k].id  p == Len(got[r]) + 1
  <1>1. /\ Gives(k) /\ results[1].type = "DATA" /\ results[1].id = i
        /\ 1 \in 1..Len(results) /\ results[1] \in Entry /\ r \in Request
    BY GivesFacts DEF GivesPiece
  <1>2. url[r] # "plain" /\ Len(got[r]) < results[1].piece /\ results[1].piece <= handed[r]
    BY <1>1 DEF IInv, PieceInv
  <1>3. /\ Len(got[r]) \in Nat /\ handed[r] \in 0..MaxPieces
        /\ results[1].piece \in 0..MaxPieces /\ MaxPieces \in Nat
    BY <1>1, GotFacts, EntryFacts, WebclientTaskAssumption
  <1>4. p \in 1..MaxPieces /\ Len(got[r]) < p /\ p <= handed[r] /\ p <= results[1].piece
    BY <1>2, <1>3, NextNumber
  <1>5. PICK m \in 1..Len(results) :
            results[m].type = "DATA" /\ results[m].id = i /\ results[m].piece = p
    BY <1>2, <1>4 DEF IInv, RestInv, Queued
  <1>6. CASE m = 1
    BY <1>2, <1>4, <1>5, <1>6
  <1>7. CASE m # 1
    <2>1. 1 < m
      BY <1>7
    <2>2. results[1].piece < results[m].piece
      BY <2>1, <1>1, <1>5 DEF IInv, OrderInv
    <2> QED
      BY <2>2, <1>3, <1>4, <1>5
  <1> QED
    BY <1>2, <1>4, <1>6, <1>7

LEMMA StepGivesPiece ==
    ASSUME IInv, NEW k \in 1..Len(callbacks), GivesPiece(k)
    PROVE  IInv'
  <1> DEFINE r == callbacks[k].req
  <1>1. Gives(k) /\ results[1].type = "DATA" /\ Erases(stack') = {} /\ answers' = answers
    BY DEF GivesPiece
  <1>2. /\ 1 \in 1..Len(results) /\ callbacks[k].id = results[1].id /\ r \in Request
        /\ callbacks' = callbacks /\ url' = url /\ handed' = handed /\ worker' = worker
        /\ requests' = requests /\ nextId' = nextId
        /\ stack' \in Seq(Frame) /\ Quiet(stack')
        /\ \A i : ~Erasing(i)
        /\ \A c \in 1..Len(callbacks) : answers[callbacks[c].req] = 0
    BY <1>1, GivesFacts
  <1>3. /\ \A l \in 1..Len(results') :
              results'[l] = results[l + 1] /\ l + 1 \in 1..Len(results) /\ l \in Nat
        /\ \A l \in 1..Len(results) :
              l # 1 => l - 1 \in 1..Len(results') /\ results'[l - 1] = results[l]
    BY <1>1, GivesFacts
  <1>4. /\ results[1].piece = Len(got[r]) + 1 /\ Len(got[r]) + 1 <= handed[r]
        /\ Len(got[r]) \in Nat /\ got[r] \in Seq(1..MaxPieces)
        /\ results[1].piece \in 1..MaxPieces
    <2>1. results[1].piece = Len(got[r]) + 1 /\ Len(got[r]) + 1 <= handed[r]
      BY NextPiece
    <2>2. Len(got[r]) \in Nat /\ got[r] \in Seq(1..MaxPieces) /\ handed[r] \in 0..MaxPieces
      BY <1>2, GotFacts
    <2> QED
      BY <2>1, <2>2, WebclientTaskAssumption
  <1>5. /\ got'[r] = Append(got[r], results[1].piece)
        /\ \A q \in Request : q # r => got'[q] = got[q]
    BY <1>2, TFacts DEF GivesPiece, IInv
  <1>6. \A c \in 1..Len(callbacks) : callbacks[c].req = r => c = k
    BY DEF IInv, CallbackInv
  <1>7. \A c \in 1..Len(callbacks) : callbacks[c].id = callbacks[k].id => c = k
    BY DEF IInv, CallbackInv
  <1> HIDE DEF r
  <1>8. /\ got'[r] \in Seq(1..MaxPieces) /\ Len(got'[r]) = Len(got[r]) + 1
        /\ got'[r][Len(got[r]) + 1] = Len(got[r]) + 1
        /\ \A j \in 1..Len(got[r]) : got'[r][j] = got[r][j]
    BY <1>4, <1>5, AppendFacts
  <1>9. TInv /\ TInv'
    BY TGives DEF IInv
  <1>10. CallbackInv'
    BY <1>2 DEF IInv, CallbackInv
  <1>11. \A i, q : Has(i, q)' <=> Has(i, q)
    BY <1>2 DEF Has
  <1>12. \A i : /\ Waiting(i)' <=> Waiting(i)
                /\ Works(i)' <=> Works(i)
                /\ ~Erasing(i)'
    BY <1>1, <1>2 DEF Waiting, Works, Erasing
  <1>13. \A i : Done(i)' <=> Done(i)
    <2>1. ASSUME NEW i, Done(i)'
          PROVE  Done(i)
      <3>1. PICK l \in 1..Len(results') :
                results'[l].type = "DONE" /\ results'[l].id = i
        BY <2>1 DEF Done
      <3>2. l + 1 \in 1..Len(results) /\ results[l + 1] = results'[l]
        BY <1>3
      <3> QED
        BY <3>1, <3>2 DEF Done
    <2>2. ASSUME NEW i, Done(i)
          PROVE  Done(i)'
      <3>1. PICK l \in 1..Len(results) : results[l].type = "DONE" /\ results[l].id = i
        BY <2>2 DEF Done
      <3>2. l # 1
        BY <3>1, <1>1
      <3> QED
        BY <3>1, <3>2, <1>3 DEF Done
    <2> QED
      BY <2>1, <2>2
  <1>14. PlaceInv'
    <2>1. ASSUME NEW l \in 1..Len(results')
          PROVE  \E q \in Request : Has(results[l].id, q)'
      BY <1>3, <1>11 DEF IInv, PlaceInv
    <2>2. \A c \in 1..Len(callbacks) : \/ Waiting(callbacks[c].id) \/ Works(callbacks[c].id)
                                      \/ Done(callbacks[c].id)
      BY <1>2 DEF IInv, PlaceInv
    <2> QED
      BY <2>1, <2>2, <1>2, <1>11, <1>12, <1>13 DEF IInv, PlaceInv
  <1>15. OrderInv'
    <2>1. ASSUME NEW l \in 1..Len(results'), results'[l].type = "DATA"
          PROVE  Works(results[l].id)' \/ Done(results[l].id)'
      BY <2>1, <1>3, <1>12, <1>13 DEF IInv, OrderInv
    <2> QED
      BY <2>1, <1>1, OrderTaken
  <1>16. GotInv'
    <2> DEFINE n == Len(got[r])
    <2>1. got[r] = [j \in 1..n |-> j]
      BY <1>2 DEF IInv, GotInv
    <2>2. \A j \in 1..n : got[r][j] = j
      BY <2>1
    <2>3. \A j \in 1..n + 1 : got'[r][j] = j
      <3>1. /\ n \in Nat /\ got'[r][n + 1] = n + 1
            /\ \A j \in 1..n : got'[r][j] = got[r][j]
        BY <1>4, <1>8
      <3> HIDE DEF n
      <3>2. ASSUME NEW j \in 1..n + 1, j # n + 1 PROVE j \in 1..n
        BY <3>1, <3>2
      <3> QED
        BY <2>2, <3>1, <3>2
    <2>4. got'[r] = [j \in 1..Len(got'[r]) |-> j]
      <3>1. \A j \in 1..Len(got'[r]) : got'[r][j] = j
        BY <2>3, <1>4, <1>8
      <3> QED
        BY <3>1, <1>8, CountsUp
    <2>5. Len(got'[r]) <= handed'[r]
      BY <1>2, <1>4, <1>8
    <2> QED
      BY <2>4, <2>5, <1>2, <1>5 DEF IInv, GotInv
  <1>17. ASSUME NEW c \in 1..Len(callbacks), c # k
         PROVE  callbacks[c].req # r /\ got'[callbacks[c].req] = got[callbacks[c].req]
    BY <1>5, <1>6, <1>9, <1>17, CallbackFacts
  <1>18. PieceInv'
    <2>1. ASSUME NEW c \in 1..Len(callbacks'), NEW l \in 1..Len(results'),
                 results'[l].type = "DATA", results'[l].id = callbacks'[c].id
          PROVE  /\ url'[callbacks'[c].req] # "plain"
                 /\ Len(got'[callbacks'[c].req]) < results'[l].piece
                 /\ results'[l].piece <= handed'[callbacks'[c].req]
      <3>1. /\ c \in 1..Len(callbacks) /\ l + 1 \in 1..Len(results) /\ 1 < l + 1
            /\ results[l + 1].type = "DATA" /\ results[l + 1].id = callbacks[c].id
            /\ results'[l] = results[l + 1]
        BY <2>1, <1>2, <1>3
      <3>2. /\ url[callbacks[c].req] # "plain"
            /\ Len(got[callbacks[c].req]) < results[l + 1].piece
            /\ results[l + 1].piece <= handed[callbacks[c].req]
        BY <3>1 DEF IInv, PieceInv
      <3>3. CASE c = k
        <4>1. results[1].piece < results[l + 1].piece
          BY <3>1, <3>3, <1>1, <1>2 DEF IInv, OrderInv
        <4>2. Len(got'[r]) < results[l + 1].piece
          BY <4>1, <1>4, <1>8
        <4> QED
          BY <3>1, <3>2, <3>3, <4>2, <1>2 DEF r
      <3>4. CASE c # k
        BY <3>1, <3>2, <3>4, <1>2, <1>17
      <3> QED
        BY <3>3, <3>4
    <2> QED
      BY <2>1 DEF PieceInv
  <1>19. RestInv'
    <2>1. ASSUME NEW c \in 1..Len(callbacks'), NEW p \in 1..MaxPieces,
                 url'[callbacks'[c].req] # "plain", Len(got'[callbacks'[c].req]) < p,
                 p <= handed'[callbacks'[c].req]
          PROVE  Queued(callbacks[c].id, p)'
      <3>1. c \in 1..Len(callbacks)
        BY <1>2
      <3>2. Len(got[callbacks[c].req]) < p /\ (c = k => p # results[1].piece)
        <4>1. CASE c = k
          <5>1. Len(got[r]) + 1 < p
            BY <2>1, <4>1, <1>2, <1>8 DEF r
          <5> QED
            BY <4>1, <5>1, <1>4 DEF r
        <4>2. CASE c # k
          BY <2>1, <3>1, <4>2, <1>2, <1>17
        <4> QED
          BY <4>1, <4>2
      <3>3. Queued(callbacks[c].id, p)
        BY <2>1, <3>1, <3>2, <1>2 DEF IInv, RestInv
      <3>4. PICK l \in 1..Len(results) : /\ results[l].type = "DATA"
                                         /\ results[l].id = callbacks[c].id
                                         /\ results[l].piece = p
        BY <3>3 DEF Queued
      <3>5. l # 1
        BY <3>1, <3>2, <3>4, <1>2, <1>7
      <3>6. l - 1 \in 1..Len(results') /\ results'[l - 1] = results[l]
        BY <3>5, <1>3
      <3> QED
        BY <3>4, <3>6, <1>2 DEF Queued
    <2> QED
      BY <2>1 DEF RestInv
  <1>20. ASSUME NEW q \in Request
         PROVE  /\ Fresh(q)' => /\ answers'[q] = 0 /\ handed'[q] = 0
                                /\ \A c \in 1..Len(callbacks') : callbacks'[c].req # q
                /\ answers'[q] <= 1
                /\ answers'[q] > 0 => /\ worker'.req # q
                                      /\ url'[q] # "plain" => Len(got'[q]) = handed'[q]
    <2>1. Fresh(q)' => Fresh(q)
      BY <1>2, QuietFacts
    <2>2. ~(answers[r] > 0)
      BY <1>2 DEF r
    <2>3. answers[q] > 0 => got'[q] = got[q]
      BY <2>2, <1>5
    <2> QED
      BY <2>1, <2>3, <1>1, <1>2 DEF IInv, AnswerInv
  <1>21. \A j \in 1..Len(stack') : stack'[j].op = "enqueue" => url'[stack'[j].req] # "new"
    BY <1>2 DEF Quiet
  <1>22. \A c \in 1..Len(callbacks') :
            answers'[callbacks'[c].req] > 0 => Erasing(callbacks[c].id)'
    BY <1>1, <1>2
  <1>23. AnswerInv'
    BY <1>20, <1>21, <1>22 DEF AnswerInv
  <1> QED
    BY <1>9, <1>10, <1>14, <1>15, <1>16, <1>18, <1>19, <1>23 DEF IInv

\* onDone is called when the whole body was given.
LEMMA WholeBody ==
    ASSUME IInv, NEW k \in 1..Len(callbacks), GivesDone(k)
    PROVE  LET r == callbacks[k].req IN
           url[r] # "plain" => Len(got[r]) = handed[r]
  <1> DEFINE r == callbacks[k].req  i == callbacks[k].id  p == Len(got[r]) + 1
  <1> SUFFICES ASSUME url[r] # "plain", Len(got[r]) # handed[r] PROVE FALSE
    OBVIOUS
  <1>1. /\ Gives(k) /\ results[1].type = "DONE" /\ results[1].id = i
        /\ 1 \in 1..Len(results) /\ r \in Request
    BY GivesFacts DEF GivesDone
  <1>2. /\ Len(got[r]) \in Nat /\ Len(got[r]) <= handed[r]
        /\ handed[r] \in 0..MaxPieces /\ MaxPieces \in Nat
    BY <1>1, GotFacts, WebclientTaskAssumption
  <1>3. p \in 1..MaxPieces /\ Len(got[r]) < p /\ p <= handed[r]
    BY <1>2
  <1>4. PICK m \in 1..Len(results) :
            results[m].type = "DATA" /\ results[m].id = i /\ results[m].piece = p
    BY <1>3 DEF IInv, RestInv, Queued
  <1>5. m <= 1
    BY <1>1, <1>4 DEF IInv, OrderInv
  <1>6. m = 1
    BY <1>5
  <1> QED
    BY <1>1, <1>4, <1>6

LEMMA StepGivesDone ==
    ASSUME IInv, NEW k \in 1..Len(callbacks), GivesDone(k)
    PROVE  IInv'
  <1> DEFINE r == callbacks[k].req  id == callbacks[k].id
  <1>1. Gives(k) /\ results[1].type = "DONE" /\ Erases(stack') = {k} /\ got' = got
    BY DEF GivesDone
  <1>2. /\ 1 \in 1..Len(results) /\ id = results[1].id /\ r \in Request
        /\ callbacks' = callbacks /\ url' = url /\ handed' = handed /\ worker' = worker
        /\ requests' = requests /\ nextId' = nextId
        /\ stack' \in Seq(Frame) /\ Quiet(stack')
        /\ \A i : ~Erasing(i)
        /\ \A c \in 1..Len(callbacks) : answers[callbacks[c].req] = 0
    BY <1>1, GivesFacts
  <1>3. /\ \A l \in 1..Len(results') :
              results'[l] = results[l + 1] /\ l + 1 \in 1..Len(results) /\ l \in Nat
        /\ \A l \in 1..Len(results) :
              l # 1 => l - 1 \in 1..Len(results') /\ results'[l - 1] = results[l]
    BY <1>1, GivesFacts
  <1>4. url[r] # "plain" => Len(got[r]) = handed[r]
    BY WholeBody
  <1>5. answers'[r] = 1 /\ \A q \in Request : q # r => answers'[q] = answers[q]
    <2>1. answers[r] = 0
      BY <1>2
    <2>2. answers' = [answers EXCEPT ![r] = @ + 1] /\ answers \in [Request -> Nat]
      BY TFacts DEF GivesDone, IInv
    <2> QED
      BY <2>1, <2>2, <1>2
  <1>6. Has(id, r)
    BY CallbackFacts DEF IInv
  <1>7. \A c \in 1..Len(callbacks) : callbacks[c].req = r \/ callbacks[c].id = id => c = k
    BY DEF IInv, CallbackInv
  <1> HIDE DEF r, id
  <1>8. Done(id)
    BY <1>1, <1>2 DEF Done
  <1>9. TInv /\ TInv'
    BY TGives DEF IInv
  <1>10. CallbackInv'
    BY <1>2 DEF IInv, CallbackInv
  <1>11. \A i, q : Has(i, q)' <=> Has(i, q)
    BY <1>2 DEF Has
  <1>12. \A i : /\ Waiting(i)' <=> Waiting(i)
                /\ Works(i)' <=> Works(i)
                /\ Erasing(i)' <=> i = id
    BY <1>1, <1>2 DEF Waiting, Works, Erasing, id
  <1>13. \A l \in 1..Len(results') : results'[l].id # id
    <2>1. ASSUME NEW l \in 1..Len(results'), results'[l].id = id
          PROVE  FALSE
      <3>1. l + 1 \in 1..Len(results) /\ results[l + 1].id = results[1].id /\ l \in Nat
        BY <2>1, <1>2, <1>3
      <3>2. l + 1 <= 1
        BY <3>1, <1>1, <1>2 DEF IInv, OrderInv
      <3>3. l \in 1..Len(results') /\ l \in Nat
        BY <3>1
      <3>4. l # 0
        BY <3>3
      <3> QED
        BY <3>1, <3>2, <3>4
    <2> QED
      BY <2>1
  <1>14. \A i : Done(i)' <=> Done(i) /\ i # id
    <2>1. ASSUME NEW i, Done(i)'
          PROVE  Done(i) /\ i # id
      BY <2>1, <1>3, <1>13 DEF Done
    <2>2. ASSUME NEW i, Done(i), i # id
          PROVE  Done(i)'
      <3>1. PICK l \in 1..Len(results) : results[l].type = "DONE" /\ results[l].id = i
        BY <2>2 DEF Done
      <3>2. l # 1
        BY <3>1, <2>2, <1>2
      <3> QED
        BY <3>1, <3>2, <1>3 DEF Done
    <2> QED
      BY <2>1, <2>2
  <1>15. PlaceInv'
    <2>1. ASSUME NEW j \in 1..Len(requests')
          PROVE  /\ Has(requests[j].id, requests[j].req)' /\ ~Works(requests[j].id)'
                 /\ ~Done(requests[j].id)' /\ ~Erasing(requests[j].id)'
      BY <1>2, <1>8, <1>11, <1>12, <1>14 DEF IInv, PlaceInv
    <2>2. worker'.at # "receive" => /\ Has(worker.id, worker.req)'
                                    /\ ~Done(worker.id)' /\ ~Erasing(worker.id)'
      BY <1>2, <1>8, <1>11, <1>12, <1>14 DEF IInv, PlaceInv
    <2>3. ASSUME NEW l \in 1..Len(results')
          PROVE  (\E q \in Request : Has(results[l].id, q)') /\ ~Erasing(results[l].id)'
      BY <1>3, <1>11, <1>12, <1>13 DEF IInv, PlaceInv
    <2>4. ASSUME NEW c \in 1..Len(callbacks')
          PROVE  \/ Waiting(callbacks[c].id)' \/ Works(callbacks[c].id)'
                 \/ Done(callbacks[c].id)' \/ Erasing(callbacks[c].id)'
      BY <1>2, <1>12, <1>14 DEF IInv, PlaceInv
    <2>5. \A j, l \in 1..Len(requests') : requests'[j].id = requests'[l].id => j = l
      BY <1>2 DEF IInv, PlaceInv
    <2> QED
      BY <2>1, <2>2, <2>3, <2>4, <2>5 DEF PlaceInv
  <1>16. OrderInv'
    <2>1. ASSUME NEW l \in 1..Len(results'), results'[l].type = "DATA"
          PROVE  Works(results[l].id)' \/ Done(results[l].id)'
      BY <2>1, <1>3, <1>12, <1>13, <1>14 DEF IInv, OrderInv
    <2> QED
      BY <2>1, <1>1, OrderTaken
  <1>17. GotInv'
    BY <1>1, <1>2 DEF IInv, GotInv
  <1>18. PieceInv'
    <2>1. ASSUME NEW c \in 1..Len(callbacks'), NEW l \in 1..Len(results'),
                 results'[l].type = "DATA", results'[l].id = callbacks'[c].id
          PROVE  /\ url'[callbacks'[c].req] # "plain"
                 /\ Len(got'[callbacks'[c].req]) < results'[l].piece
                 /\ results'[l].piece <= handed'[callbacks'[c].req]
      <3>1. /\ c \in 1..Len(callbacks) /\ l + 1 \in 1..Len(results)
            /\ results'[l] = results[l + 1]
        BY <1>2, <1>3
      <3>2. results[l + 1].type = "DATA" /\ results[l + 1].id = callbacks[c].id
        BY <2>1, <3>1, <1>2
      <3>3. /\ url[callbacks[c].req] # "plain"
            /\ Len(got[callbacks[c].req]) < results[l + 1].piece
            /\ results[l + 1].piece <= handed[callbacks[c].req]
        BY <3>1, <3>2 DEF IInv, PieceInv
      <3> QED
        BY <3>1, <3>3, <1>1, <1>2
    <2> QED
      BY <2>1 DEF PieceInv
  <1>19. RestInv'
    <2>1. ASSUME NEW c \in 1..Len(callbacks'), NEW p \in 1..MaxPieces,
                 url'[callbacks'[c].req] # "plain", Len(got'[callbacks'[c].req]) < p,
                 p <= handed'[callbacks'[c].req]
          PROVE  Queued(callbacks[c].id, p)'
      <3>1. Queued(callbacks[c].id, p)
        BY <2>1, <1>1, <1>2 DEF IInv, RestInv
      <3>2. PICK l \in 1..Len(results) : /\ results[l].type = "DATA"
                                         /\ results[l].id = callbacks[c].id
                                         /\ results[l].piece = p
        BY <3>1 DEF Queued
      <3>3. l # 1
        BY <3>2, <1>1
      <3>4. /\ l - 1 \in 1..Len(results') /\ results'[l - 1] = results[l]
            /\ callbacks' = callbacks
        BY <3>2, <3>3, <1>2, <1>3
      <3> QED
        BY <3>2, <3>4 DEF Queued
    <2> QED
      BY <2>1 DEF RestInv
  <1>20. worker.req # r
    <2>1. CASE worker.at = "receive"
      BY <2>1, <1>2, <1>9, TFacts, WebclientTaskAssumption DEF WorkInv
    <2>2. CASE worker.at # "receive"
      <3>1. PICK c \in 1..Len(callbacks) :
                callbacks[c].id = worker.id /\ callbacks[c].req = worker.req
        BY <2>2, WorkerFacts
      <3>2. worker.id # id
        BY <2>2, <1>8 DEF IInv, PlaceInv
      <3> QED
        BY <3>1, <3>2, <1>7 DEF id
    <2> QED
      BY <2>1, <2>2
  <1>21. ASSUME NEW q \in Request
         PROVE  /\ Fresh(q)' => /\ answers'[q] = 0 /\ handed'[q] = 0
                                /\ \A c \in 1..Len(callbacks') : callbacks'[c].req # q
                /\ answers'[q] <= 1
                /\ answers'[q] > 0 => /\ worker'.req # q
                                      /\ url'[q] # "plain" => Len(got'[q]) = handed'[q]
    <2>1. Fresh(q)' => Fresh(q)
      BY <1>2, QuietFacts
    <2>2. Fresh(q) => q # r
      BY DEF IInv, AnswerInv, r
    <2>3. CASE q = r
      BY <2>1, <2>2, <2>3, <1>1, <1>2, <1>4, <1>5, <1>20
    <2>4. CASE q # r
      BY <2>1, <2>4, <1>1, <1>2, <1>5 DEF IInv, AnswerInv
    <2> QED
      BY <2>3, <2>4
  <1>22. \A j \in 1..Len(stack') : stack'[j].op = "enqueue" => url'[stack'[j].req] # "new"
    BY <1>2 DEF Quiet
  <1>23. \A c \in 1..Len(callbacks') :
            answers'[callbacks'[c].req] > 0 => Erasing(callbacks[c].id)'
    <2>1. ASSUME NEW c \in 1..Len(callbacks), answers'[callbacks[c].req] > 0
          PROVE  callbacks[c].id = id
      <3>1. callbacks[c].req \in Request /\ answers[callbacks[c].req] = 0
        BY <1>2, <1>9, CallbackFacts
      <3>2. callbacks[c].req = r
        BY <2>1, <3>1, <1>5
      <3> QED
        BY <3>2, <1>7 DEF id
    <2> QED
      BY <2>1, <1>2, <1>12
  <1>24. AnswerInv'
    BY <1>21, <1>22, <1>23 DEF AnswerInv
  <1> QED
    BY <1>9, <1>10, <1>15, <1>16, <1>17, <1>18, <1>19, <1>24 DEF IInv

\* The vector without the callbacks at p.
LEMMA RemovesCallbacks ==
    ASSUME IInv, NEW p \in 1..Len(callbacks), Removes(p)
    PROVE  /\ \A c \in 1..Len(callbacks') :
                 LET d == IF c < p THEN c ELSE c + 1
                 IN  d \in 1..Len(callbacks) /\ d # p /\ callbacks'[c] = callbacks[d]
           /\ \A c, d \in 1..Len(callbacks') :
                 (IF c < p THEN c ELSE c + 1) = (IF d < p THEN d ELSE d + 1) => c = d
           /\ \A d \in 1..Len(callbacks) :
                 d # p => \E c \in 1..Len(callbacks') : callbacks'[c] = callbacks[d]
  <1>1. callbacks \in Seq(Pair) /\ callbacks' = RemoveAt(callbacks, p)
    BY TFacts DEF IInv, Removes
  <1>2. /\ Len(callbacks') = Len(callbacks) - 1 /\ Len(callbacks) \in Nat
        /\ \A c \in 1..Len(callbacks) - 1 :
              callbacks'[c] = IF c < p THEN callbacks[c] ELSE callbacks[c + 1]
    BY <1>1, RemoveFacts
  <1>3. p \in Nat /\ 1 <= p /\ p <= Len(callbacks)
    OBVIOUS
  <1>4. ASSUME NEW c \in 1..Len(callbacks')
        PROVE  LET d == IF c < p THEN c ELSE c + 1
               IN  d \in 1..Len(callbacks) /\ d # p /\ callbacks'[c] = callbacks[d]
    <2>1. c \in 1..Len(callbacks) - 1 /\ c \in Nat
      BY <1>2
    <2>2. CASE c < p
      BY <2>1, <2>2, <1>2, <1>3
    <2>3. CASE ~(c < p)
      BY <2>1, <2>3, <1>2, <1>3
    <2> QED
      BY <2>2, <2>3
  <1>5. ASSUME NEW c \in 1..Len(callbacks'), NEW d \in 1..Len(callbacks'),
               (IF c < p THEN c ELSE c + 1) = (IF d < p THEN d ELSE d + 1)
        PROVE  c = d
    BY <1>2, <1>3, <1>5
  <1>6. ASSUME NEW d \in 1..Len(callbacks), d # p
        PROVE  \E c \in 1..Len(callbacks') : callbacks'[c] = callbacks[d]
    <2>1. CASE d < p
      <3>1. d \in 1..Len(callbacks) - 1
        BY <2>1, <1>2, <1>3
      <3> QED
        BY <2>1, <3>1, <1>2
    <2>2. CASE ~(d < p)
      <3>1. d - 1 \in 1..Len(callbacks) - 1 /\ ~(d - 1 < p) /\ (d - 1) + 1 = d
        BY <2>2, <1>2, <1>3, <1>6
      <3>2. callbacks'[d - 1] = callbacks[d]
        BY <3>1, <1>2
      <3> QED
        BY <3>1, <3>2, <1>2
    <2> QED
      BY <2>1, <2>2
  <1> QED
    BY <1>4, <1>5, <1>6

LEMMA StepRemoves ==
    ASSUME IInv, NEW p \in 1..Len(callbacks), Removes(p)
    PROVE  IInv'
  <1> DEFINE id == callbacks[p].id  At0(c) == IF c < p THEN c ELSE c + 1
  <1>1. TInv /\ TInv'
    BY TRemoves DEF IInv
  <1>2. /\ stack' = <<>> /\ Erases(stack) = {p}
        /\ UNCHANGED <<requests, results, nextId, worker, url, answers, handed, got>>
    BY HandsSame DEF Removes
  <1>3. \A c \in 1..Len(callbacks') :
           At0(c) \in 1..Len(callbacks) /\ At0(c) # p /\ callbacks'[c] = callbacks[At0(c)]
    BY RemovesCallbacks
  <1>4. \A c, d \in 1..Len(callbacks') : At0(c) = At0(d) => c = d
    BY RemovesCallbacks
  <1>5. \A d \in 1..Len(callbacks) :
            d # p => \E c \in 1..Len(callbacks') : callbacks'[c] = callbacks[d]
    BY RemovesCallbacks
  <1> HIDE DEF At0
  <1>6. Erasing(id)
    BY <1>2 DEF Erasing
  <1>7. \A i : Erasing(i) => i = id
    BY <1>2 DEF Erasing
  <1>8. \A i : ~Erasing(i)'
    BY <1>2, EmptyFacts DEF Erasing
  <1>9. \A d \in 1..Len(callbacks) : callbacks[d].id = id => d = p
    BY DEF IInv, CallbackInv
  <1> HIDE DEF id
  <1>10. \A i, q : Has(i, q) /\ i # id => Has(i, q)'
    <2>1. ASSUME NEW i, NEW q, Has(i, q), i # id
          PROVE  Has(i, q)'
      <3>1. PICK d \in 1..Len(callbacks) : callbacks[d].id = i /\ callbacks[d].req = q
        BY <2>1 DEF Has
      <3>2. d # p
        BY <2>1, <3>1 DEF id
      <3> QED
        BY <3>1, <3>2, <1>5 DEF Has
    <2> QED
      BY <2>1
  <1>11. \A i : /\ Waiting(i)' <=> Waiting(i)
                /\ Works(i)' <=> Works(i)
                /\ Done(i)' <=> Done(i)
    BY <1>2 DEF Waiting, Works, Done
  <1>12. \A c \in 1..Len(callbacks') : callbacks[At0(c)].id # id
    BY <1>3, <1>9
  <1>13. CallbackInv'
    <2>1. \A c \in 1..Len(callbacks') : callbacks'[c].id < nextId'
      BY <1>2, <1>3 DEF IInv, CallbackInv
    <2>2. ASSUME NEW c \in 1..Len(callbacks'), NEW d \in 1..Len(callbacks'),
                 \/ callbacks'[c].id = callbacks'[d].id
                 \/ callbacks'[c].req = callbacks'[d].req
          PROVE  c = d
      <3>1. /\ callbacks'[c] = callbacks[At0(c)] /\ At0(c) \in 1..Len(callbacks)
            /\ callbacks'[d] = callbacks[At0(d)] /\ At0(d) \in 1..Len(callbacks)
        BY <1>3
      <3>2. At0(c) = At0(d)
        BY <2>2, <3>1 DEF IInv, CallbackInv
      <3> QED
        BY <3>2, <1>4
    <2> QED
      BY <2>1, <2>2 DEF CallbackInv
  <1>14. PlaceInv'
    <2>1. ASSUME NEW k \in 1..Len(requests')
          PROVE  /\ Has(requests[k].id, requests[k].req)' /\ ~Works(requests[k].id)'
                 /\ ~Done(requests[k].id)' /\ ~Erasing(requests[k].id)'
      BY <1>2, <1>6, <1>8, <1>10, <1>11 DEF IInv, PlaceInv
    <2>2. worker'.at # "receive" => /\ Has(worker.id, worker.req)'
                                    /\ ~Done(worker.id)' /\ ~Erasing(worker.id)'
      BY <1>2, <1>6, <1>8, <1>10, <1>11 DEF IInv, PlaceInv
    <2>3. ASSUME NEW l \in 1..Len(results')
          PROVE  (\E q \in Request : Has(results[l].id, q)') /\ ~Erasing(results[l].id)'
      BY <1>2, <1>6, <1>8, <1>10 DEF IInv, PlaceInv
    <2>4. ASSUME NEW c \in 1..Len(callbacks')
          PROVE  \/ Waiting(callbacks[c].id)' \/ Works(callbacks[c].id)'
                 \/ Done(callbacks[c].id)' \/ Erasing(callbacks[c].id)'
      <3>1. ~Erasing(callbacks[At0(c)].id)
        BY <1>7, <1>12
      <3> QED
        BY <3>1, <1>3, <1>11 DEF IInv, PlaceInv
    <2>5. \A j, l \in 1..Len(requests') : requests'[j].id = requests'[l].id => j = l
      BY <1>2 DEF IInv, PlaceInv
    <2> QED
      BY <2>1, <2>2, <2>3, <2>4, <2>5 DEF PlaceInv
  <1>15. OrderInv'
    BY <1>2, <1>11 DEF IInv, OrderInv
  <1>16. GotInv'
    BY <1>2 DEF IInv, GotInv
  <1>17. PieceInv'
    BY <1>2, <1>3 DEF IInv, PieceInv
  <1>18. RestInv'
    <2>1. \A i, n : Queued(i, n)' <=> Queued(i, n)
      BY <1>2 DEF Queued
    <2> QED
      BY <2>1, <1>2, <1>3 DEF IInv, RestInv
  <1>19. ASSUME NEW q \in Request
         PROVE  /\ Fresh(q)' => /\ answers'[q] = 0 /\ handed'[q] = 0
                                /\ \A c \in 1..Len(callbacks') : callbacks'[c].req # q
                /\ answers'[q] <= 1
                /\ answers'[q] > 0 => /\ worker'.req # q
                                      /\ url'[q] # "plain" => Len(got'[q]) = handed'[q]
    <2>1. Fresh(q)' => Fresh(q)
      BY <1>2 DEF Fresh
    <2>2. Fresh(q)' => /\ answers'[q] = 0 /\ handed'[q] = 0
                       /\ \A c \in 1..Len(callbacks') : callbacks'[c].req # q
      BY <2>1, <1>2, <1>3 DEF IInv, AnswerInv
    <2> QED
      BY <2>2, <1>2 DEF IInv, AnswerInv
  <1>20. \A j \in 1..Len(stack') : stack'[j].op = "enqueue" => url'[stack'[j].req] # "new"
    <2>1. Len(stack') = 0
      BY <1>2
    <2> QED
      BY <2>1
  <1>21. \A c \in 1..Len(callbacks') :
            answers'[callbacks'[c].req] > 0 => Erasing(callbacks[c].id)'
    <2>1. ASSUME NEW c \in 1..Len(callbacks')
          PROVE  ~(answers'[callbacks'[c].req] > 0)
      <3>1. ~Erasing(callbacks[At0(c)].id)
        BY <1>7, <1>12
      <3> QED
        BY <3>1, <1>2, <1>3 DEF IInv, AnswerInv
    <2> QED
      BY <2>1
  <1>22. AnswerInv'
    BY <1>19, <1>20, <1>21 DEF AnswerInv
  <1> QED
    BY <1>1, <1>13, <1>14, <1>15, <1>16, <1>17, <1>18, <1>22 DEF IInv

LEMMA StepTakes ==
    ASSUME IInv, Takes
    PROVE  IInv'
  <1> DEFINE id == requests[1].id  r == requests[1].req
  <1>1. TInv /\ TInv'
    BY TTakes DEF IInv
  <1>2. /\ requests # <<>> /\ requests[1] \in Pair /\ worker.at = "receive"
        /\ worker'.at # "receive" /\ worker'.req = r /\ worker'.id = id
        /\ requests' = Tail(requests)
        /\ UNCHANGED <<results, callbacks, nextId, stack, url, answers, handed, got>>
    BY TakesFacts, HandsSame DEF IInv, Takes
  <1>3. /\ Len(requests) \in Nat \ {0} /\ Len(requests') = Len(requests) - 1
        /\ \A k \in 1..Len(requests) - 1 : requests'[k] = requests[k + 1]
    BY <1>2, TFacts, TakeFacts DEF IInv
  <1>4. Len(requests) \in Nat /\ Len(requests) # 0
    BY <1>3
  <1>5. 1 \in 1..Len(requests)
    BY <1>4
  <1>6. ASSUME NEW k \in 1..Len(requests')
        PROVE  requests'[k] = requests[k + 1] /\ k + 1 \in 1..Len(requests) /\ k + 1 # 1
    <2>1. k \in 1..Len(requests) - 1 /\ k + 1 \in 1..Len(requests) /\ k + 1 # 1
      BY <1>3, <1>4, PlaceBelow
    <2> QED
      BY <2>1, <1>3
  <1>7. ASSUME NEW k \in 1..Len(requests), k # 1
        PROVE  k - 1 \in 1..Len(requests') /\ requests'[k - 1] = requests[k]
    <2>1. k - 1 \in 1..Len(requests) - 1 /\ (k - 1) + 1 = k
      BY <1>4, <1>7
    <2>2. requests'[k - 1] = requests[(k - 1) + 1]
      BY <2>1, <1>3
    <2> QED
      BY <2>1, <2>2, <1>3
  <1>8. Has(id, r) /\ ~Done(id) /\ ~Erasing(id) /\ ~Works(id)
    BY <1>5 DEF IInv, PlaceInv
  <1>9. \A k \in 1..Len(requests') : requests'[k].id # id
    BY <1>5, <1>6 DEF IInv, PlaceInv
  <1> HIDE DEF id, r
  <1>10. /\ \A i, q : Has(i, q)' <=> Has(i, q)
         /\ \A i : Done(i)' <=> Done(i)
         /\ \A i : Erasing(i)' <=> Erasing(i)
         /\ \A i : Works(i)' <=> i = id
         /\ \A i : ~Works(i)
    BY <1>2 DEF Has, Done, Erasing, Works
  <1>11. \A i : Waiting(i) /\ i # id => Waiting(i)'
    BY <1>7 DEF Waiting, id
  <1>12. CallbackInv'
    BY <1>2 DEF IInv, CallbackInv
  <1>13. PlaceInv'
    <2>1. ASSUME NEW k \in 1..Len(requests')
          PROVE  /\ Has(requests[k].id, requests[k].req)' /\ ~Works(requests[k].id)'
                 /\ ~Done(requests[k].id)' /\ ~Erasing(requests[k].id)'
      BY <1>6, <1>9, <1>10 DEF IInv, PlaceInv
    <2>2. /\ Has(worker.id, worker.req)'
          /\ ~Done(worker.id)' /\ ~Erasing(worker.id)'
      BY <1>2, <1>8, <1>10
    <2>3. ASSUME NEW l \in 1..Len(results')
          PROVE  (\E q \in Request : Has(results[l].id, q)') /\ ~Erasing(results[l].id)'
      BY <1>2, <1>10 DEF IInv, PlaceInv
    <2>4. ASSUME NEW c \in 1..Len(callbacks')
          PROVE  \/ Waiting(callbacks[c].id)' \/ Works(callbacks[c].id)'
                 \/ Done(callbacks[c].id)' \/ Erasing(callbacks[c].id)'
      BY <1>2, <1>10, <1>11 DEF IInv, PlaceInv
    <2>5. ASSUME NEW j \in 1..Len(requests'), NEW l \in 1..Len(requests'),
                 requests'[j].id = requests'[l].id
          PROVE  j = l
      <3>1. /\ j + 1 \in 1..Len(requests) /\ l + 1 \in 1..Len(requests)
            /\ requests[j + 1].id = requests[l + 1].id
        BY <2>5, <1>6
      <3>2. \A k, m \in 1..Len(requests) : requests[k].id = requests[m].id => k = m
        BY DEF IInv, PlaceInv
      <3>3. j + 1 = l + 1 /\ j \in Int /\ l \in Int
        BY <3>1, <3>2, <2>5
      <3> QED
        BY <3>3
    <2> QED
      BY <2>1, <2>2, <2>3, <2>4, <2>5 DEF PlaceInv
  <1>14. OrderInv'
    BY <1>2, <1>10 DEF IInv, OrderInv
  <1>15. GotInv' /\ PieceInv' /\ RestInv'
    BY <1>2, BodySame DEF IInv
  <1>16. ASSUME NEW q \in Request
         PROVE  /\ Fresh(q)' => /\ answers'[q] = 0 /\ handed'[q] = 0
                                /\ \A c \in 1..Len(callbacks') : callbacks'[c].req # q
                /\ answers'[q] <= 1
                /\ answers'[q] > 0 => /\ worker'.req # q
                                      /\ url'[q] # "plain" => Len(got'[q]) = handed'[q]
    <2>1. Fresh(q)' <=> Fresh(q)
      BY <1>2 DEF Fresh
    <2>2. answers[q] > 0 => q # r
      <3>1. PICK c \in 1..Len(callbacks) : callbacks[c].id = id /\ callbacks[c].req = r
        BY <1>8 DEF Has
      <3>2. ~(answers[r] > 0)
        BY <3>1, <1>8 DEF IInv, AnswerInv
      <3> QED
        BY <3>2
    <2> QED
      BY <2>1, <2>2, <1>2 DEF IInv, AnswerInv
  <1>17. AnswerInv'
    BY <1>2, <1>10, <1>16 DEF IInv, AnswerInv
  <1> QED
    BY <1>1, <1>12, <1>13, <1>14, <1>15, <1>17 DEF IInv

\* The worker hands over a piece.
LEMMA PieceHands ==
    ASSUME IInv, CutInv, Piece
    PROVE  /\ handed' = [handed EXCEPT ![worker.req] = @ + 1]
           /\ handed[worker.req] = read[worker.req]
  <1>1. /\ worker.req \notin cut /\ worker.req \in Request /\ cut' = cut
        /\ read' = [read EXCEPT ![worker.req] = @ + 1]
        /\ read \in [Request -> 0 .. MaxPieces]
    BY PieceFacts, TFacts DEF IInv, CutInv
  <1>2. /\ handed[worker.req] = read[worker.req]
        /\ \A r \in Request : r # worker.req => handed'[r] = handed[r]
        /\ handed'[worker.req] = handed[worker.req] + 1
    BY <1>1 DEF handed
  <1>3. /\ handed = [r \in Request |-> handed[r]]
        /\ handed' = [r \in Request |-> handed'[r]]
    BY DEF handed
  <1> QED
    BY <1>1, <1>2, <1>3

LEMMA StepPiece ==
    ASSUME IInv, CutInv, Piece
    PROVE  IInv'
  <1> DEFINE r == worker.req  id == worker.id  n == Len(results)
  <1>1. TInv /\ TInv'
    BY TPiece DEF IInv
  <1>2. /\ worker.at = "body" /\ r \in Request
        /\ handed' = [handed EXCEPT ![r] = @ + 1] /\ handed[r] + 1 \in 1..MaxPieces
        /\ UNCHANGED <<requests, callbacks, nextId, stack, url, answers, worker, got>>
        /\ url[r] # "plain" /\ results' = Append(results, PieceRead)
        /\ PieceRead \in Entry /\ PieceRead.type = "DATA"
        /\ PieceRead.id = id /\ PieceRead.piece = handed[r] + 1
    BY <1>1, PieceFacts, PieceHands DEF main
  <1>3. /\ handed \in [Request -> 0..MaxPieces] /\ MaxPieces \in Nat
        /\ handed'[r] = handed[r] + 1 /\ handed[r] \in Nat
        /\ \A q \in Request : q # r => handed'[q] = handed[q]
    BY <1>1, <1>2, TFacts, WebclientTaskAssumption
  <1>4. Works(id) /\ ~Done(id) /\ ~Erasing(id) /\ Has(id, r)
    BY <1>2 DEF IInv, PlaceInv, Works
  <1>5. \A c \in 1..Len(callbacks) : callbacks[c].id = id <=> callbacks[c].req = r
    BY <1>2, WorkerFacts
  <1>6. /\ Len(got[r]) \in Nat /\ Len(got[r]) <= handed[r]
        /\ \A q \in Request : Len(got[q]) <= handed[q] /\ handed[q] \in Nat
    BY <1>2, GotFacts
  <1> HIDE DEF r, id
  <1>7. CallbackInv'
    BY <1>2 DEF IInv, CallbackInv
  <1>8. /\ \A i, q : Has(i, q)' <=> Has(i, q)
        /\ \A i : /\ Waiting(i)' <=> Waiting(i)
                  /\ Works(i)' <=> Works(i)
                  /\ Erasing(i)' <=> Erasing(i)
    BY <1>2 DEF Has, Waiting, Works, Erasing
  \* The results as they were, and the piece at their end.
  <1>9. /\ n \in Nat /\ n <= Len(results')
        /\ \A k \in 1..n : k \in 1..Len(results') /\ results'[k] = results[k]
        /\ \A k \in 1..Len(results') : k \in 1..n \/ k = n + 1
        /\ n + 1 \in 1..Len(results') /\ results'[n + 1] = PieceRead
    <2>1. results \in Seq(Entry) /\ n \in Nat
      BY <1>1, TFacts
    <2>2. /\ Len(results') = n + 1 /\ results'[n + 1] = PieceRead
          /\ \A k \in 1..n : results'[k] = results[k]
      BY <2>1, <1>2, AppendFacts
    <2> QED
      BY <2>1, <2>2
  <1>10. \A i : Done(i)' <=> Done(i)
    <2>1. ASSUME NEW i, Done(i)
          PROVE  Done(i)'
      BY <2>1, <1>9 DEF Done
    <2>2. ASSUME NEW i, Done(i)'
          PROVE  Done(i)
      <3>1. PICK k \in 1..Len(results') : results'[k].type = "DONE" /\ results'[k].id = i
        BY <2>2 DEF Done
      <3>2. k # n + 1
        BY <3>1, <1>2, <1>9
      <3> QED
        BY <3>1, <3>2, <1>9 DEF Done
    <2> QED
      BY <2>1, <2>2
  <1>11. \A k \in 1..n : results[k].id = id => results[k].type = "DATA"
    <2>1. \A k \in 1..n : results[k].type \in {"DATA", "DONE"}
      BY <1>1, TFacts, AmongFacts, EntryFacts
    <2> QED
      BY <2>1, <1>4 DEF Done
  <1>12. \A k \in 1..n : results[k].id = id => results[k].piece < handed[r] + 1
    <2>1. ASSUME NEW k \in 1..n, results[k].id = id
          PROVE  results[k].piece < handed[r] + 1
      <3>1. PICK c \in 1..Len(callbacks) : callbacks[c].id = id /\ callbacks[c].req = r
        BY <1>4 DEF Has
      <3>2. results[k].piece <= handed[r]
        BY <2>1, <3>1, <1>11 DEF IInv, PieceInv
      <3>3. results[k].piece \in 0..MaxPieces
        BY <1>1, TFacts, AmongFacts, EntryFacts
      <3> QED
        BY <3>2, <3>3, <1>3
    <2> QED
      BY <2>1
  <1>13. PlaceInv'
    <2>1. ASSUME NEW k \in 1..Len(results')
          PROVE  (\E q \in Request : Has(results[k].id, q)') /\ ~Erasing(results[k].id)'
      <3>1. CASE k \in 1..n
        BY <3>1, <1>8, <1>9 DEF IInv, PlaceInv
      <3>2. CASE k = n + 1
        <4>1. results'[k].id = id
          BY <3>2, <1>2, <1>9
        <4> QED
          BY <4>1, <1>2, <1>4, <1>8
      <3> QED
        BY <3>1, <3>2, <1>9
    <2> QED
      BY <2>1, <1>2, <1>8, <1>10 DEF IInv, PlaceInv
  <1>14. OrderInv'
    <2>1. ASSUME NEW k \in 1..Len(results'), NEW l \in 1..Len(results'),
                 results'[k].id = results'[l].id, results'[k].type = "DONE"
          PROVE  l <= k
      <3>1. k \in 1..n
        BY <2>1, <1>2, <1>9
      <3>2. CASE l \in 1..n
        BY <2>1, <3>1, <3>2, <1>9 DEF IInv, OrderInv
      <3>3. CASE l = n + 1
        <4>1. results[k].id = id /\ results[k].type = "DONE"
          BY <2>1, <3>1, <3>3, <1>2, <1>9
        <4> QED
          BY <4>1, <3>1, <1>11
      <3> QED
        BY <3>2, <3>3, <1>9
    <2>2. ASSUME NEW k \in 1..Len(results'), results'[k].type = "DATA"
          PROVE  Works(results[k].id)' \/ Done(results[k].id)'
      <3>1. CASE k \in 1..n
        BY <2>2, <3>1, <1>8, <1>9, <1>10 DEF IInv, OrderInv
      <3>2. CASE k = n + 1
        <4>1. results'[k].id = id
          BY <3>2, <1>2, <1>9
        <4> QED
          BY <4>1, <1>4, <1>8
      <3> QED
        BY <3>1, <3>2, <1>9
    <2>3. ASSUME NEW k \in 1..Len(results'), NEW l \in 1..Len(results'),
                 results'[k].id = results'[l].id, results'[k].type = "DATA",
                 results'[l].type = "DATA", k < l
          PROVE  results'[k].piece < results'[l].piece
      <3>1. CASE l \in 1..n
        <4>1. k \in 1..n
          BY <2>3, <3>1, <1>9
        <4> QED
          BY <2>3, <3>1, <4>1, <1>9 DEF IInv, OrderInv
      <3>2. CASE l = n + 1
        <4>1. k \in 1..n
          BY <2>3, <3>2, <1>9
        <4>2. results[k].id = id /\ results'[l].piece = handed[r] + 1 /\ results'[k] = results[k]
          BY <2>3, <3>2, <4>1, <1>2, <1>9
        <4> QED
          BY <4>1, <4>2, <1>12
      <3> QED
        BY <3>1, <3>2, <1>9
    <2> QED
      BY <2>1, <2>2, <2>3 DEF OrderInv
  <1>15. GotInv'
    <2>1. ASSUME NEW q \in Request
          PROVE  Len(got[q]) <= handed'[q]
      <3>1. CASE q = r
        BY <3>1, <1>3, <1>6
      <3>2. CASE q # r
        BY <3>2, <1>3, <1>6
      <3> QED
        BY <3>1, <3>2
    <2> QED
      BY <2>1, <1>2 DEF IInv, GotInv
  <1>16. PieceInv'
    <2>1. ASSUME NEW c \in 1..Len(callbacks'), NEW k \in 1..Len(results'),
                 results'[k].type = "DATA", results'[k].id = callbacks'[c].id
          PROVE  /\ url'[callbacks'[c].req] # "plain"
                 /\ Len(got'[callbacks'[c].req]) < results'[k].piece
                 /\ results'[k].piece <= handed'[callbacks'[c].req]
      <3>1. c \in 1..Len(callbacks) /\ callbacks[c].req \in Request
        BY <1>1, <1>2, CallbackFacts
      <3>2. CASE k \in 1..n
        <4>1. /\ url[callbacks[c].req] # "plain"
              /\ Len(got[callbacks[c].req]) < results[k].piece
              /\ results[k].piece <= handed[callbacks[c].req]
          BY <2>1, <3>1, <3>2, <1>2, <1>9 DEF IInv, PieceInv
        <4>2. results[k].piece \in 0..MaxPieces
          BY <3>2, <1>1, TFacts, AmongFacts, EntryFacts
        <4>3. results[k].piece <= handed'[callbacks[c].req]
          <5>1. CASE callbacks[c].req = r
            BY <5>1, <4>1, <4>2, <1>3
          <5>2. CASE callbacks[c].req # r
            BY <5>2, <4>1, <3>1, <1>3
          <5> QED
            BY <5>1, <5>2
        <4> QED
          BY <4>1, <4>3, <3>2, <1>2, <1>9
      <3>3. CASE k = n + 1
        <4>1. results'[k].id = id /\ results'[k].piece = handed[r] + 1
          BY <3>3, <1>2, <1>9
        <4>2. callbacks[c].req = r
          BY <2>1, <3>1, <4>1, <1>2, <1>5
        <4>3. Len(got[r]) < handed[r] + 1 /\ handed[r] + 1 <= handed'[r]
          BY <1>3, <1>6
        <4> QED
          BY <3>3, <4>1, <4>2, <4>3, <1>2
      <3> QED
        BY <3>2, <3>3, <1>9
    <2> QED
      BY <2>1 DEF PieceInv
  <1>17. RestInv'
    <2>1. ASSUME NEW c \in 1..Len(callbacks'), NEW p \in 1..MaxPieces,
                 url'[callbacks'[c].req] # "plain", Len(got'[callbacks'[c].req]) < p,
                 p <= handed'[callbacks'[c].req]
          PROVE  Queued(callbacks[c].id, p)'
      <3>1. c \in 1..Len(callbacks) /\ callbacks[c].req \in Request
        BY <1>1, <1>2, CallbackFacts
      <3>2. CASE p <= handed[callbacks[c].req]
        <4>1. Queued(callbacks[c].id, p)
          BY <2>1, <3>1, <3>2, <1>2 DEF IInv, RestInv
        <4> QED
          BY <4>1, <1>2, <1>9 DEF Queued
      <3>3. CASE ~(p <= handed[callbacks[c].req])
        <4>1. callbacks[c].req = r
          BY <2>1, <3>1, <3>3, <1>2, <1>3
        <4>2. p = handed[r] + 1 /\ url[r] # "plain"
          BY <2>1, <3>3, <4>1, <1>2, <1>3
        <4>3. callbacks[c].id = id
          BY <3>1, <4>1, <1>5
        <4>4. /\ n + 1 \in 1..Len(results') /\ results'[n + 1].type = "DATA"
              /\ results'[n + 1].id = id /\ results'[n + 1].piece = p
          BY <4>2, <1>2, <1>9
        <4> QED
          BY <4>3, <4>4, <1>2 DEF Queued
      <3> QED
        BY <3>2, <3>3
    <2> QED
      BY <2>1 DEF RestInv
  <1>18. ASSUME NEW q \in Request
         PROVE  /\ Fresh(q)' => /\ answers'[q] = 0 /\ handed'[q] = 0
                                /\ \A c \in 1..Len(callbacks') : callbacks'[c].req # q
                /\ answers'[q] <= 1
                /\ answers'[q] > 0 => /\ worker'.req # q
                                      /\ url'[q] # "plain" => Len(got'[q]) = handed'[q]
    <2>1. Fresh(q)' <=> Fresh(q)
      BY <1>2 DEF Fresh
    <2>2. Fresh(q) => q # r
      BY <1>4 DEF IInv, AnswerInv, Has
    <2>3. answers[q] > 0 => q # r
      BY DEF IInv, AnswerInv, r
    <2> QED
      BY <2>1, <2>2, <2>3, <1>2, <1>3 DEF IInv, AnswerInv
  <1>19. AnswerInv'
    BY <1>2, <1>8, <1>18 DEF IInv, AnswerInv
  <1> QED
    BY <1>1, <1>7, <1>13, <1>14, <1>15, <1>16, <1>17, <1>19 DEF IInv

LEMMA StepSendDone ==
    ASSUME IInv, SendDone
    PROVE  IInv'
  <1> DEFINE id == worker.id  n == Len(results)
  <1>1. TInv /\ TInv'
    BY TSendDone DEF IInv
  <1>2. /\ worker.at # "receive" /\ worker'.at = "receive" /\ worker'.req = None
        /\ results' = Append(results, DoneEntry) /\ DoneEntry \in Entry
        /\ DoneEntry.type = "DONE" /\ DoneEntry.id = id
        /\ UNCHANGED <<requests, callbacks, nextId, stack, url, answers, handed, got>>
    BY <1>1, SendDoneFacts, HandsSame DEF main
  <1>3. ~Done(id) /\ ~Erasing(id) /\ Has(id, worker.req) /\ worker.req \in Request
    BY <1>1, <1>2, TFacts DEF IInv, PlaceInv, WorkInv
  <1>4. \A k \in 1..Len(requests) : requests[k].id # id
    BY <1>2 DEF IInv, PlaceInv, Works
  <1> HIDE DEF id
  <1>5. CallbackInv'
    BY <1>2 DEF IInv, CallbackInv
  <1>6. /\ \A i, q : Has(i, q)' <=> Has(i, q)
        /\ \A i : /\ Waiting(i)' <=> Waiting(i)
                  /\ Erasing(i)' <=> Erasing(i)
                  /\ Works(i) <=> i = id
                  /\ ~Works(i)'
    BY <1>2 DEF Has, Waiting, Works, Erasing, id
  <1>7. /\ n \in Nat /\ Len(results') = n + 1 /\ results'[n + 1] = DoneEntry
        /\ \A k \in 1..n : results'[k] = results[k]
    BY <1>1, <1>2, TFacts, AppendFacts
  <1>8. /\ \A k \in 1..Len(results') : k \in 1..n \/ k = n + 1
        /\ \A k \in 1..n : k \in 1..Len(results')
        /\ n + 1 \in 1..Len(results')
    BY <1>7
  <1>9. \A i : Done(i)' <=> Done(i) \/ i = id
    BY <1>2, <1>7, <1>8 DEF Done
  <1>10. PlaceInv'
    <2>1. ASSUME NEW k \in 1..Len(requests')
          PROVE  /\ Has(requests[k].id, requests[k].req)' /\ ~Works(requests[k].id)'
                 /\ ~Done(requests[k].id)' /\ ~Erasing(requests[k].id)'
      BY <1>2, <1>4, <1>6, <1>9 DEF IInv, PlaceInv
    <2>2. ASSUME NEW k \in 1..Len(results')
          PROVE  (\E q \in Request : Has(results[k].id, q)') /\ ~Erasing(results[k].id)'
      <3>1. CASE k \in 1..n
        BY <3>1, <1>6, <1>7 DEF IInv, PlaceInv
      <3>2. CASE k = n + 1
        <4>1. results'[k].id = id
          BY <3>2, <1>2, <1>7
        <4> QED
          BY <4>1, <1>3, <1>6
      <3> QED
        BY <3>1, <3>2, <1>8
    <2>3. ASSUME NEW c \in 1..Len(callbacks')
          PROVE  \/ Waiting(callbacks[c].id)' \/ Works(callbacks[c].id)'
                 \/ Done(callbacks[c].id)' \/ Erasing(callbacks[c].id)'
      BY <1>2, <1>6, <1>9 DEF IInv, PlaceInv
    <2>4. \A j, l \in 1..Len(requests') : requests'[j].id = requests'[l].id => j = l
      BY <1>2 DEF IInv, PlaceInv
    <2> QED
      BY <2>1, <2>2, <2>3, <2>4, <1>2 DEF PlaceInv
  <1>11. OrderInv'
    <2>1. ASSUME NEW k \in 1..Len(results'), NEW l \in 1..Len(results'),
                 results'[k].id = results'[l].id, results'[k].type = "DONE"
          PROVE  l <= k
      <3>1. CASE k = n + 1
        BY <3>1, <1>7, <1>8
      <3>2. CASE k \in 1..n /\ l \in 1..n
        BY <2>1, <3>2, <1>7 DEF IInv, OrderInv
      <3>3. CASE k \in 1..n /\ l = n + 1
        <4>1. results[k].id = id /\ results[k].type = "DONE"
          BY <2>1, <3>3, <1>2, <1>7
        <4> QED
          BY <4>1, <3>3, <1>3 DEF Done
      <3> QED
        BY <3>1, <3>2, <3>3, <1>8
    <2>2. ASSUME NEW k \in 1..Len(results'), results'[k].type = "DATA"
          PROVE  k \in 1..n /\ results[k].type = "DATA" /\ results'[k] = results[k]
      BY <2>2, <1>2, <1>7, <1>8
    <2>3. ASSUME NEW k \in 1..Len(results'), results'[k].type = "DATA"
          PROVE  Works(results[k].id)' \/ Done(results[k].id)'
      <3>1. /\ Works(results[k].id) \/ Done(results[k].id)
            /\ results'[k] = results[k]
        BY <2>2, <2>3 DEF IInv, OrderInv
      <3> QED
        BY <3>1, <1>6, <1>9
    <2>4. ASSUME NEW k \in 1..Len(results'), NEW l \in 1..Len(results'),
                 results'[k].id = results'[l].id, results'[k].type = "DATA",
                 results'[l].type = "DATA", k < l
          PROVE  results'[k].piece < results'[l].piece
      BY <2>2, <2>4 DEF IInv, OrderInv
    <2> QED
      BY <2>1, <2>3, <2>4 DEF OrderInv
  <1>12. GotInv'
    BY <1>2 DEF IInv, GotInv
  <1>13. PieceInv'
    <2>1. ASSUME NEW c \in 1..Len(callbacks'), NEW k \in 1..Len(results'),
                 results'[k].type = "DATA", results'[k].id = callbacks'[c].id
          PROVE  /\ url'[callbacks'[c].req] # "plain"
                 /\ Len(got'[callbacks'[c].req]) < results'[k].piece
                 /\ results'[k].piece <= handed'[callbacks'[c].req]
      <3>1. k \in 1..n /\ results'[k] = results[k]
        BY <2>1, <1>2, <1>7, <1>8
      <3> QED
        BY <2>1, <3>1, <1>2 DEF IInv, PieceInv
    <2> QED
      BY <2>1 DEF PieceInv
  <1>14. RestInv'
    <2>1. \A i, p : Queued(i, p) => Queued(i, p)'
      BY <1>7, <1>8 DEF Queued
    <2> QED
      BY <2>1, <1>2 DEF IInv, RestInv
  <1>15. ASSUME NEW q \in Request
         PROVE  /\ Fresh(q)' => /\ answers'[q] = 0 /\ handed'[q] = 0
                                /\ \A c \in 1..Len(callbacks') : callbacks'[c].req # q
                /\ answers'[q] <= 1
                /\ answers'[q] > 0 => /\ worker'.req # q
                                      /\ url'[q] # "plain" => Len(got'[q]) = handed'[q]
    <2>1. Fresh(q)' <=> Fresh(q)
      BY <1>2 DEF Fresh
    <2>2. worker'.req # q
      BY <1>2, WebclientTaskAssumption
    <2> QED
      BY <2>1, <2>2, <1>2 DEF IInv, AnswerInv
  <1>16. AnswerInv'
    BY <1>2, <1>6, <1>15 DEF IInv, AnswerInv
  <1> QED
    BY <1>1, <1>5, <1>10, <1>11, <1>12, <1>13, <1>14, <1>16 DEF IInv

LEMMA StepStutters ==
    ASSUME IInv, Stutters
    PROVE  IInv'
  <1>1. TInv'
    BY TStutters DEF IInv
  <1>2. UNCHANGED <<requests, results, callbacks, nextId, worker, stack, url,
                    answers, handed, got>>
    BY HandsSame DEF Stutters
  <1>3. PlaceInv' /\ OrderInv' /\ \A i : Erasing(i)' <=> Erasing(i)
    BY <1>2, PlaceSame DEF IInv
  <1>4. GotInv' /\ PieceInv' /\ RestInv'
    BY <1>2, BodySame DEF IInv
  <1>5. CallbackInv'
    BY <1>2 DEF IInv, CallbackInv
  <1>6. \A q \in Request : Fresh(q)' <=> Fresh(q)
    BY <1>2 DEF Fresh
  <1>7. AnswerInv'
    BY <1>2, <1>3, <1>6 DEF IInv, AnswerInv
  <1> QED
    BY <1>1, <1>3, <1>4, <1>5, <1>7 DEF IInv

\* A step that cuts nothing off leaves the rest as it was, if what it adds to
\* the queue or gives to the worker was not cut.
LEMMA CutSame ==
    ASSUME CutInv, cut' = cut,
           \A k \in 1..Len(requests') : requests'[k].req \notin cut,
           worker'.at \in {"headers", "body"} => worker'.req \notin cut,
           \A q \in Request : Fresh(q)' => Fresh(q)
    PROVE  CutInv'
  BY DEF CutInv

\* Nothing goes on after its body was cut off.
LEMMA StepCut ==
    ASSUME IInv, CutInv, Freed = {"kept"}, Next
    PROVE  CutInv'
  <1>1. TInv
    BY DEF IInv
  <1>2. ASSUME NEW r \in Request, NEW kind \in Kinds, Starts(r, kind)
        PROVE  CutInv'
    <2>1. /\ stack' # <<>> /\ stack'[1].op = "enqueue" /\ stack'[1].req = r
          /\ UNCHANGED <<requests, worker, cut>>
          /\ url[r] = "new" /\ url' = [url EXCEPT ![r] = kind]
      BY <1>1, <1>2, StartsStack DEF Starts, MaySend
    <2>2. \A q \in Request : q # r => url'[q] = url[q]
      BY <1>1, <2>1, TFacts
    <2>3. \A q \in Request : Fresh(q)' => Fresh(q)
      BY <2>1, <2>2 DEF Fresh
    <2> QED
      BY <2>1, <2>3, CutSame DEF CutInv
  <1>3. ASSUME Quiet(stack'), stack' \in Seq(Frame), url' = url,
               UNCHANGED <<requests, worker, cut>>
        PROVE  CutInv'
    BY <1>3, QuietFacts, CutSame DEF CutInv
  <1>4. ASSUME stack # <<>>, stack[1].op = "enqueue", stack[1].req \in Request,
               Rejects(stack[1].req)
        PROVE  CutInv'
    <2>1. /\ Quiet(stack') /\ stack' \in Seq(Frame) /\ url' = url
          /\ requests' = requests /\ cut' = cut
          /\ worker'.at = worker.at /\ worker'.req = worker.req
      BY <1>4 DEF Rejects
    <2> QED
      BY <2>1, QuietFacts, CutSame DEF CutInv
  <1>5. ASSUME stack # <<>>, stack[1].op = "enqueue", stack[1].req \in Request,
               Keeps(stack[1].req)
        PROVE  CutInv'
    <2>1. /\ Quiet(stack') /\ stack' \in Seq(Frame) /\ url' = url /\ cut' = cut
          /\ worker'.at = worker.at /\ worker'.req = worker.req
      BY <1>5 DEF Keeps
    <2>2. stack[1].req \notin cut
      BY <1>5, EnqueueFacts DEF CutInv
    <2>3. ASSUME NEW k \in 1..Len(requests')
          PROVE  requests'[k].req \notin cut
      BY <1>5, <2>2, KeepsRequests DEF CutInv
    <2> QED
      BY <2>1, <2>3, QuietFacts, CutSame DEF CutInv
  <1>6. ASSUME NEW k \in 1..Len(callbacks), GivesPiece(k) \/ GivesDone(k)
        PROVE  CutInv'
    BY <1>3, <1>6 DEF GivesPiece, GivesDone, Gives
  <1>7. ASSUME Returns
        PROVE  CutInv'
    BY <1>3, <1>7 DEF Returns
  <1>8. ASSUME NEW p \in 1..Len(callbacks), Removes(p)
        PROVE  CutInv'
    <2>1. Quiet(stack') /\ stack' \in Seq(Frame)
      BY <1>8 DEF Removes, Quiet
    <2> QED
      BY <1>3, <1>8, <2>1 DEF Removes
  <1>9. ASSUME Takes
        PROVE  CutInv'
    <2>1. /\ requests # <<>> /\ requests \in Seq(Pair) /\ requests' = Tail(requests)
          /\ worker'.req = requests[1].req /\ UNCHANGED <<stack, url, cut>>
      BY <1>1, <1>9, TFacts, TakesFacts DEF Takes
    <2>2. /\ Len(requests') = Len(requests) - 1 /\ Len(requests) \in Nat \ {0}
          /\ \A k \in 1..Len(requests) - 1 : requests'[k] = requests[k + 1]
      BY <2>1, TakeFacts
    <2>3. ASSUME NEW k \in 1..Len(requests')
          PROVE  requests'[k].req \notin cut
      <3>1. k + 1 \in 1..Len(requests) /\ requests'[k] = requests[k + 1]
        BY <2>2
      <3> QED
        BY <3>1 DEF CutInv
    <2>4. requests[1].req \notin cut
      <3>1. 1 \in 1..Len(requests)
        BY <2>2
      <3> QED
        BY <3>1 DEF CutInv
    <2>5. \A q \in Request : Fresh(q)' => Fresh(q)
      BY <2>1 DEF Fresh
    <2> QED
      BY <2>1, <2>3, <2>4, <2>5, CutSame
  <1>10. ASSUME Moves
         PROVE  CutInv'
    <2>1. /\ worker'.req = worker.req /\ UNCHANGED <<requests, stack, url>>
          /\ worker.at # "receive"
      BY <1>10 DEF Moves, main
    <2>2. \A q \in Request : Fresh(q)' <=> Fresh(q)
      BY <2>1 DEF Fresh
    <2>3. CASE cut' = cut
      <3>1. worker'.at \in {"headers", "body"} => worker.at \in {"headers", "body"}
        BY <1>10 DEF Moves
      <3> QED
        BY <2>1, <2>2, <2>3, <3>1, CutSame DEF CutInv
    <2>4. CASE cut' = cut \cup {worker.req} /\ worker'.at = "deleted"
      <3>1. PICK c \in 1..Len(callbacks) :
               /\ callbacks[c].id = worker.id /\ callbacks[c].req = worker.req
               /\ \A d \in 1..Len(callbacks) :
                     callbacks[d].id = worker.id \/ callbacks[d].req = worker.req => d = c
        BY <2>1, WorkerFacts
      <3>2. ASSUME NEW k \in 1..Len(requests), requests[k].req = worker.req
            PROVE  FALSE
        <4>1. PICK d \in 1..Len(callbacks) : /\ callbacks[d].id = requests[k].id
                                            /\ callbacks[d].req = requests[k].req
          BY DEF IInv, PlaceInv, Has
        <4>2. requests[k].id = worker.id
          BY <3>1, <3>2, <4>1
        <4> QED
          BY <2>1, <4>2 DEF IInv, PlaceInv, Works
      <3>3. ASSUME NEW q \in Request, Fresh(q)
            PROVE  q # worker.req
        BY <3>1, <3>3 DEF IInv, AnswerInv
      <3> QED
        BY <2>1, <2>2, <2>4, <3>2, <3>3 DEF CutInv
    <2> QED
      BY <1>10, <2>3, <2>4 DEF Moves
  <1>11. ASSUME Piece \/ SendDone \/ Stutters
         PROVE  CutInv'
    <2>1. /\ UNCHANGED <<requests, stack, url, cut>>
          /\ worker' = worker \/ worker'.at = "receive"
      BY <1>1, <1>11, PieceFacts, SendDoneFacts DEF main, Stutters
    <2>2. \A q \in Request : Fresh(q)' <=> Fresh(q)
      BY <2>1 DEF Fresh
    <2> QED
      BY <2>1, <2>2, CutSame DEF CutInv
  <1> QED
    BY <1>1, <1>2, <1>4, <1>5, <1>6, <1>7, <1>8, <1>9, <1>10, <1>11, NoDrops, StepFacts

LEMMA Step == IInv /\ CutInv /\ Freed = {"kept"} /\ [Next]_vars => IInv' /\ CutInv'
  <1> SUFFICES ASSUME IInv, CutInv, Freed = {"kept"}, [Next]_vars PROVE IInv' /\ CutInv'
    OBVIOUS
  <1>1. CASE Next
    <2>1. TInv
      BY DEF IInv
    <2>2. IInv'
      BY <1>1, <2>1, StepFacts, StepStarts, StepRejects, StepKeeps, NoDrops,
         StepGivesPiece, StepGivesDone, StepReturns, StepRemoves, StepTakes,
         StepMoves, StepPiece, StepSendDone, StepStutters
    <2> QED
      BY <1>1, <2>2, StepCut
  <1>2. CASE UNCHANGED vars
    <2>1. Stutters
      BY <1>2, TFacts DEF IInv, Stutters, vars, main
    <2>2. CutInv'
      BY <1>2 DEF CutInv, Fresh, vars, main
    <2> QED
      BY <2>1, <2>2, StepStutters
  <1> QED
    BY <1>1, <1>2

\* The invariant holds in every state, if sendDone() finds the id it deleted.
THEOREM Invariance == Freed = {"kept"} => (Spec => [](IInv /\ CutInv))
  <1> SUFFICES ASSUME Freed = {"kept"} PROVE Spec => [](IInv /\ CutInv)
    OBVIOUS
  <1>1. IInv /\ CutInv /\ [Next]_vars => IInv' /\ CutInv'
    BY Step
  <1>2. Init => CutInv
    BY JobIdle DEF Init, CutInv
  <1> QED
    BY Initial, <1>1, <1>2, PTL DEF Spec

-----------------------------------------------------------------------------
(* What it means for the callbacks and the bodies.                         *)

\* The places where the answer of id may come from.
LEMMA UnderwayFacts ==
    ASSUME TInv, NEW i, NEW e
    PROVE  e \in Underway(i) <=>
              \/ \E k \in 1..Len(requests) : e = <<"requests", k>> /\ requests[k].id = i
              \/ e = <<"worker", 0>> /\ Works(i)
              \/ \E k \in 1..Len(results) :
                    e = <<"results", k>> /\ results[k].type = "DONE" /\ results[k].id = i
              \/ \E k \in 1..Len(stack) :
                    /\ e = <<"loop", k>> /\ stack[k].op = "erase"
                    /\ callbacks[stack[k].at].id = i
  BY Zenon DEF Underway, Works

\* There is one for each callback.
LEMMA OneUnderway ==
    ASSUME IInv, NEW c \in 1..Len(callbacks)
    PROVE  \E e : Underway(callbacks[c].id) = {e}
  <1> DEFINE i == callbacks[c].id
  <1>1. TInv
    BY DEF IInv
  <1>2. \A k \in 1..Len(stack) :
            stack[k].op = "erase" /\ callbacks[stack[k].at].id = i => Erasing(i)
    BY DEF Erases, Erasing
  <1>3. \A k, l \in 1..Len(stack) :
            stack[k].op = "erase" /\ stack[l].op = "erase" => k = l
    BY <1>1, TFacts DEF Framed, Caller
  <1>4. Waiting(i) \/ Works(i) \/ Done(i) \/ Erasing(i)
    BY DEF IInv, PlaceInv
  <1>5. /\ Waiting(i) => ~Works(i) /\ ~Done(i) /\ ~Erasing(i)
        /\ Works(i) => ~Done(i) /\ ~Erasing(i)
        /\ Done(i) => ~Erasing(i)
    BY DEF IInv, PlaceInv, Waiting, Works, Done
  <1> HIDE DEF i
  <1>6. ASSUME Waiting(i)
        PROVE  \E e : Underway(i) = {e}
    <2>1. PICK k \in 1..Len(requests) : requests[k].id = i
      BY <1>6 DEF Waiting
    <2>2. \A l \in 1..Len(requests) : requests[l].id = i => l = k
      BY <2>1 DEF IInv, PlaceInv
    <2>3. <<"requests", k>> \in Underway(i)
      BY <2>1, <1>1, UnderwayFacts
    <2>4. ASSUME NEW e \in Underway(i)
          PROVE  e = <<"requests", k>>
      BY <2>2, <2>4, <1>1, <1>2, <1>5, <1>6, UnderwayFacts DEF Done
    <2> QED
      BY <2>3, <2>4, Zenon
  <1>7. ASSUME Works(i)
        PROVE  \E e : Underway(i) = {e}
    <2>1. <<"worker", 0>> \in Underway(i)
      BY <1>1, <1>7, UnderwayFacts
    <2>2. ASSUME NEW e \in Underway(i)
          PROVE  e = <<"worker", 0>>
      BY <2>2, <1>1, <1>2, <1>5, <1>7, UnderwayFacts DEF Done, Waiting
    <2> QED
      BY <2>1, <2>2, Zenon
  <1>8. ASSUME Done(i)
        PROVE  \E e : Underway(i) = {e}
    <2>1. PICK k \in 1..Len(results) : results[k].type = "DONE" /\ results[k].id = i
      BY <1>8 DEF Done
    <2>2. \A l \in 1..Len(results) : results[l].type = "DONE" /\ results[l].id = i => l = k
      <3>1. ASSUME NEW l \in 1..Len(results), results[l].type = "DONE", results[l].id = i
            PROVE  l <= k /\ k <= l
        BY <2>1, <3>1 DEF IInv, OrderInv
      <3> QED
        BY <3>1
    <2>3. <<"results", k>> \in Underway(i)
      BY <2>1, <1>1, UnderwayFacts
    <2>4. ASSUME NEW e \in Underway(i)
          PROVE  e = <<"results", k>>
      BY <2>2, <2>4, <1>1, <1>2, <1>5, <1>8, UnderwayFacts DEF Waiting
    <2> QED
      BY <2>3, <2>4, Zenon
  <1>9. ASSUME Erasing(i)
        PROVE  \E e : Underway(i) = {e}
    <2>1. PICK k \in 1..Len(stack) : stack[k].op = "erase" /\ callbacks[stack[k].at].id = i
      BY <1>9 DEF Erases, Erasing
    <2>2. <<"loop", k>> \in Underway(i)
      BY <2>1, <1>1, UnderwayFacts
    <2>3. ASSUME NEW e \in Underway(i)
          PROVE  e = <<"loop", k>>
      BY <2>1, <2>3, <1>1, <1>3, <1>5, <1>9, UnderwayFacts DEF Waiting, Done
    <2> QED
      BY <2>2, <2>3, Zenon
  <1> QED
    BY <1>4, <1>6, <1>7, <1>8, <1>9 DEF i

\* Each callback that loop() keeps waits for exactly one answer that is under
\* way, while other callbacks send requests and the vector grows under loop().
THEOREM Awaited == Freed = {"kept"} => (Spec => []CallbacksAwaited)
  <1> SUFFICES ASSUME Freed = {"kept"} PROVE Spec => []CallbacksAwaited
    OBVIOUS
  <1>1. IInv => CallbacksAwaited
    <2> SUFFICES ASSUME IInv, NEW d \in Range(callbacks)
                 PROVE  Cardinality(Underway(d.id)) = 1
      BY DEF CallbacksAwaited
    <2>1. callbacks \in Seq(Pair)
      BY TFacts DEF IInv
    <2>2. DOMAIN callbacks = 1..Len(callbacks)
      BY <2>1, LenProperties
    <2>3. PICK c \in 1..Len(callbacks) : d = callbacks[c]
      BY <2>2 DEF Range
    <2>4. PICK e : Underway(callbacks[c].id) = {e}
      BY OneUnderway
    <2> QED
      BY <2>3, <2>4, FS_Singleton
  <1>2. Spec => []IInv
    BY Invariance, PTL
  <1> QED
    BY <1>1, <1>2, PTL

\* The pieces of a body come in order, onDone is called when none is missing
\* but the one that went beyond bodyMaxSize, and none comes after it.
THEOREM BodyFirst == Freed = {"kept"} => (Spec => []BodyBeforeDone)
  <1> SUFFICES ASSUME Freed = {"kept"} PROVE Spec => []BodyBeforeDone
    OBVIOUS
  <1>1. IInv => BodyBeforeDone
    <2> SUFFICES ASSUME IInv, NEW r \in Request
                 PROVE  /\ got[r] = [i \in 1 .. Len(got[r]) |-> i]
                        /\ answers[r] > 0 => /\ worker.req # r
                                             /\ url[r] # "plain" => Len(got[r]) = handed[r]
      BY DEF BodyBeforeDone
    <2>1. got[r] = [i \in 1 .. Len(got[r]) |-> i]
      BY DEF IInv, GotInv
    <2>2. answers[r] > 0 => /\ worker.req # r
                            /\ url[r] # "plain" => Len(got[r]) = handed[r]
      BY DEF IInv, AnswerInv
    <2> QED
      BY <2>1, <2>2
  <1>2. Spec => []IInv
    BY Invariance, PTL
  <1> QED
    BY <1>1, <1>2, PTL

\* The requests that were sent.
Sent == {r \in Request : url[r] # "new"}

\* A step sends a request, answers one, or does neither.
LEMMA PromiseStep ==
    ASSUME IInv, [Next]_vars
    PROVE  [Promised!Next]_Promised!vars
  <1>1. TInv
    BY DEF IInv
  <1>2. ASSUME NEW r \in Request, NEW kind \in Kinds, Starts(r, kind)
        PROVE  Promised!Next
    <2>1. /\ url \in [Request -> Kinds \cup {"new"}] /\ url[r] = "new"
          /\ url' = [url EXCEPT ![r] = kind] /\ answers' = answers /\ kind # "new"
      BY <1>1, <1>2, TFacts DEF Starts, MaySend, Kinds
    <2>2. r \notin Sent /\ Sent' = Sent \cup {r}
      BY <2>1 DEF Sent
    <2> QED
      BY <2>1, <2>2 DEF Promised!Next, Promised!Send, Sent
  <1>3. ASSUME NEW r \in Request, answers[r] = 0, r \in Sent, url' = url,
               answers' = [answers EXCEPT ![r] = @ + 1]
        PROVE  Promised!Next
    <2>1. answers' = [answers EXCEPT ![r] = 1]
      BY <1>1, <1>3, TFacts
    <2>2. Sent' = Sent
      BY <1>3 DEF Sent
    <2> QED
      BY <2>1, <2>2, <1>3 DEF Promised!Next, Promised!Answer, Sent
  <1>4. ASSUME stack # <<>>, stack[1].op = "enqueue", stack[1].req \in Request,
               Rejects(stack[1].req)
        PROVE  Promised!Next
    <2>1. answers[stack[1].req] = 0 /\ url[stack[1].req] # "new"
      BY <1>4, EnqueueFacts
    <2>2. stack[1].req \in Sent /\ url' = url
      BY <2>1, <1>4 DEF Sent, Rejects
    <2> QED
      BY <2>1, <2>2, <1>3, <1>4 DEF Rejects
  <1>5. ASSUME NEW k \in 1..Len(callbacks), GivesDone(k)
        PROVE  Promised!Next
    <2> DEFINE r == callbacks[k].req
    <2>1. r \in Request /\ answers[r] = 0 /\ url' = url
      BY <1>5, GivesFacts DEF GivesDone
    <2>2. url[r] # "new"
      BY <2>1 DEF IInv, AnswerInv, Fresh
    <2> QED
      BY <2>1, <2>2, <1>3, <1>5 DEF Sent, GivesDone
  <1>6. ASSUME url' = url, answers' = answers
        PROVE  UNCHANGED Promised!vars
    BY <1>6 DEF Promised!vars
  <1>7. CASE Next
    <2>1. \/ \E k \in 1..Len(callbacks) : GivesPiece(k)
          \/ Keeps(stack[1].req) \/ Drops \/ Returns
          \/ \E p \in 1..Len(callbacks) : Removes(p)
          \/ Takes \/ Moves \/ Piece \/ SendDone \/ Stutters
          => url' = url /\ answers' = answers
      BY DEF GivesPiece, Gives, Keeps, Drops, Returns, Removes, Takes, Moves,
             Piece, ReadsPiece, SendDone, Goes, Stutters, main
    <2> QED
      BY <1>1, <1>2, <1>4, <1>5, <1>6, <1>7, <2>1, StepFacts
  <1>8. CASE UNCHANGED vars
    BY <1>6, <1>8 DEF vars, main
  <1> QED
    BY <1>7, <1>8

\* The safety half of the promise of WebRequests: onDone is called for requests
\* that were sent, and for none of them twice.
THEOREM AnsweredOnce ==
    Freed = {"kept"} =>
        (Spec => Promised!Init /\ [][Promised!Next]_Promised!vars)
  <1> SUFFICES ASSUME Freed = {"kept"}
               PROVE  Spec => Promised!Init /\ [][Promised!Next]_Promised!vars
    OBVIOUS
  <1>1. Init => Promised!Init
    BY DEF Init, Promised!Init
  <1>2. IInv /\ [Next]_vars => [Promised!Next]_Promised!vars
    BY PromiseStep
  <1>3. Spec => []IInv
    BY Invariance, PTL
  <1> QED
    BY <1>1, <1>2, <1>3, PTL DEF Spec

=============================================================================
