--------------------------- MODULE WebclientTask ----------------------------
(***************************************************************************)
(* Webclient/Handler.cpp and Handler_ESP32.cpp on ESP32: enqueue() hands   *)
(* requests to a worker task on the other core through _requestQueue; the  *)
(* worker does the whole exchange, blocking, and returns pieces of the     *)
(* body and the response through _resultQueue; loop() calls the users'     *)
(* callbacks, which it keeps in the vector _activeCallbacks.  Callbacks    *)
(* may send requests; the calls in progress on the main thread are the     *)
(* frames of "stack", its first element the innermost.                     *)
(***************************************************************************)
EXTENDS Integers, Sequences, FiniteSets, SequencesExt

CONSTANTS
    Request,      \* requests a user sends
    None,         \* no request
    RequestDepth, \* length of _requestQueue, OPENKNX_WEBCLIENT_SLOTS * 4
    ResultDepth,  \* length of _resultQueue, OPENKNX_WEBCLIENT_SLOTS * 16
    MaxPieces,    \* bound: read() calls that find a piece of one body
    Freed,        \* what sendDone() finds in the TaskRequest deleted before:
                  \* it is "kept", "reused" by a later one, or "scribbled" on
    Reallocates   \* a callback may send when _activeCallbacks has to grow

ASSUME WebclientTaskAssumption ==
    /\ None \notin Request
    /\ RequestDepth \in Nat \ {0} /\ ResultDepth \in Nat \ {0}
    /\ MaxPieces \in Nat
    /\ Freed \subseteq {"kept", "reused", "scribbled"} /\ Freed # {}
    /\ Reallocates \in BOOLEAN

VARIABLES
    requests,  \* _requestQueue, "none" before initTask()
    results,   \* _resultQueue
    callbacks, \* _activeCallbacks
    capacity,  \* capacity() of that vector
    nextId,    \* _nextRequestId
    worker,    \* the worker task: where it is and what it works on
    stack,     \* calls in progress on the main thread
    url,       \* the kind of each request, "new" before it is sent
    answers,   \* how often the onDone of each request was called (ghost)
    read,      \* pieces read of the body for each onData (ghost)
    got,       \* pieces the onData of each request was given (ghost)
    cut,       \* requests whose last piece went beyond bodyMaxSize (ghost)
    online,    \* loop() gets to webclient.loop(): established(), no power save
    wild       \* freed memory of the vector was used (ghost)

main == <<requests, callbacks, capacity, nextId, stack, url, answers, online, wild>>
vars == <<main, results, worker, read, got, cut>>

\* The kinds of request: "data" has an onData callback, "plain" has none, "bad"
\* has an invalid URL.
Kinds == {"plain", "data", "bad"}

Idle == [at |-> "receive", req |-> None, id |-> 0, later |-> {}]

Init ==
    /\ requests = <<>> /\ results = <<>> /\ callbacks = <<>>
    /\ capacity = 0 /\ nextId = 1 /\ worker = Idle /\ stack = <<>>
    /\ url = [r \in Request |-> "new"]
    /\ answers = [r \in Request |-> 0]
    /\ read = [r \in Request |-> 0]
    /\ got = [r \in Request |-> <<>>] /\ cut = {}
    /\ online = FALSE /\ wild = FALSE

\* The frames: enqueue(), a user's callback, and the loop() that called it,
\* with its iterator, which is "moved" once the vector has grown under it.
Enqueue(r)  == [op |-> "enqueue", req |-> r, at |-> 0, moved |-> FALSE]
Callback(r) == [op |-> "callback", req |-> r, at |-> 0, moved |-> FALSE]
Loop(op, k) == [op |-> op, req |-> None, at |-> k, moved |-> FALSE]

AtTop       == stack = <<>> /\ ~wild
Running(op) == stack # <<>> /\ stack[1].op = op /\ ~wild
Calls(s)    == stack' = s \o Tail(stack)

-----------------------------------------------------------------------------
(* Request::send() and Handler::enqueue(), on the main thread.             *)

HasRoom == Len(callbacks) < capacity

\* From inside a callback the vector grows only if Reallocates.
MaySend(r) ==
    /\ url[r] = "new"
    /\ HasRoom \/ Reallocates \/ stack = <<>>

Send(r, kind) ==
    /\ AtTop /\ MaySend(r)
    /\ url' = [url EXCEPT ![r] = kind]
    /\ stack' = <<Enqueue(r)>>
    /\ UNCHANGED <<requests, results, callbacks, capacity, nextId, worker,
                   answers, read, got, cut, online, wild>>

\* A TaskRequest is allocated; if the worker has just deleted its own, it may
\* be at the same address.
Allocates(id) ==
    worker' = IF worker.at = "deleted" /\ "reused" \in Freed
              THEN [worker EXCEPT !.later = @ \cup {id}] ELSE worker

\* The call of onDone with an empty Response, from enqueue().
Refuses(r) ==
    /\ answers' = [answers EXCEPT ![r] = @ + 1]
    /\ Calls(<<Callback(r)>>)

\* An invalid URL: refused before anything is stored.
EnqueueBadUrl ==
    /\ Running("enqueue") /\ url[stack[1].req] = "bad"
    /\ nextId' = nextId + 1
    /\ Allocates(nextId)
    /\ Refuses(stack[1].req)
    /\ UNCHANGED <<requests, results, callbacks, capacity, url, read, got, cut, online, wild>>

\* push_back(): a vector that is full moves to twice the size, and takes the
\* elements away from under every loop() in progress.
PushBack ==
    /\ capacity' = IF HasRoom THEN capacity ELSE IF capacity = 0 THEN 1 ELSE 2 * capacity
    /\ LET below == IF HasRoom THEN Tail(stack)
                    ELSE [i \in 1 .. Len(stack) - 1 |-> [stack[i + 1] EXCEPT !.moved = TRUE]]
       IN  stack' = (IF Len(requests) < RequestDepth THEN <<>>
                     ELSE <<Callback(stack[1].req)>>) \o below

Enqueues ==
    /\ Running("enqueue") /\ url[stack[1].req] # "bad"
    /\ Len(requests) < RequestDepth
    /\ PushBack /\ Allocates(nextId)
    /\ callbacks' = Append(callbacks, [id |-> nextId, req |-> stack[1].req])
    /\ requests' = Append(requests, [id |-> nextId, req |-> stack[1].req])
    /\ nextId' = nextId + 1
    /\ UNCHANGED <<results, url, answers, read, got, cut, online, wild>>

\* No room in the queue: back() and pop_back() take the callbacks out again.
EnqueueFull ==
    /\ Running("enqueue") /\ url[stack[1].req] # "bad"
    /\ Len(requests) = RequestDepth
    /\ PushBack /\ Allocates(nextId)
    /\ nextId' = nextId + 1
    /\ answers' = [answers EXCEPT ![stack[1].req] = @ + 1]
    /\ UNCHANGED <<requests, results, callbacks, url, read, got, cut, online, wild>>

-----------------------------------------------------------------------------
(* loop().  One call may handle many entries; what else the main thread    *)
(* does between two of them is more than it really does.  Without the      *)
(* network, or while power is saved, the network module does not call it.  *)

PositionsOf(id) == {k \in 1 .. Len(callbacks) : callbacks[k].id = id}

\* The first callback of that id.
IndexOf(id) == CHOOSE k \in PositionsOf(id) : \A j \in PositionsOf(id) : k <= j

\* xQueueReceive(), the search, and the call of onData or onDone.
Receive ==
    /\ AtTop /\ online /\ results # <<>>
    /\ results' = Tail(results)
    /\ LET e == Head(results) IN
       IF PositionsOf(e.id) = {} THEN UNCHANGED <<stack, answers, got>>
       ELSE LET k == IndexOf(e.id)  r == callbacks[k].req IN
            IF e.type = "DATA"
            THEN /\ got' = [got EXCEPT ![r] = Append(@, e.piece)]
                 /\ stack' = <<Callback(r), Loop("data", k)>>
                 /\ UNCHANGED answers
            ELSE /\ answers' = [answers EXCEPT ![r] = @ + 1]
                 /\ stack' = <<Callback(r), Loop("erase", k)>>
                 /\ UNCHANGED got
    /\ UNCHANGED <<requests, callbacks, capacity, nextId, worker, url, read, cut, online, wild>>

\* The user's callback sends further requests, or returns.
CallbackSends ==
    /\ Running("callback")
    /\ \E s \in Request, kind \in Kinds :
          /\ MaySend(s)
          /\ url' = [url EXCEPT ![s] = kind]
          /\ stack' = <<Enqueue(s)>> \o stack
    /\ UNCHANGED <<requests, results, callbacks, capacity, nextId, worker,
                   answers, read, got, cut, online, wild>>

CallbackReturns ==
    /\ Running("callback") /\ Calls(<<>>)
    /\ UNCHANGED <<requests, results, callbacks, capacity, nextId, worker, url,
                   answers, read, got, cut, online, wild>>

\* Back in loop(): break.  A function object that was moved while it ran lies
\* in freed memory; here the model stops.
DataReturns ==
    /\ Running("data") /\ Calls(<<>>)
    /\ wild' = stack[1].moved
    /\ UNCHANGED <<requests, results, callbacks, capacity, nextId, worker, url,
                   answers, read, got, cut, online>>

\* Mutant: the last element is erased, not the one found.
EraseLast ==
    /\ Running("erase") /\ Calls(<<>>)
    /\ callbacks' = Front(callbacks)
    /\ wild' = stack[1].moved
    /\ UNCHANGED <<requests, results, capacity, nextId, worker, url, answers, read, got, cut, online>>

\* erase(it), undefined if the vector has moved, where the model stops.
Erase ==
    /\ Running("erase") /\ Calls(<<>>)
    /\ callbacks' = RemoveAt(callbacks, stack[1].at)
    /\ wild' = stack[1].moved
    /\ UNCHANGED <<requests, results, capacity, nextId, worker, url, answers, read, got, cut, online>>

Main == \/ EnqueueBadUrl \/ Enqueues \/ EnqueueFull \/ Receive
        \/ CallbackReturns \/ DataReturns \/ Erase

-----------------------------------------------------------------------------
(* taskRun(), on the other core.  The server and the clock decide how an   *)
(* exchange goes on; each of its phases has a deadline.                    *)

At(p)  == worker.at = p /\ ~wild
Goes(w) == worker' = w /\ UNCHANGED main

Takes ==
    /\ At("receive") /\ requests # <<>>
    /\ worker' = [Idle EXCEPT !.at = "headers", !.req = Head(requests).req,
                              !.id = Head(requests).id]
    /\ requests' = Tail(requests)
    /\ UNCHANGED <<results, callbacks, capacity, nextId, stack, url, answers, read, got, cut, online, wild>>

\* Every way on ends with "delete req" and then sendDone().
Deletes == Goes([worker EXCEPT !.at = "deleted"])

\* connect() fails, or the headers do not end in time: an empty Response.
HeadersFail ==
    /\ At("headers") /\ Deletes
    /\ UNCHANGED <<results, read, got, cut>>

\* HEAD, 204 and 304 end after their headers; else a body follows.
HeadersEnd ==
    /\ At("headers")
    /\ Deletes \/ Goes([worker EXCEPT !.at = "body"])
    /\ UNCHANGED <<results, read, got, cut>>

\* A piece of the body, and its entry for onData.  The pieces of a body that
\* nobody streams change nothing here.
PieceRead ==
    [type |-> "DATA", id |-> worker.id, piece |-> read[worker.req] + 1]

ReadsPiece ==
    /\ At("body") /\ url[worker.req] # "plain" /\ read[worker.req] < MaxPieces
    /\ read' = [read EXCEPT ![worker.req] = @ + 1]
    /\ UNCHANGED got

\* Mutant: a piece is given up when the queue is full.
PieceIfRoom ==
    /\ ReadsPiece /\ Goes(worker) /\ UNCHANGED cut
    /\ results' = IF Len(results) = ResultDepth THEN results
                  ELSE Append(results, PieceRead)

\* read() finds a piece; xQueueSend() waits for room.
Piece ==
    /\ ReadsPiece /\ Goes(worker) /\ UNCHANGED cut
    /\ Len(results) < ResultDepth
    /\ results' = Append(results, PieceRead)

\* The piece goes beyond bodyMaxSize: it is dropped before its entry is made,
\* and nothing more is read.
PieceTooLarge ==
    /\ ReadsPiece /\ Deletes
    /\ cut' = cut \cup {worker.req}
    /\ UNCHANGED results

\* The body ends, or is cut off by a deadline or a lost connection.
BodyEnds ==
    /\ At("body") /\ Deletes
    /\ UNCHANGED <<results, read, got, cut>>

\* What req->requestId gives once req is deleted.
IdFound == (IF "kept" \in Freed THEN {worker.id} ELSE {})
           \cup (IF "reused" \in Freed THEN worker.later ELSE {})
           \cup (IF "scribbled" \in Freed THEN {0} ELSE {})

\* sendDone() makes the entry, and reads the id in the deleted request.
MakesDone ==
    /\ At("deleted")
    /\ \E id \in IdFound : Goes([worker EXCEPT !.at = "done", !.id = id])
    /\ UNCHANGED <<results, read, got, cut>>

DoneEntry == [type |-> "DONE", id |-> worker.id, piece |-> 0]

\* xQueueSend() waits for room.
SendDone ==
    /\ At("done") /\ Len(results) < ResultDepth
    /\ results' = Append(results, DoneEntry)
    /\ Goes(Idle) /\ UNCHANGED <<read, got, cut>>

TaskRun == \/ Takes \/ HeadersFail \/ HeadersEnd \/ Piece \/ PieceTooLarge
           \/ BodyEnds \/ MakesDone \/ SendDone

\* The network goes or comes back, power is saved or restored.
Switches(on) ==
    /\ AtTop /\ online # on /\ online' = on
    /\ UNCHANGED <<requests, results, callbacks, capacity, nextId, worker, stack,
                   url, answers, read, got, cut, wild>>

Next ==
    \/ \E r \in Request, kind \in Kinds : Send(r, kind)
    \/ CallbackSends
    \/ Main
    \/ TaskRun
    \/ \E on \in BOOLEAN : Switches(on)

Spec == Init /\ [][Next]_vars

(* Both cores run.  The network comes back whenever it is lost and power is *)
(* not saved for ever (Module.cpp:627, 636), and what is then up stays so  *)
(* often enough for a call of loop(): hence entries that wait are received.*)
Fairness ==
    /\ WF_vars(Main) /\ WF_vars(TaskRun)
    /\ WF_vars(Switches(TRUE)) /\ SF_vars(Receive)

FairSpec == Spec /\ Fairness

-----------------------------------------------------------------------------
(* Properties.                                                             *)

\* Every variable has its type; the queues keep to their lengths.
TypeOK ==
    /\ requests \in Seq([id : Nat, req : Request]) /\ Len(requests) <= RequestDepth
    /\ results \in Seq([type : {"DATA", "DONE"}, id : Nat, piece : 0 .. MaxPieces])
    /\ Len(results) <= ResultDepth
    /\ callbacks \in Seq([id : Nat, req : Request]) /\ Len(callbacks) <= capacity
    /\ capacity \in Nat /\ nextId \in Nat \ {0}
    /\ worker \in [at : {"receive", "headers", "body", "deleted", "done"},
                  req : Request \cup {None}, id : Nat,
                  later : SUBSET (1 .. nextId)]
    /\ stack \in Seq([op : {"enqueue", "callback", "data", "erase"},
                      req : Request \cup {None}, at : Nat, moved : BOOLEAN])
    /\ url \in [Request -> Kinds \cup {"new"}]
    /\ answers \in [Request -> Nat] /\ wild \in BOOLEAN
    /\ cut \subseteq Request /\ online \in BOOLEAN
    /\ read \in [Request -> 0 .. MaxPieces] /\ got \in [Request -> Seq(1 .. MaxPieces)]

\* Where the answer of id comes from: the request waits, the worker has it, or
\* its DONE is on the way, or loop() is calling back for it.
Underway(id) ==
    {<<"requests", k>> : k \in {k \in 1 .. Len(requests) : requests[k].id = id}}
    \cup {<<"worker", 0>> : k \in {k \in {0} : worker.at # "receive" /\ worker.id = id}}
    \cup {<<"results", k>> : k \in {k \in 1 .. Len(results) :
                                 results[k].type = "DONE" /\ results[k].id = id}}
    \cup {<<"loop", k>> : k \in {k \in 1 .. Len(stack) :
                 stack[k].op = "erase" /\ callbacks[stack[k].at].id = id}}

\* Between the calls of enqueue() each element of _activeCallbacks has exactly
\* one answer under way, however the vector is changed while loop() is in it:
\* no callback is kept for nothing, and no answer finds its callback gone.
CallbacksAwaited ==
    ~wild => \A c \in Range(callbacks) : Cardinality(Underway(c.id)) = 1

\* The pieces of each body that got an entry: all that were read, but for the
\* one that went beyond bodyMaxSize.
handed == [r \in Request |-> IF r \in cut THEN read[r] - 1 ELSE read[r]]

\* What onData is given comes in order and before onDone: of the pieces the
\* worker has read none overtakes another, none comes after onDone and none is
\* missing then, however full the queues are -- but for the one that went
\* beyond bodyMaxSize, the last that is read, which onData never gets.
BodyBeforeDone ==
    \A r \in Request :
        /\ got[r] = [i \in 1 .. Len(got[r]) |-> i]
        /\ answers[r] > 0 => /\ worker.req # r
                             /\ url[r] # "plain" => Len(got[r]) = handed[r]

\* Handler keeps the promise of WebRequests on ESP32 too.
Promised == INSTANCE WebRequests WITH
    sent <- {r \in Request : url[r] # "new"}, answers <- answers

ImplementsPromise == Promised!Spec
=============================================================================
