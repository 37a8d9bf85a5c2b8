-------------------------------- MODULE Ping --------------------------------
(***************************************************************************)
(* Ping/Handler.cpp with the reply handling of both platforms.  Callbacks  *)
(* run inside dispatchCallback(), while their slot is still PINGING, and   *)
(* call ping() again: a retry, or a new request of the user.  The calls in *)
(* progress are the frames of "stack", its first element the innermost;    *)
(* loop() continues only when the stack is empty.  Replies come in between *)
(* any two steps on RP2040 (lwIP context), and when checkReplies() empties *)
(* the socket on ESP32.                                                    *)
(***************************************************************************)
EXTENDS Integers, Sequences, FiniteSets

CONSTANTS
    Request,    \* calls of ping() a user makes
    None,       \* no request
    Parallel,   \* OPENKNX_PING_PARALLEL
    SeqMod,     \* values of the echo sequence number, 256 in the code
    MaxRetries, \* bound: largest "retries" argument
    MaxNet,     \* bound: echo replies on their way at a time
    Platforms   \* builds: "RP2040", "ESP32"

ASSUME PingAssumption ==
    /\ Parallel \in Nat \ {0}
    /\ SeqMod \in Nat \ {0}
    /\ MaxRetries \in Nat /\ MaxNet \in Nat
    /\ None \notin Request
    /\ Platforms \subseteq {"RP2040", "ESP32"}

Slot == 0 .. Parallel - 1

VARIABLES
    platform, \* which build this is
    slots,    \* _activeSlots: state, request whose callback it holds, echoSeq
    queue,    \* _pendingQueue
    count,    \* _activePingCount
    nextSeq,  \* _nextEchoSeq; counted here without its wrap, see SameSeq
    retries,  \* _pendingRetries: requests with a RetryContext
    left,     \* RetryContext::retriesLeft
    stack,    \* calls in progress
    pc,       \* where loop() is
    scan,     \* the slot loop() looks at
    due,      \* slots whose timeoutMs has elapsed
    flag,     \* _replyReceived / _replyPending: the request the reply was for
    expected, \* _expectedSeq (RP2040)
    net,      \* echo replies on their way
    status,   \* what each request has come to (ghost)
    asked,    \* the "retries" each request was made with (ghost)
    tries,    \* echo requests tried for each request (ghost)
    replied   \* requests an echo reply arrived for (ghost)

platformVars == <<platform, flag, expected, net, replied>>
slotVars     == <<slots, count, due, tries>>
ctxVars      == <<retries, left, status, asked>>
loopVars     == <<pc, scan>>
vars == <<slotVars, queue, nextSeq, ctxVars, stack, loopVars, platformVars>>

IdleSlot == [state |-> "IDLE", req |-> None, seq |-> 0]

Init ==
    /\ platform \in Platforms
    /\ slots = [i \in Slot |-> IdleSlot] /\ queue = <<>> /\ count = 0
    /\ nextSeq = 0 /\ retries = {} /\ left = [r \in Request |-> 0]
    /\ stack = <<>> /\ pc = "user" /\ scan = 0
    /\ due = {} /\ flag = [i \in Slot |-> None]
    /\ expected = [i \in Slot |-> 0] /\ net = {}
    /\ status = [r \in Request |-> "new"]
    /\ asked = [r \in Request |-> 0] /\ tries = [r \in Request |-> 0]
    /\ replied = {}

CallPing(r)         == [op |-> "ping", req |-> r, slot |-> 0, ok |-> FALSE]
CallDispatch(i, ok) == [op |-> "dispatch", req |-> None, slot |-> i, ok |-> ok]
AfterCallback(i, ok) == [op |-> "settle", req |-> None, slot |-> i, ok |-> ok]

Running(op) == stack # <<>> /\ stack[1].op = op
InLoop(where) == stack = <<>> /\ pc = where

\* findFreeSlot() >= 0, and the slot it returns.
HasFree  == \E i \in Slot : slots[i].state = "IDLE"
FreeSlot == CHOOSE i \in Slot :
                /\ slots[i].state = "IDLE"
                /\ \A j \in Slot : slots[j].state = "IDLE" => i <= j

-----------------------------------------------------------------------------
(* The public calls.  A user calls from outside loop(), or from a callback *)
(* (Answer); both push the call on the stack.  A ping by host name makes   *)
(* these same calls when DNS::query() calls back, with an address or with  *)
(* 0.0.0.0 for a name that could not be resolved.                          *)

\* r is registered: with retries a RetryContext is kept until the answer.
Register(r, n) ==
    /\ status' = [status EXCEPT ![r] = "open"]
    /\ asked' = [asked EXCEPT ![r] = n]
    /\ left' = [left EXCEPT ![r] = n]
    /\ retries' = IF n = 0 THEN retries ELSE retries \cup {r}
    /\ stack' = <<CallPing(r)>> \o stack

\* ping() with an address.  A call without retries keeps no context.
Ping(r, n) ==
    /\ InLoop("user") /\ status[r] = "new"
    /\ Register(r, n)
    /\ UNCHANGED <<slotVars, queue, nextSeq, loopVars, platformVars>>

\* ping() with the address 0.0.0.0: the callback gets false at once.
PingNowhere(r) ==
    /\ InLoop("user") /\ status[r] = "new"
    /\ status' = [status EXCEPT ![r] = "no target"]
    /\ UNCHANGED <<slotVars, queue, nextSeq, retries, left, asked, stack,
                   loopVars, platformVars>>

-----------------------------------------------------------------------------
(* ping() and startNextPending() start a request in a free slot.           *)

Occupy(i, r, seq) ==
    /\ slots' = [slots EXCEPT ![i] = [state |-> "PINGING", req |-> r, seq |-> seq]]
    /\ count' = count + 1
    /\ due' = due \ {i}
    /\ tries' = [tries EXCEPT ![r] = @ + 1]

\* The code keeps and compares sequence numbers modulo SeqMod.
SameSeq(a, b) == a % SeqMod = b % SeqMod

\* When a slot sends a number again, SeqMod pings later, the replies to its
\* last use have come or are lost.
UnderWay(i, seq) == {m \in net : ~(m.slot = i /\ SameSeq(m.seq, seq))}

\* Mutant: the reply flag of the slot is not reset.
SendOkStaleFlag(i, r, seq) ==
    /\ expected' = [expected EXCEPT ![i] = seq]
    /\ \/ net' = UnderWay(i, seq)
       \/ /\ Cardinality(UnderWay(i, seq)) < MaxNet
          /\ net' = UnderWay(i, seq) \cup {[slot |-> i, seq |-> seq, req |-> r]}
    /\ UNCHANGED <<platform, flag, replied>>

\* platformSendPing() succeeds; the host may answer or not.
SendOk(i, r, seq) ==
    /\ flag' = [flag EXCEPT ![i] = None]
    /\ expected' = [expected EXCEPT ![i] = seq]
    /\ \/ net' = UnderWay(i, seq)
       \/ /\ Cardinality(UnderWay(i, seq)) < MaxNet
          /\ net' = UnderWay(i, seq) \cup {[slot |-> i, seq |-> seq, req |-> r]}
    /\ UNCHANGED <<platform, replied>>

\* It fails before the slot's reply flag is reset, or after that.
SendFails(i, seq) ==
    /\ \/ UNCHANGED <<flag, expected>>
       \/ /\ flag' = [flag EXCEPT ![i] = None]
          /\ expected' = [expected EXCEPT ![i] = seq]
    /\ UNCHANGED <<platform, net, replied>>

\* Start r in slot i; on a failed send dispatchCallback() is called at once.
Start(i, r, seq, rest) ==
    /\ Occupy(i, r, seq)
    /\ \/ SendOk(i, r, seq) /\ stack' = rest
       \/ SendFails(i, seq) /\ stack' = <<CallDispatch(i, FALSE)>> \o rest

\* The body of ping(): start in a free slot ...
PingStarts ==
    /\ Running("ping") /\ HasFree
    /\ nextSeq' = nextSeq + 1
    /\ Start(FreeSlot, stack[1].req, nextSeq, Tail(stack))
    /\ UNCHANGED <<queue, ctxVars, loopVars>>

\* ... or wait in the queue, with the sequence number already taken.
PingWaits ==
    /\ Running("ping") /\ ~HasFree
    /\ nextSeq' = nextSeq + 1
    /\ queue' = Append(queue, [req |-> stack[1].req, seq |-> nextSeq])
    /\ stack' = Tail(stack)
    /\ UNCHANGED <<slotVars, ctxVars, loopVars, platformVars>>

-----------------------------------------------------------------------------
(* dispatchCallback(): the callback, then the new state of the slot.       *)

\* The user's callback gets its answer; the context is erased before.  The
\* callback may itself call ping() for another request.
Answer(r, ok, rest) ==
    /\ \/ /\ status' = [status EXCEPT ![r] = IF ok THEN "yes" ELSE "no"]
          /\ stack' = rest
          /\ retries' = retries \ {r}
          /\ UNCHANGED <<left, asked>>
       \/ \E s \in Request, n \in 0..MaxRetries :
             /\ status[s] = "new"
             /\ status' = [status EXCEPT ![r] = IF ok THEN "yes" ELSE "no",
                                         ![s] = "open"]
             /\ asked' = [asked EXCEPT ![s] = n]
             /\ left' = [left EXCEPT ![s] = n]
             /\ retries' = (retries \ {r}) \cup (IF n = 0 THEN {} ELSE {s})
             /\ stack' = <<CallPing(s)>> \o rest

Dispatched == slots[stack[1].slot].req
Settling   == <<AfterCallback(stack[1].slot, stack[1].ok)>> \o Tail(stack)

\* A reply, or the last attempt failed: the user is told.
CallbackAnswers ==
    /\ Running("dispatch")
    /\ stack[1].ok \/ Dispatched \notin retries \/ left[Dispatched] = 0
    /\ Answer(Dispatched, stack[1].ok, Settling)
    /\ UNCHANGED <<slotVars, queue, nextSeq, loopVars, platformVars>>

\* Mutant: one attempt too many.
CallbackRetriesAtZero ==
    /\ Running("dispatch")
    /\ ~stack[1].ok /\ Dispatched \in retries /\ left[Dispatched] >= 0
    /\ left' = [left EXCEPT ![Dispatched] = @ - 1]
    /\ stack' = <<CallPing(Dispatched)>> \o Settling
    /\ UNCHANGED <<slotVars, queue, nextSeq, retries, status, asked, loopVars,
                   platformVars>>

\* An attempt failed and one is left: innerCallback calls ping() again.
CallbackRetries ==
    /\ Running("dispatch")
    /\ ~stack[1].ok /\ Dispatched \in retries /\ left[Dispatched] > 0
    /\ left' = [left EXCEPT ![Dispatched] = @ - 1]
    /\ stack' = <<CallPing(Dispatched)>> \o Settling
    /\ UNCHANGED <<slotVars, queue, nextSeq, retries, status, asked, loopVars,
                   platformVars>>

\* Mutant: the slot is free at once.
SettleFrees ==
    /\ Running("settle")
    /\ slots' = [slots EXCEPT ![stack[1].slot] = IdleSlot]
    /\ stack' = Tail(stack)
    /\ UNCHANGED <<count, due, tries, queue, nextSeq, ctxVars, loopVars,
                   platformVars>>

\* Back in dispatchCallback(): the slot is done, its callback released.
Settle ==
    /\ Running("settle")
    /\ slots' = [slots EXCEPT
           ![stack[1].slot].state = IF stack[1].ok THEN "SUCCESS" ELSE "TIMEOUT",
           ![stack[1].slot].req = None]
    /\ stack' = Tail(stack)
    /\ UNCHANGED <<count, due, tries, queue, nextSeq, ctxVars, loopVars,
                   platformVars>>

-----------------------------------------------------------------------------
(* loop().                                                                 *)

\* Mutant: loop() runs for waiting requests only.
LoopEntersForQueue ==
    /\ InLoop("user") /\ queue # <<>>
    /\ pc' = "check" /\ scan' = 0
    /\ UNCHANGED <<slotVars, queue, nextSeq, ctxVars, stack, platformVars>>

LoopEnters ==
    /\ InLoop("user") /\ (count # 0 \/ queue # <<>>)
    /\ pc' = "check" /\ scan' = 0
    /\ UNCHANGED <<slotVars, queue, nextSeq, ctxVars, stack, platformVars>>

Skips(where) ==
    /\ InLoop(where) /\ scan < Parallel
    /\ scan' = scan + 1
    /\ UNCHANGED <<slotVars, queue, nextSeq, ctxVars, pc>>

\* checkReplies(): platformCheckReply() of a PINGING slot takes its flag.
CheckHit ==
    /\ InLoop("check") /\ scan < Parallel
    /\ slots[scan].state = "PINGING" /\ flag[scan] # None
    /\ flag' = [flag EXCEPT ![scan] = None]
    /\ stack' = <<CallDispatch(scan, TRUE)>>
    /\ scan' = scan + 1
    /\ UNCHANGED <<slotVars, queue, nextSeq, ctxVars, pc, platform,
                   expected, net, replied>>

CheckMiss ==
    /\ Skips("check")
    /\ slots[scan].state # "PINGING" \/ flag[scan] = None
    /\ UNCHANGED <<stack, platformVars>>

\* Less than 50 ms since the last pass: loop() returns.
LoopReturnsEarly ==
    /\ InLoop("check") /\ scan = Parallel
    /\ pc' = "user" /\ scan' = 0
    /\ UNCHANGED <<slotVars, queue, nextSeq, ctxVars, stack, platformVars>>

LoopGoesOn ==
    /\ InLoop("check") /\ scan = Parallel
    /\ pc' = "timeouts" /\ scan' = 0
    /\ UNCHANGED <<slotVars, queue, nextSeq, ctxVars, stack, platformVars>>

\* processTimeouts(): the attempt is given up, a late reply flag cleared.
TimeoutFires ==
    /\ InLoop("timeouts") /\ scan < Parallel
    /\ slots[scan].state = "PINGING" /\ scan \in due
    /\ flag' = [flag EXCEPT ![scan] = None]
    /\ stack' = <<CallDispatch(scan, FALSE)>>
    /\ scan' = scan + 1
    /\ UNCHANGED <<slotVars, queue, nextSeq, ctxVars, pc, platform,
                   expected, net, replied>>

\* processTimeouts(): a finished slot becomes free.
SlotFreed ==
    /\ InLoop("timeouts") /\ scan < Parallel
    /\ slots[scan].state \in {"SUCCESS", "TIMEOUT"}
    /\ slots' = [slots EXCEPT ![scan].state = "IDLE"]
    /\ count' = count - 1
    /\ scan' = scan + 1
    /\ UNCHANGED <<due, tries, queue, nextSeq, ctxVars, stack, pc,
                   platformVars>>

TimeoutSkips ==
    /\ Skips("timeouts")
    /\ slots[scan].state = "IDLE" \/ (slots[scan].state = "PINGING" /\ scan \notin due)
    /\ UNCHANGED <<stack, platformVars>>

TimeoutsDone ==
    /\ InLoop("timeouts") /\ scan = Parallel
    /\ pc' = "pending" /\ scan' = 0
    /\ UNCHANGED <<slotVars, queue, nextSeq, ctxVars, stack, platformVars>>

\* startNextPending(): one round of its while loop ...
PendingStarts ==
    /\ InLoop("pending") /\ queue # <<>> /\ HasFree
    /\ queue' = Tail(queue)
    /\ Start(FreeSlot, queue[1].req, queue[1].seq, <<>>)
    /\ UNCHANGED <<nextSeq, ctxVars, loopVars>>

\* ... and its end, which is the end of loop().
LoopEnds ==
    /\ InLoop("pending") /\ (queue = <<>> \/ ~HasFree)
    /\ pc' = "user" /\ scan' = 0
    /\ UNCHANGED <<slotVars, queue, nextSeq, ctxVars, stack, platformVars>>

-----------------------------------------------------------------------------
(* The world: time, and echo replies that may be late, doubled or lost.    *)

TimeElapses(i) ==
    /\ slots[i].state = "PINGING" /\ i \notin due
    /\ due' = due \cup {i}
    /\ UNCHANGED <<slots, count, tries, queue, nextSeq, ctxVars, stack,
                   loopVars, platformVars>>

\* Whether the platform credits the reply m to the slot it names.
Accepts(m) ==
    IF platform = "RP2040" THEN SameSeq(m.seq, expected[m.slot])
    ELSE slots[m.slot].state = "PINGING" /\ SameSeq(m.seq, slots[m.slot].seq)

\* icmpRecvCallback(), or the drain of the socket in platformCheckReply().
Receive(m) ==
    /\ platform = "ESP32" => InLoop("check") /\ scan < Parallel
                             /\ slots[scan].state = "PINGING"
    /\ flag' = IF Accepts(m) THEN [flag EXCEPT ![m.slot] = m.req] ELSE flag
    /\ net' \in {net, net \ {m}}
    /\ replied' = replied \cup {m.req}
    /\ UNCHANGED <<slotVars, queue, nextSeq, ctxVars, stack, loopVars,
                   platform, expected>>

User == \E r \in Request : (\E n \in 0..MaxRetries : Ping(r, n)) \/ PingNowhere(r)
Calls == PingStarts \/ PingWaits \/ CallbackAnswers \/ CallbackRetries \/ Settle
Loop  == \/ LoopEnters \/ CheckHit \/ CheckMiss \/ LoopReturnsEarly \/ LoopGoesOn
         \/ TimeoutFires \/ SlotFreed \/ TimeoutSkips \/ TimeoutsDone
         \/ PendingStarts \/ LoopEnds
World == (\E i \in Slot : TimeElapses(i)) \/ (\E m \in net : Receive(m))

Next == User \/ Calls \/ Loop \/ World

Spec == Init /\ [][Next]_vars

(* loop() is called again and again, since power is not saved for ever     *)
(* (Module.cpp:627), time goes on, and 50 ms pass.                         *)
Fairness ==
    /\ WF_vars(Calls \/ Loop)
    /\ SF_vars(LoopGoesOn)
    /\ \A i \in Slot : WF_vars(TimeElapses(i))

FairSpec == Spec /\ Fairness

-----------------------------------------------------------------------------
(* Properties.                                                             *)

Frame == [op : {"ping", "dispatch", "settle"}, req : Request \cup {None},
          slot : Slot, ok : BOOLEAN]

\* Every variable has its type.
TypeOK ==
    /\ platform \in Platforms
    /\ slots \in [Slot -> [state : {"IDLE", "PINGING", "TIMEOUT", "SUCCESS"},
                           req : Request \cup {None}, seq : Nat]]
    /\ queue \in Seq([req : Request, seq : Nat])
    /\ count \in 0..Parallel /\ nextSeq \in Nat
    /\ retries \subseteq Request /\ left \in [Request -> 0..MaxRetries]
    /\ stack \in Seq(Frame)
    /\ pc \in {"user", "check", "timeouts", "pending"} /\ scan \in 0..Parallel
    /\ due \subseteq Slot /\ flag \in [Slot -> Request \cup {None}]
    /\ expected \in [Slot -> Nat]
    /\ net \subseteq [slot : Slot, seq : Nat, req : Request]
    /\ status \in [Request -> {"new", "open", "yes", "no", "no target"}]
    /\ asked \in [Request -> 0..MaxRetries]
    /\ tries \in [Request -> 0 .. MaxRetries + 1]
    /\ replied \subseteq Request

\* A slot whose callback has run but which dispatchCallback() has not yet
\* marked done.
Settled(i) == \E k \in 1..Len(stack) : stack[k].op = "settle" /\ stack[k].slot = i

\* Where the callback of r is kept: slots, queue places, calls in progress.
Holders(r) ==
    {<<"slot", i>> : i \in {i \in Slot : slots[i].req = r /\ ~Settled(i)}}
    \cup {<<"queue", k>> : k \in {k \in 1..Len(queue) : queue[k].req = r}}
    \cup {<<"call", k>> : k \in {k \in 1..Len(stack) :
                            stack[k].op = "ping" /\ stack[k].req = r}}

\* A request that was accepted and not yet answered is in exactly one place,
\* an answered one in none: no callback is lost between slots, queue and the
\* nested calls, and none can be called twice.
OneHolder ==
    \A r \in Request : Cardinality(Holders(r)) = IF status[r] = "open" THEN 1 ELSE 0

\* _activePingCount, which loop() trusts to return early, counts the slots
\* that are not IDLE, through every nesting of callbacks.
CountMatchesSlots == count = Cardinality({i \in Slot : slots[i].state # "IDLE"})

\* Outside loop() a request waits only while every slot is taken.
NoIdleSlotWhileWaiting == InLoop("user") /\ queue # <<>> => ~HasFree

\* A RetryContext lives exactly as long as its request is unanswered: an
\* early release would silently drop the callback (weak.lock() fails).
ContextsKept ==
    retries = {r \in Request : status[r] = "open" /\ asked[r] > 0}

\* A user told "not reachable" got all the attempts asked for, and never
\* more than those are made (README.Ping.md: retries = 2 gives 3 attempts).
AllAttemptsMade ==
    \A r \in Request : /\ tries[r] <= asked[r] + 1
                       /\ status[r] = "no" => tries[r] = asked[r] + 1

\* Together: through every nesting of callbacks, callbacks, contexts, slots,
\* queue and counter agree.
Bookkeeping ==
    /\ OneHolder /\ CountMatchesSlots /\ NoIdleSlotWhileWaiting
    /\ ContextsKept /\ AllAttemptsMade

\* A user told "reachable" was answered by the host pinged: a late reply is
\* never credited to another request that has got the slot since.
OnlyOwnReplies == \A r \in Request : status[r] = "yes" => r \in replied

\* Every request is answered in the end, replies lost or not.
EveryPingAnswered ==
    \A r \in Request : status[r] = "open" ~> status[r] \in {"yes", "no"}
=============================================================================
