----------------------------- MODULE PingProofs -----------------------------
(***************************************************************************)
(* Theorems about Ping for every number of slots, requests and retries:    *)
(* each accepted request has exactly one place from the call of ping() to  *)
(* its answer, and nobody is told "reachable" by a reply to another's ping.*)
(***************************************************************************)
EXTENDS Ping, FiniteSetTheorems, SequenceTheorems, NaturalsInduction,
        WellFoundedInduction, TLAPS

(* The stack: calls of dispatchCallback() that wait for a callback lie     *)
(* under the innermost call, each for a slot of its own.                   *)

Settles(s) ==
    {i \in Slot : \E k \in 1..Len(s) : s[k].op = "settle" /\ s[k].slot = i}

Waits(s) ==
    /\ \A k \in 1..Len(s) : s[k].op = "settle"
    /\ \A k, l \in 1..Len(s) : s[k].slot = s[l].slot => k = l

Fits(f, s) == IF f.op = "ping" THEN f.req \in Request ELSE f.slot \notin Settles(s)

Nested(s) == s # <<>> => Waits(Tail(s)) /\ Fits(s[1], Tail(s))

\* The slots whose callback is being called or has been.
OfSlot(f) == IF f.op = "ping" THEN {} ELSE {f.slot}
Ends(s)   == IF s = <<>> THEN {} ELSE Settles(Tail(s)) \cup OfSlot(s[1])

StackInv ==
    /\ Nested(stack)
    /\ \A i \in Ends(stack) : slots[i].state = "PINGING"

(* Where a request is.                                                     *)

Unanswered(i) == slots[i].req # None /\ ~Settled(i)

InSlot(r)  == \E i \in Slot : Unanswered(i) /\ slots[i].req = r
Waiting(r) == \E k \in 1..Len(queue) : queue[k].req = r
Called(r)  == Running("ping") /\ stack[1].req = r

\* A request has a place as long as it is unanswered, and only one.
PlaceInv ==
    /\ \A i \in Slot : slots[i].state = "PINGING" <=> slots[i].req # None
    /\ \A i, j \in Slot :
          Unanswered(i) /\ Unanswered(j) /\ slots[i].req = slots[j].req => i = j
    /\ \A k, l \in 1..Len(queue) : queue[k].req = queue[l].req => k = l
    /\ \A r \in Request :
          /\ status[r] = "open" <=> InSlot(r) \/ Waiting(r) \/ Called(r)
          /\ ~(InSlot(r) /\ Waiting(r))
          /\ ~(InSlot(r) /\ Called(r))
          /\ ~(Waiting(r) /\ Called(r))

\* What has been tried and what is left make what was asked for.
AttemptInv ==
    \A r \in Request :
        /\ left[r] <= asked[r] /\ tries[r] <= asked[r] + 1
        /\ InSlot(r) => tries[r] + left[r] = asked[r] + 1
        /\ Waiting(r) \/ Called(r) => tries[r] + left[r] = asked[r]
        /\ status[r] = "no" => tries[r] = asked[r] + 1
        /\ status[r] \in {"new", "no target"} => tries[r] = 0

\* From one pass of processTimeouts() to the next no slot becomes free.
FullInv == pc \in {"user", "check"} /\ queue # <<>> => ~HasFree

\* A slot that waits for its reply knows its own, and no reply under way
\* with its number is another's.
ReplyInv ==
    /\ \A i \in Slot : slots[i].state = "PINGING" /\ i \notin Ends(stack) =>
          /\ expected[i] = slots[i].seq
          /\ flag[i] # None => flag[i] = slots[i].req /\ flag[i] \in replied
          /\ \A m \in net : m.slot = i /\ SameSeq(m.seq, slots[i].seq)
                                => m.req = slots[i].req
    /\ Running("dispatch") /\ stack[1].ok => Dispatched \in replied
    /\ OnlyOwnReplies

IInv == /\ TypeOK /\ StackInv /\ PlaceInv /\ AttemptInv /\ CountMatchesSlots
        /\ ContextsKept /\ FullInv /\ ReplyInv

-----------------------------------------------------------------------------
(* The stack.                                                              *)

\* What lies on a stack, and under its first frame.
LEMMA PushFacts ==
    ASSUME NEW t \in Seq(Frame), NEW f \in Frame, NEW s, s = <<f>> \o t
    PROVE  /\ s \in Seq(Frame) /\ s # <<>> /\ s[1] = f /\ Tail(s) = t
           /\ Len(s) = Len(t) + 1
           /\ \A k \in 1..Len(t) : s[k + 1] = t[k]
  <1>1. /\ s \in Seq(Frame) /\ Len(t) \in Nat /\ Len(s) = Len(t) + 1 /\ s[1] = f
        /\ \A k \in 1..Len(t) : s[k + 1] = t[k]
    OBVIOUS
  <1>2. s # <<>>
    BY <1>1
  <1>3. /\ Tail(s) \in Seq(Frame) /\ Len(Tail(s)) = Len(t)
        /\ \A k \in 1..Len(t) : Tail(s)[k] = s[k + 1]
    BY <1>1, <1>2
  <1>4. \A k \in 1..Len(t) : Tail(s)[k] = t[k]
    BY <1>1, <1>3
  <1>5. Tail(s) = t
    BY <1>3, <1>4, SeqEqual
  <1> QED
    BY <1>1, <1>2, <1>5

\* What is under the first frame of a stack.
LEMMA PopFacts ==
    ASSUME NEW s \in Seq(Frame), s # <<>>
    PROVE  /\ s[1] \in Frame /\ Tail(s) \in Seq(Frame)
           /\ Len(s) \in Nat \ {0} /\ Len(Tail(s)) = Len(s) - 1
           /\ \A k \in 1..Len(s) - 1 : Tail(s)[k] = s[k + 1]
  OBVIOUS

\* A sequence without its first element.
LEMMA TakeFacts ==
    ASSUME NEW S, NEW s \in Seq(S), s # <<>>
    PROVE  /\ Len(s) \in Nat \ {0} /\ s[1] \in S /\ Tail(s) \in Seq(S)
           /\ Len(Tail(s)) = Len(s) - 1
           /\ \A k \in 1..Len(s) - 1 : Tail(s)[k] = s[k + 1]
  OBVIOUS

\* A sequence with one element more.
LEMMA AppendFacts ==
    ASSUME NEW S, NEW s \in Seq(S), NEW e \in S
    PROVE  /\ Append(s, e) \in Seq(S) /\ Len(Append(s, e)) = Len(s) + 1
           /\ Len(s) \in Nat /\ Append(s, e)[Len(s) + 1] = e
           /\ \A k \in 1..Len(s) : Append(s, e)[k] = s[k]
  OBVIOUS

\* The fields of a call in progress.
LEMMA FrameFacts ==
    ASSUME NEW f \in Frame
    PROVE  /\ f.op \in {"ping", "dispatch", "settle"}
           /\ f.req \in Request \cup {None}
           /\ f.slot \in Slot /\ f.ok \in BOOLEAN
  BY DEF Frame

\* No call in progress.
LEMMA EmptyStack ==
    /\ <<>> \in Seq(Frame) /\ Waits(<<>>) /\ Settles(<<>>) = {}
    /\ Nested(<<>>) /\ Ends(<<>>) = {}
  BY DEF Waits, Settles, Nested, Ends

\* The slots of a stack are those under its first frame, and that frame's.
LEMMA SettlesFacts ==
    ASSUME NEW s \in Seq(Frame), s # <<>>
    PROVE  Settles(s) = Settles(Tail(s))
                        \cup (IF s[1].op = "settle" THEN {s[1].slot} ELSE {})
  <1>1. /\ Len(s) \in Nat \ {0} /\ Len(Tail(s)) = Len(s) - 1 /\ s[1] \in Frame
        /\ \A k \in 1..Len(s) - 1 : Tail(s)[k] = s[k + 1]
    BY PopFacts
  <1>2. s[1].slot \in Slot /\ 1 \in 1..Len(s)
    BY <1>1, FrameFacts
  <1>3. ASSUME NEW i \in Settles(s)
        PROVE  i \in Settles(Tail(s)) \/ (s[1].op = "settle" /\ i = s[1].slot)
    <2>1. PICK k \in 1..Len(s) : s[k].op = "settle" /\ s[k].slot = i
      BY <1>3 DEF Settles
    <2>2. CASE k = 1
      BY <2>1, <2>2
    <2>3. CASE k # 1
      <3>1. k - 1 \in 1..Len(s) - 1 /\ (k - 1) + 1 = k
        BY <2>3, <1>1
      <3>2. Tail(s)[k - 1] = s[k]
        BY <3>1, <1>1
      <3> QED
        BY <3>1, <3>2, <2>1, <1>1, <1>3 DEF Settles
    <2> QED
      BY <2>2, <2>3
  <1>4. ASSUME NEW i \in Settles(Tail(s))
        PROVE  i \in Settles(s)
    <2>1. PICK k \in 1..Len(s) - 1 : Tail(s)[k].op = "settle" /\ Tail(s)[k].slot = i
      BY <1>4, <1>1 DEF Settles
    <2>2. k + 1 \in 1..Len(s) /\ s[k + 1] = Tail(s)[k]
      BY <2>1, <1>1
    <2> QED
      BY <2>1, <2>2, <1>4 DEF Settles
  <1>5. s[1].op = "settle" => s[1].slot \in Settles(s)
    BY <1>2 DEF Settles
  <1> QED
    BY <1>3, <1>4, <1>5

\* A frame that waits for its callback may lie under the next.
LEMMA WaitsPush ==
    ASSUME NEW t \in Seq(Frame), NEW f \in Frame, Waits(t),
           f.op = "settle", f.slot \notin Settles(t)
    PROVE  Waits(<<f>> \o t)
  <1> DEFINE s == <<f>> \o t
  <1>1. /\ s \in Seq(Frame) /\ s[1] = f /\ Len(s) = Len(t) + 1 /\ Len(t) \in Nat
        /\ \A k \in 1..Len(t) : s[k + 1] = t[k]
    BY PushFacts
  <1> HIDE DEF s
  <1>2. ASSUME NEW k \in 1..Len(s), k # 1
        PROVE  /\ k - 1 \in 1..Len(t) /\ s[k] = t[k - 1]
               /\ s[k].op = "settle" /\ s[k].slot # f.slot
    <2>1. k - 1 \in 1..Len(t) /\ (k - 1) + 1 = k
      BY <1>1, <1>2
    <2>2. s[k] = t[k - 1] /\ t[k - 1] \in Frame /\ t[k - 1].op = "settle"
      BY <1>1, <2>1 DEF Waits
    <2>3. t[k - 1].slot \in Slot
      BY <2>2, FrameFacts
    <2>4. t[k - 1].slot \in Settles(t)
      BY <2>1, <2>2, <2>3 DEF Settles
    <2> QED
      BY <2>1, <2>2, <2>4
  <1>3. \A k \in 1..Len(s) : s[k].op = "settle"
    BY <1>1, <1>2
  <1>4. ASSUME NEW k \in 1..Len(s), NEW l \in 1..Len(s), s[k].slot = s[l].slot
        PROVE  k = l
    <2>1. CASE k = 1 \/ l = 1
      BY <2>1, <1>1, <1>2, <1>4
    <2>2. CASE k # 1 /\ l # 1
      <3>1. k - 1 = l - 1
        BY <2>2, <1>2, <1>4 DEF Waits
      <3> QED
        BY <3>1
    <2> QED
      BY <2>1, <2>2
  <1>5. Waits(s)
    BY <1>3, <1>4 DEF Waits
  <1> QED
    BY <1>5 DEF s

\* When the first of them goes on, what lay under it still waits.
LEMMA WaitsPop ==
    ASSUME NEW s \in Seq(Frame), Waits(s), s # <<>>
    PROVE  Waits(Tail(s)) /\ s[1].op = "settle" /\ s[1].slot \notin Settles(Tail(s))
  <1>1. /\ Len(s) \in Nat \ {0} /\ Len(Tail(s)) = Len(s) - 1
        /\ \A k \in 1..Len(s) - 1 : Tail(s)[k] = s[k + 1]
    BY PopFacts
  <1>2. 1 \in 1..Len(s) /\ \A k \in 1..Len(s) - 1 : k + 1 \in 1..Len(s) /\ k + 1 # 1
    BY <1>1
  <1>3. ASSUME NEW k \in 1..Len(s) - 1, NEW l \in 1..Len(s) - 1,
               Tail(s)[k].slot = Tail(s)[l].slot
        PROVE  k = l
    <2>1. k + 1 = l + 1
      BY <1>1, <1>2, <1>3 DEF Waits
    <2> QED
      BY <2>1
  <1>4. \A k \in 1..Len(s) - 1 : Tail(s)[k].op = "settle" /\ Tail(s)[k].slot # s[1].slot
    BY <1>1, <1>2 DEF Waits
  <1> QED
    BY <1>1, <1>2, <1>3, <1>4 DEF Waits, Settles

\* A call on top of calls that wait.
LEMMA CallFacts ==
    ASSUME NEW t \in Seq(Frame), NEW f \in Frame, Waits(t), Fits(f, t)
    PROVE  LET s == <<f>> \o t
           IN  /\ s \in Seq(Frame) /\ s # <<>> /\ s[1] = f /\ Tail(s) = t
               /\ Nested(s) /\ Ends(s) = Settles(t) \cup OfSlot(f)
               /\ f.op # "settle" => Settles(s) = Settles(t)
               /\ f.op = "settle" => Waits(s) /\ Settles(s) = Settles(t) \cup {f.slot}
  <1> DEFINE s == <<f>> \o t
  <1>1. s \in Seq(Frame) /\ s # <<>> /\ s[1] = f /\ Tail(s) = t
    BY PushFacts
  <1> HIDE DEF s
  <1>2. Settles(s) = Settles(t) \cup (IF f.op = "settle" THEN {f.slot} ELSE {})
    BY <1>1, SettlesFacts
  <1>3. f.op = "settle" => Waits(s)
    BY WaitsPush DEF Fits, s
  <1>4. Nested(s) /\ Ends(s) = Settles(t) \cup OfSlot(f)
    BY <1>1 DEF Nested, Ends
  <1> QED
    BY <1>1, <1>2, <1>3, <1>4 DEF s

\* What is left when the innermost call returns.
LEMMA RestFacts ==
    ASSUME NEW s \in Seq(Frame), Nested(s), s # <<>>
    PROVE  /\ Tail(s) \in Seq(Frame) /\ Waits(Tail(s)) /\ Nested(Tail(s))
           /\ Ends(Tail(s)) = Settles(Tail(s))
           /\ Ends(s) = Settles(Tail(s)) \cup OfSlot(s[1])
           /\ s[1] \in Frame /\ Fits(s[1], Tail(s))
           /\ Settles(s) = Settles(Tail(s))
                           \cup (IF s[1].op = "settle" THEN {s[1].slot} ELSE {})
  <1> DEFINE t == Tail(s)
  <1>1. t \in Seq(Frame) /\ s[1] \in Frame
    BY PopFacts
  <1>2. Waits(t) /\ Fits(s[1], t) /\ Ends(s) = Settles(t) \cup OfSlot(s[1])
    BY DEF Nested, Ends
  <1> HIDE DEF t
  <1>3. CASE t = <<>>
    BY <1>1, <1>2, <1>3, EmptyStack, SettlesFacts DEF t
  <1>4. CASE t # <<>>
    <2>1. Waits(Tail(t)) /\ t[1].op = "settle" /\ t[1].slot \notin Settles(Tail(t))
      BY <1>1, <1>2, <1>4, WaitsPop
    <2>2. Settles(t) = Settles(Tail(t)) \cup {t[1].slot}
      BY <1>1, <1>4, <2>1, SettlesFacts
    <2>3. Nested(t) /\ Ends(t) = Settles(t)
      BY <2>1, <2>2, <1>4 DEF Nested, Ends, Fits, OfSlot
    <2> QED
      BY <1>1, <1>2, <2>3, SettlesFacts DEF t
  <1> QED
    BY <1>3, <1>4

-----------------------------------------------------------------------------
(* What steps have in common.                                              *)

\* A slot is settled while its "settle" call lies on the stack.
LEMMA SettledIs ==
    \A i \in Slot : /\ Settled(i) <=> i \in Settles(stack)
                    /\ Settled(i)' <=> i \in Settles(stack')
  BY DEF Settled, Settles

\* There are Parallel slots.
LEMMA SlotCount == IsFiniteSet(Slot) /\ Cardinality(Slot) = Parallel
  <1>1. Parallel \in Nat \ {0}
    BY PingAssumption
  <1>2. IsFiniteSet(0 .. Parallel - 1)
        /\ Cardinality(0 .. Parallel - 1) =
              (IF 0 > Parallel - 1 THEN 0 ELSE (Parallel - 1) - 0 + 1)
    BY <1>1, FS_Interval
  <1>3. Cardinality(0 .. Parallel - 1) = Parallel
    BY <1>1, <1>2
  <1> QED
    BY <1>2, <1>3 DEF Slot

Busy == {i \in Slot : slots[i].state # "IDLE"}

\* One more slot is taken, or one given back.
LEMMA CountOn ==
    ASSUME NEW i \in Slot, CountMatchesSlots, i \notin Busy, count' = count + 1,
           Busy' = Busy \cup {i}
    PROVE  CountMatchesSlots' /\ count' \in 0..Parallel
  <1>1. /\ Busy \subseteq Slot /\ Busy' \subseteq Slot
        /\ IsFiniteSet(Busy) /\ IsFiniteSet(Busy')
        /\ Cardinality(Busy') <= Cardinality(Slot)
    <2>1. Busy \subseteq Slot /\ Busy' \subseteq Slot
      BY DEF Busy
    <2> QED
      BY <2>1, SlotCount, FS_Subset
  <1>2. Cardinality(Busy') = Cardinality(Busy) + 1
    BY <1>1, FS_AddElement
  <1>3. Cardinality(Busy') \in Nat
    BY <1>1, FS_CardinalityType
  <1>4. count' = Cardinality(Busy')
    BY <1>2 DEF CountMatchesSlots, Busy
  <1>5. Parallel \in Nat
    BY PingAssumption
  <1> QED
    BY <1>1, <1>3, <1>4, <1>5, SlotCount DEF CountMatchesSlots, Busy

\* One slot is given back.
LEMMA CountBack ==
    ASSUME NEW i \in Slot, CountMatchesSlots, i \in Busy, count' = count - 1,
           Busy' = Busy \ {i}
    PROVE  CountMatchesSlots' /\ count' \in 0..Parallel
  <1>1. /\ Busy \subseteq Slot /\ Busy' \subseteq Slot
        /\ IsFiniteSet(Busy) /\ IsFiniteSet(Busy')
        /\ Cardinality(Busy') <= Cardinality(Slot)
    <2>1. Busy \subseteq Slot /\ Busy' \subseteq Slot
      BY DEF Busy
    <2> QED
      BY <2>1, SlotCount, FS_Subset
  <1>2. Cardinality(Busy') = Cardinality(Busy) - 1
    BY <1>1, FS_RemoveElement
  <1>3. Cardinality(Busy') \in Nat
    BY <1>1, FS_CardinalityType
  <1>4. count' = Cardinality(Busy')
    BY <1>2 DEF CountMatchesSlots, Busy
  <1>5. Parallel \in Nat
    BY PingAssumption
  <1> QED
    BY <1>1, <1>3, <1>4, <1>5, SlotCount DEF CountMatchesSlots, Busy

\* Requests keep their places while slots, queue and calls of ping() are the
\* same.
LEMMA PlaceKept ==
    ASSUME PlaceInv, AttemptInv,
           UNCHANGED <<slots, queue, status, asked, left, tries>>,
           Settles(stack') = Settles(stack),
           \A r \in Request : Called(r)' <=> Called(r)
    PROVE  PlaceInv' /\ AttemptInv'
  <1>1. \A i \in Slot : Unanswered(i)' <=> Unanswered(i)
    BY SettledIs DEF Unanswered
  <1>2. \A r \in Request : /\ InSlot(r)' <=> InSlot(r)
                           /\ Waiting(r)' <=> Waiting(r)
    BY <1>1 DEF InSlot, Waiting
  <1>3. PlaceInv'
    <2>1. \A i \in Slot : slots'[i].state = "PINGING" <=> slots'[i].req # None
      BY DEF PlaceInv
    <2>2. \A i, j \in Slot : Unanswered(i)' /\ Unanswered(j)'
                             /\ slots'[i].req = slots'[j].req => i = j
      BY <1>1 DEF PlaceInv
    <2>3. \A k, l \in 1..Len(queue') : queue'[k].req = queue'[l].req => k = l
      BY DEF PlaceInv
    <2>4. \A r \in Request :
             /\ status'[r] = "open" <=> InSlot(r)' \/ Waiting(r)' \/ Called(r)'
             /\ ~(InSlot(r)' /\ Waiting(r)')
             /\ ~(InSlot(r)' /\ Called(r)')
             /\ ~(Waiting(r)' /\ Called(r)')
      BY <1>2 DEF PlaceInv
    <2> QED
      BY <2>1, <2>2, <2>3, <2>4 DEF PlaceInv
  <1>4. AttemptInv'
    BY <1>2 DEF AttemptInv
  <1> QED
    BY <1>3, <1>4

\* Steps of loop() and of the clock that change none of the calls' places.
LEMMA QuietStep ==
    ASSUME IInv,
           UNCHANGED <<slots, count, tries, queue, nextSeq, ctxVars, stack,
                       platformVars>>,
           due' \subseteq Slot, pc' \in {"user", "check", "timeouts", "pending"},
           scan' \in 0..Parallel,
           pc' \in {"user", "check"} /\ queue # <<>> => ~HasFree
    PROVE  IInv'
  <1> USE DEF platformVars, ctxVars
  <1>1. TypeOK'
    BY DEF IInv, TypeOK
  <1>2. StackInv'
    BY DEF IInv, StackInv
  <1>3. PlaceInv' /\ AttemptInv'
    BY PlaceKept DEF IInv, Called, Running
  <1>4. CountMatchesSlots' /\ ContextsKept' /\ FullInv'
    BY DEF IInv, CountMatchesSlots, ContextsKept, FullInv, HasFree
  <1>5. ReplyInv'
    BY DEF IInv, ReplyInv, OnlyOwnReplies, Running, Dispatched
  <1> QED
    BY <1>1, <1>2, <1>3, <1>4, <1>5 DEF IInv

-----------------------------------------------------------------------------
(* A request is started in a free slot, by ping() or startNextPending().   *)

\* A set of numbers has a least one.
LEMMA SmallestNat ==
    ASSUME NEW T, T \subseteq Nat, T # {}
    PROVE  \E m \in T : \A r \in T : m <= r
  <1>1. \E m \in T : \A r \in T : <<r, m>> \notin OpToRel(<, Nat)
    BY NatLessThanWellFounded, WFMin
  <1>2. \A r, m \in Nat : r < m => <<r, m>> \in OpToRel(<, Nat)
    BY Zenon DEF OpToRel
  <1>3. \E m \in T : \A r \in T : ~(r < m)
    BY <1>1, <1>2, Zenon
  <1> QED
    BY <1>3

\* findFreeSlot() returns a free slot when there is one.
LEMMA FreeSlotFacts ==
    ASSUME HasFree, TypeOK
    PROVE  FreeSlot \in Slot /\ slots[FreeSlot].state = "IDLE"
  <1> DEFINE Free == {i \in Slot : slots[i].state = "IDLE"}
  <1>1. PICK k \in Slot : slots[k].state = "IDLE"
    BY DEF HasFree
  <1>2. k \in Nat /\ Slot \subseteq Nat
    BY PingAssumption DEF Slot
  <1>3. \E i \in Free : \A j \in Free : i <= j
    <2>1. Free \subseteq Nat /\ Free # {}
      BY <1>1, <1>2
    <2> QED
      BY <2>1, SmallestNat
  <1>4. \E i \in Slot : /\ slots[i].state = "IDLE"
                        /\ \A j \in Slot : slots[j].state = "IDLE" => i <= j
    BY <1>3
  <1> QED
    BY <1>4 DEF FreeSlot

\* A free slot is taken: slots, count, flags and stack afterwards.
LEMMA StartStep ==
    ASSUME IInv, NEW f \in Slot, slots[f].state = "IDLE",
           NEW r \in Request, NEW seq \in Nat,
           NEW rest \in Seq(Frame), Waits(rest),
           Settles(rest) = Settles(stack), Ends(stack) = Settles(rest),
           Start(f, r, seq, rest),
           ~InSlot(r), tries[r] + left[r] = asked[r],
           UNCHANGED <<left, asked, status>>
    PROVE  /\ slots' \in [Slot -> [state : {"IDLE", "PINGING", "TIMEOUT", "SUCCESS"},
                                   req : Request \cup {None}, seq : Nat]]
           /\ count' \in 0..Parallel /\ due' \subseteq Slot
           /\ stack' \in Seq(Frame)
           /\ flag' \in [Slot -> Request \cup {None}]
           /\ expected' \in [Slot -> Nat] /\ UNCHANGED <<platform, replied>>
           /\ net' \subseteq [slot : Slot, seq : Nat, req : Request]
           /\ tries' \in [Request -> 0 .. MaxRetries + 1]
           /\ StackInv' /\ CountMatchesSlots' /\ ReplyInv'
           /\ \A i \in Slot : slots'[i].state = "PINGING" <=> slots'[i].req # None
           /\ \A i, j \in Slot : Unanswered(i)' /\ Unanswered(j)'
                                 /\ slots'[i].req = slots'[j].req => i = j
           /\ \A q \in Request : /\ InSlot(q)' <=> InSlot(q) \/ q = r
                                 /\ ~Called(q)'
           /\ \A q \in Request : tries'[q] = IF q = r THEN tries[q] + 1 ELSE tries[q]
           /\ HasFree
  <1> DEFINE g == CallDispatch(f, FALSE)
             Entry == [state : {"IDLE", "PINGING", "TIMEOUT", "SUCCESS"},
                       req : Request \cup {None}, seq : Nat]
             new == [state |-> "PINGING", req |-> r, seq |-> seq]
             reply == [slot |-> f, seq |-> seq, req |-> r]
  <1>1. f \in Slot /\ slots[f].state = "IDLE"
    OBVIOUS
  <1>2. /\ slots' = [slots EXCEPT ![f] = new] /\ count' = count + 1
        /\ due' = due \ {f} /\ tries' = [tries EXCEPT ![r] = @ + 1]
        /\ \/ SendOk(f, r, seq) /\ stack' = rest
           \/ SendFails(f, seq) /\ stack' = <<g>> \o rest
    BY DEF Start, Occupy
  <1>3. g \in Frame /\ g.op = "dispatch" /\ g.slot = f /\ g.ok = FALSE
    BY <1>1 DEF CallDispatch, Frame
  <1>4. new \in Entry /\ new.state = "PINGING" /\ new.req = r /\ new.seq = seq
        /\ reply \in [slot : Slot, seq : Nat, req : Request]
        /\ reply.slot = f /\ reply.seq = seq /\ reply.req = r
    BY <1>1
  <1> HIDE DEF g, new, reply
  <1>5. f \notin Ends(stack) /\ f \notin Settles(stack)
    BY <1>1 DEF IInv, StackInv
  <1>6. Fits(g, rest)
    BY <1>3, <1>5 DEF Fits
  <1>7. /\ stack' \in Seq(Frame) /\ Nested(stack') /\ Settles(stack') = Settles(stack)
        /\ ~Running("ping")'
    <2>1. CASE stack' = rest
      <3>1. Nested(rest) /\ (rest # <<>> => rest[1].op = "settle")
        BY WaitsPop DEF Nested, Fits
      <3> QED
        BY <2>1, <3>1 DEF Running
    <2>2. CASE stack' = <<g>> \o rest
      <3>1. /\ stack' \in Seq(Frame) /\ stack' # <<>> /\ stack'[1] = g /\ Nested(stack')
            /\ Settles(stack') = Settles(rest)
        BY <2>2, <1>3, <1>6, CallFacts
      <3> QED
        BY <3>1, <1>3 DEF Running
    <2> QED
      BY <1>2, <2>1, <2>2
  <1>8. Ends(stack') = IF stack' = rest THEN Ends(stack) ELSE Ends(stack) \cup {f}
    <2>1. CASE stack' = rest
      <3>1. Ends(rest) = Settles(rest)
        BY WaitsPop, SettlesFacts, EmptyStack DEF Ends, OfSlot
      <3> QED
        BY <2>1, <3>1
    <2>2. CASE stack' = <<g>> \o rest /\ stack' # rest
      <3>1. Ends(stack') = Settles(rest) \cup OfSlot(g)
        BY <2>2, <1>3, <1>6, CallFacts
      <3>2. OfSlot(g) = {f}
        BY <1>3 DEF OfSlot
      <3> QED
        BY <3>1, <3>2, <2>2
    <2> QED
      BY <1>2, <2>1, <2>2
  <1>9. /\ slots \in [Slot -> Entry] /\ tries \in [Request -> 0 .. MaxRetries + 1]
        /\ left \in [Request -> 0..MaxRetries] /\ asked \in [Request -> 0..MaxRetries]
        /\ MaxRetries \in Nat /\ due \subseteq Slot /\ None \notin Request
    BY PingAssumption DEF IInv, TypeOK
  <1>10. /\ slots' \in [Slot -> Entry] /\ slots'[f] = new
         /\ \A i \in Slot : i # f => slots'[i] = slots[i]
    BY <1>1, <1>2, <1>4, <1>9
  <1>11. /\ tries' \in [Request -> 0 .. MaxRetries + 1]
         /\ \A q \in Request : tries'[q] = IF q = r THEN tries[q] + 1 ELSE tries[q]
    <2>1. tries[r] \in Nat /\ left[r] \in Nat /\ asked[r] \in 0..MaxRetries
      BY <1>9
    <2>2. tries[r] + 1 \in 0 .. MaxRetries + 1
      BY <2>1, <1>9
    <2> QED
      BY <2>2, <1>2, <1>9
  <1>12. \A i \in Slot : slots'[i].state = "PINGING" <=> slots'[i].req # None
    <2>1. \A i \in Slot : slots[i].state = "PINGING" <=> slots[i].req # None
      BY DEF IInv, PlaceInv
    <2>2. slots'[f].state = "PINGING" /\ slots'[f].req # None
      BY <1>4, <1>9, <1>10
    <2>3. \A i \in Slot : i # f => slots'[i].state = slots[i].state
                                 /\ slots'[i].req = slots[i].req
      BY <1>10
    <2> QED
      BY <2>1, <2>2, <2>3
  <1>13. CountMatchesSlots' /\ count' \in 0..Parallel
    <2>1. Busy' = Busy \cup {f} /\ f \notin Busy
      BY <1>1, <1>4, <1>10 DEF Busy
    <2> QED
      BY <2>1, <1>1, <1>2, CountOn DEF IInv
  <1>14. StackInv'
    <2>1. Ends(stack) \subseteq Slot /\ \A i \in Ends(stack) : slots[i].state = "PINGING"
      BY DEF Settles, IInv, StackInv
    <2>2. \A i \in Ends(stack') : slots'[i].state = "PINGING"
      BY <2>1, <1>4, <1>8, <1>10
    <2> QED
      BY <2>2, <1>7 DEF StackInv
  <1>15. /\ ~Unanswered(f) /\ Unanswered(f)'
         /\ \A i \in Slot : i # f => (Unanswered(i)' <=> Unanswered(i))
    <2>1. slots[f].req = None
      BY <1>1 DEF IInv, PlaceInv
    <2>2. \A i \in Slot : Settled(i)' <=> Settled(i)
      BY <1>7, SettledIs
    <2>3. ~Unanswered(f)
      BY <2>1 DEF Unanswered
    <2>4. slots'[f].req # None
      BY <1>4, <1>9, <1>10
    <2>5. ~Settled(f)'
      BY <1>1, <1>5, <1>7, SettledIs
    <2>6. Unanswered(f)'
      BY <2>4, <2>5 DEF Unanswered
    <2>7. \A i \in Slot : i # f => (Unanswered(i)' <=> Unanswered(i))
      BY <2>2, <1>10 DEF Unanswered
    <2> QED
      BY <2>3, <2>6, <2>7
  <1>16. \A q \in Request : /\ InSlot(q)' <=> InSlot(q) \/ q = r
                            /\ ~Called(q)'
    <2>1. ASSUME NEW q \in Request
          PROVE  InSlot(q)' <=> InSlot(q) \/ q = r
      <3>1. ASSUME InSlot(q)
            PROVE  InSlot(q)'
        <4>1. PICK i \in Slot : Unanswered(i) /\ slots[i].req = q
          BY <3>1 DEF InSlot
        <4>2. i # f
          BY <4>1, <1>15
        <4> QED
          BY <4>1, <4>2, <1>10, <1>15 DEF InSlot
      <3>2. ASSUME q = r
            PROVE  InSlot(q)'
        BY <3>2, <1>1, <1>4, <1>10, <1>15 DEF InSlot
      <3>3. ASSUME InSlot(q)', q # r
            PROVE  InSlot(q)
        <4>1. PICK i \in Slot : Unanswered(i)' /\ slots'[i].req = q
          BY <3>3 DEF InSlot
        <4>2. i # f
          BY <4>1, <3>3, <1>4, <1>10
        <4> QED
          BY <4>1, <4>2, <1>10, <1>15 DEF InSlot
      <3> QED
        BY <3>1, <3>2, <3>3
    <2> QED
      BY <2>1, <1>7 DEF Called
  <1>17. \A i, j \in Slot : Unanswered(i)' /\ Unanswered(j)'
                            /\ slots'[i].req = slots'[j].req => i = j
    <2>1. \A i \in Slot : Unanswered(i) => slots[i].req # r
      BY DEF InSlot
    <2>2. \A i, j \in Slot : Unanswered(i) /\ Unanswered(j)
                             /\ slots[i].req = slots[j].req => i = j
      BY DEF IInv, PlaceInv
    <2> QED
      BY <2>1, <2>2, <1>4, <1>10, <1>15
  <1>18. HasFree
    BY DEF HasFree
  <1>19. /\ flag \in [Slot -> Request \cup {None}] /\ expected \in [Slot -> Nat]
         /\ net \subseteq [slot : Slot, seq : Nat, req : Request]
    BY DEF IInv, TypeOK
  <1>20. /\ flag' \in [Slot -> Request \cup {None}] /\ expected' \in [Slot -> Nat]
         /\ net' \subseteq [slot : Slot, seq : Nat, req : Request]
         /\ UNCHANGED <<platform, replied>>
         /\ \A i \in Slot : i # f => flag'[i] = flag[i] /\ expected'[i] = expected[i]
         /\ net' \subseteq net \cup {reply}
    BY <1>1, <1>2, <1>4, <1>19 DEF SendOk, SendFails, UnderWay, reply
  <1>21. ReplyInv'
    <2>1. ASSUME NEW i \in Slot, slots'[i].state = "PINGING", i \notin Ends(stack')
          PROVE  /\ expected'[i] = slots'[i].seq
                 /\ flag'[i] # None => flag'[i] = slots'[i].req /\ flag'[i] \in replied'
                 /\ \A m \in net' : m.slot = i /\ SameSeq(m.seq, slots'[i].seq)
                                       => m.req = slots'[i].req
      <3>1. CASE i = f
        <4>1. stack' = rest /\ SendOk(f, r, seq)
          BY <2>1, <3>1, <1>2, <1>8
        <4>2. expected'[f] = seq /\ flag'[f] = None
          BY <4>1, <1>1, <1>19 DEF SendOk
        <4>3. net' \subseteq UnderWay(f, seq) \cup {reply}
          BY <4>1 DEF SendOk, reply
        <4>4. \A m \in net' : m.slot = f /\ SameSeq(m.seq, seq) => m = reply
          BY <4>3 DEF UnderWay
        <4> QED
          BY <3>1, <4>2, <4>4, <1>4, <1>10
      <3>2. CASE i # f
        <4>1. slots[i].state = "PINGING" /\ i \notin Ends(stack) /\ slots'[i] = slots[i]
          BY <2>1, <3>2, <1>8, <1>10
        <4>2. /\ expected[i] = slots[i].seq
              /\ flag[i] # None => flag[i] = slots[i].req /\ flag[i] \in replied
              /\ \A m \in net : m.slot = i /\ SameSeq(m.seq, slots[i].seq)
                                   => m.req = slots[i].req
          BY <4>1 DEF IInv, ReplyInv
        <4> QED
          BY <3>2, <4>1, <4>2, <1>4, <1>20
      <3> QED
        BY <3>1, <3>2
    <2>2. ~(Running("dispatch")' /\ stack'[1].ok)
      <3>1. CASE stack' = rest
        <4>1. rest # <<>> => rest[1].op = "settle"
          BY WaitsPop
        <4> QED
          BY <3>1, <4>1 DEF Running
      <3>2. CASE stack' = <<g>> \o rest
        BY <3>2, <1>3, <1>6, CallFacts
      <3> QED
        BY <3>1, <3>2, <1>2
    <2>3. OnlyOwnReplies'
      BY <1>20 DEF IInv, ReplyInv, OnlyOwnReplies
    <2> QED
      BY <2>1, <2>2, <2>3 DEF ReplyInv
  <1> QED
    BY <1>2, <1>7, <1>9, <1>10, <1>11, <1>12, <1>13, <1>14, <1>16, <1>17, <1>18,
       <1>20, <1>21

-----------------------------------------------------------------------------
(* The public calls.                                                       *)

\* A call of ping() is on top of the stack.
LEMMA PingCalled ==
    ASSUME NEW r \in Request
    PROVE  CallPing(r) \in Frame /\ CallPing(r).op = "ping" /\ CallPing(r).req = r
  <1>1. 0 \in Slot
    BY PingAssumption DEF Slot
  <1> QED
    BY <1>1 DEF CallPing, Frame

\* The frames pushed are frames.
LEMMA CallTypes ==
    ASSUME NEW i \in Slot, NEW ok \in BOOLEAN
    PROVE  /\ CallDispatch(i, ok) \in Frame /\ CallDispatch(i, ok).op = "dispatch"
           /\ CallDispatch(i, ok).slot = i /\ CallDispatch(i, ok).ok = ok
           /\ AfterCallback(i, ok) \in Frame /\ AfterCallback(i, ok).op = "settle"
           /\ AfterCallback(i, ok).slot = i /\ AfterCallback(i, ok).ok = ok
  BY DEF CallDispatch, AfterCallback, Frame

\* The counters of a request are numbers.
LEMMA Numbers ==
    ASSUME TypeOK
    PROVE  /\ MaxRetries \in Nat /\ None \notin Request
           /\ \A r \in Request : /\ left[r] \in 0..MaxRetries /\ asked[r] \in 0..MaxRetries
                                 /\ tries[r] \in 0 .. MaxRetries + 1
  BY PingAssumption DEF TypeOK

\* ping() is called from outside loop().
LEMMA PingStep ==
    ASSUME IInv, NEW r \in Request, NEW n \in 0..MaxRetries, Ping(r, n)
    PROVE  IInv'
  <1> USE DEF platformVars, slotVars, loopVars
  <1> DEFINE g == CallPing(r)
  <1>1. /\ stack = <<>> /\ status[r] = "new" /\ stack' = <<g>> \o <<>>
        /\ status' = [status EXCEPT ![r] = "open"]
        /\ asked' = [asked EXCEPT ![r] = n] /\ left' = [left EXCEPT ![r] = n]
        /\ retries' = IF n = 0 THEN retries ELSE retries \cup {r}
        /\ UNCHANGED <<slots, count, due, tries, queue, nextSeq, pc, scan,
                       platform, flag, expected, net, replied>>
    BY DEF Ping, Register, InLoop
  <1>2. g \in Frame /\ g.op = "ping" /\ g.req = r
    BY PingCalled
  <1> HIDE DEF g
  <1>3. /\ stack' \in Seq(Frame) /\ stack' # <<>> /\ stack'[1] = g /\ Nested(stack')
        /\ Ends(stack') = {} /\ Settles(stack') = {}
    <2>1. Fits(g, <<>>) /\ OfSlot(g) = {}
      BY <1>2 DEF Fits, OfSlot
    <2>2. /\ stack' \in Seq(Frame) /\ stack' # <<>> /\ stack'[1] = g
          /\ Nested(stack') /\ Ends(stack') = Settles(<<>>) \cup OfSlot(g)
          /\ Settles(stack') = Settles(<<>>)
      BY <2>1, <1>1, <1>2, CallFacts, EmptyStack
    <2> QED
      BY <2>1, <2>2, EmptyStack
  <1>4. Ends(stack) = {} /\ Settles(stack) = {}
    BY <1>1, EmptyStack
  <1>5. \A q \in Request : ~Called(q) /\ (Called(q)' <=> q = r)
    BY <1>1, <1>2, <1>3 DEF Called, Running
  <1>6. \A i \in Slot : Unanswered(i)' <=> Unanswered(i)
    BY <1>1, <1>3, <1>4, SettledIs DEF Unanswered
  <1>7. \A q \in Request : (InSlot(q)' <=> InSlot(q)) /\ (Waiting(q)' <=> Waiting(q))
    BY <1>1, <1>6 DEF InSlot, Waiting
  <1>8. TypeOK
    BY DEF IInv
  <1>9. TypeOK'
    BY <1>1, <1>3, <1>8 DEF TypeOK
  <1>10. StackInv'
    BY <1>3 DEF StackInv
  <1>11. /\ status'[r] = "open" /\ asked'[r] = n /\ left'[r] = n
         /\ \A q \in Request \ {r} : /\ status'[q] = status[q]
                                     /\ asked'[q] = asked[q] /\ left'[q] = left[q]
    BY <1>1, <1>8 DEF TypeOK
  <1>12. ~InSlot(r) /\ ~Waiting(r) /\ tries[r] = 0
    BY <1>1 DEF IInv, PlaceInv, AttemptInv
  <1>13. PlaceInv'
    <2>1. \A i \in Slot : slots'[i].state = "PINGING" <=> slots'[i].req # None
      BY <1>1 DEF IInv, PlaceInv
    <2>2. \A i, j \in Slot : Unanswered(i)' /\ Unanswered(j)'
                             /\ slots'[i].req = slots'[j].req => i = j
      BY <1>1, <1>6 DEF IInv, PlaceInv
    <2>3. \A k, l \in 1..Len(queue') : queue'[k].req = queue'[l].req => k = l
      BY <1>1 DEF IInv, PlaceInv
    <2>4. \A q \in Request :
             /\ status[q] = "open" <=> InSlot(q) \/ Waiting(q) \/ Called(q)
             /\ ~(InSlot(q) /\ Waiting(q))
      BY DEF IInv, PlaceInv
    <2>5. \A q \in Request :
             /\ status'[q] = "open" <=> InSlot(q)' \/ Waiting(q)' \/ Called(q)'
             /\ ~(InSlot(q)' /\ Waiting(q)')
             /\ ~(InSlot(q)' /\ Called(q)')
             /\ ~(Waiting(q)' /\ Called(q)')
      BY <2>4, <1>5, <1>7, <1>11, <1>12
    <2> QED
      BY <2>1, <2>2, <2>3, <2>5 DEF PlaceInv
  <1>14. AttemptInv'
    <2>1. ASSUME NEW q \in Request
          PROVE  /\ left'[q] <= asked'[q] /\ tries'[q] <= asked'[q] + 1
                 /\ InSlot(q)' => tries'[q] + left'[q] = asked'[q] + 1
                 /\ Waiting(q)' \/ Called(q)' => tries'[q] + left'[q] = asked'[q]
                 /\ status'[q] = "no" => tries'[q] = asked'[q] + 1
                 /\ status'[q] \in {"new", "no target"} => tries'[q] = 0
      <3>1. CASE q = r
        BY <3>1, <1>1, <1>7, <1>11, <1>12, <1>8, Numbers
      <3>2. CASE q # r
        <4>1. /\ status'[q] = status[q] /\ asked'[q] = asked[q] /\ left'[q] = left[q]
              /\ tries'[q] = tries[q]
          BY <3>2, <1>1, <1>11
        <4>2. /\ InSlot(q)' <=> InSlot(q)
              /\ Waiting(q)' \/ Called(q)' <=> Waiting(q)
          BY <3>2, <1>5, <1>7
        <4> QED
          BY <4>1, <4>2 DEF IInv, AttemptInv
      <3> QED
        BY <3>1, <3>2
    <2> QED
      BY <2>1 DEF AttemptInv
  <1>15. CountMatchesSlots' /\ FullInv'
    BY <1>1 DEF IInv, CountMatchesSlots, FullInv, HasFree
  <1>16. ContextsKept'
    <2>1. retries = {q \in Request : status[q] = "open" /\ asked[q] > 0}
      BY DEF IInv, ContextsKept
    <2>2. r \notin retries
      BY <2>1, <1>1
    <2>3. n \in Nat
      BY <1>8, Numbers
    <2> QED
      BY <2>1, <2>2, <2>3, <1>1, <1>11 DEF ContextsKept
  <1>17. ReplyInv'
    <2>1. OnlyOwnReplies'
      BY <1>1, <1>11 DEF IInv, ReplyInv, OnlyOwnReplies
    <2>2. ~Running("dispatch")'
      BY <1>2, <1>3 DEF Running
    <2>3. ASSUME NEW i \in Slot, slots'[i].state = "PINGING", i \notin Ends(stack')
          PROVE  /\ expected'[i] = slots'[i].seq
                 /\ flag'[i] # None => flag'[i] = slots'[i].req /\ flag'[i] \in replied'
                 /\ \A m \in net' : m.slot = i /\ SameSeq(m.seq, slots'[i].seq)
                                       => m.req = slots'[i].req
      BY <2>3, <1>1, <1>3, <1>4 DEF IInv, ReplyInv
    <2> QED
      BY <2>1, <2>2, <2>3 DEF ReplyInv
  <1> QED
    BY <1>9, <1>10, <1>13, <1>14, <1>15, <1>16, <1>17 DEF IInv

\* ping() without a target answers at once.
LEMMA NowhereStep ==
    ASSUME IInv, NEW r \in Request, PingNowhere(r)
    PROVE  IInv'
  <1> USE DEF platformVars, slotVars, loopVars
  <1>1. /\ status[r] = "new" /\ status' = [status EXCEPT ![r] = "no target"]
        /\ UNCHANGED <<slots, count, due, tries, queue, nextSeq, retries, left, asked,
                       stack, pc, scan, platform, flag, expected, net, replied>>
    BY DEF PingNowhere
  <1>2. TypeOK
    BY DEF IInv
  <1>3. status'[r] = "no target" /\ \A q \in Request \ {r} : status'[q] = status[q]
    BY <1>1, <1>2 DEF TypeOK
  <1>4. TypeOK'
    BY <1>1, <1>2 DEF TypeOK
  <1>5. StackInv' /\ CountMatchesSlots' /\ FullInv'
    BY <1>1 DEF IInv, StackInv, CountMatchesSlots, FullInv, HasFree
  <1>6. \A i \in Slot : Unanswered(i)' <=> Unanswered(i)
    BY <1>1 DEF Unanswered, Settled
  <1>7. \A q \in Request : /\ InSlot(q)' <=> InSlot(q)
                           /\ Waiting(q)' <=> Waiting(q)
                           /\ Called(q)' <=> Called(q)
    BY <1>1, <1>6 DEF InSlot, Waiting, Called, Running
  <1>8. PlaceInv'
    <2>1. \A i \in Slot : slots'[i].state = "PINGING" <=> slots'[i].req # None
      BY <1>1 DEF IInv, PlaceInv
    <2>2. \A i, j \in Slot : Unanswered(i)' /\ Unanswered(j)'
                             /\ slots'[i].req = slots'[j].req => i = j
      BY <1>1, <1>6 DEF IInv, PlaceInv
    <2>3. \A k, l \in 1..Len(queue') : queue'[k].req = queue'[l].req => k = l
      BY <1>1 DEF IInv, PlaceInv
    <2>4. \A q \in Request :
             /\ status[q] = "open" <=> InSlot(q) \/ Waiting(q) \/ Called(q)
             /\ ~(InSlot(q) /\ Waiting(q))
             /\ ~(InSlot(q) /\ Called(q))
             /\ ~(Waiting(q) /\ Called(q))
      BY DEF IInv, PlaceInv
    <2>5. \A q \in Request : status'[q] = "open" <=> status[q] = "open"
      BY <1>1, <1>3
    <2> QED
      BY <2>1, <2>2, <2>3, <2>4, <2>5, <1>7 DEF PlaceInv
  <1>9. AttemptInv'
    BY <1>1, <1>3, <1>7 DEF IInv, AttemptInv
  <1>10. ContextsKept'
    <2>1. retries = {q \in Request : status[q] = "open" /\ asked[q] > 0}
      BY DEF IInv, ContextsKept
    <2> QED
      BY <2>1, <1>1, <1>3 DEF ContextsKept
  <1>11. ReplyInv'
    <2>1. OnlyOwnReplies'
      BY <1>1, <1>3 DEF IInv, ReplyInv, OnlyOwnReplies
    <2> QED
      BY <2>1, <1>1 DEF IInv, ReplyInv, Running, Dispatched
  <1> QED
    BY <1>4, <1>5, <1>8, <1>9, <1>10, <1>11 DEF IInv

\* One attempt more, and the sum with those left is one more.
LEMMA OneMoreTried ==
    ASSUME NEW a \in Nat, NEW l \in Nat, NEW t \in Nat, t + l = a
    PROVE  l <= a /\ t + 1 <= a + 1 /\ (t + 1) + l = a + 1
  OBVIOUS

\* A request that was called or waited is in a slot now.
LEMMA StartedStep ==
    ASSUME IInv, NEW f \in Slot, slots[f].state = "IDLE",
           NEW r \in Request, NEW seq \in Nat,
           NEW rest \in Seq(Frame), Waits(rest),
           Settles(rest) = Settles(stack), Ends(stack) = Settles(rest),
           Start(f, r, seq, rest), Called(r) \/ Waiting(r),
           \A q \in Request : Called(q) => q = r,
           \A q \in Request : Waiting(q)' <=> Waiting(q) /\ q # r,
           \A k, l \in 1..Len(queue') : queue'[k].req = queue'[l].req => k = l,
           queue' \in Seq([req : Request, seq : Nat]), nextSeq' \in Nat,
           pc \in {"user", "check"} => queue' = <<>>,
           UNCHANGED <<ctxVars, loopVars>>
    PROVE  IInv'
  <1> USE DEF ctxVars, loopVars
  <1>1. /\ ~InSlot(r) /\ tries[r] + left[r] = asked[r] /\ status[r] = "open"
    BY DEF IInv, PlaceInv, AttemptInv
  <1>2. /\ slots' \in [Slot -> [state : {"IDLE", "PINGING", "TIMEOUT", "SUCCESS"},
                                req : Request \cup {None}, seq : Nat]]
        /\ count' \in 0..Parallel /\ due' \subseteq Slot
        /\ stack' \in Seq(Frame)
        /\ flag' \in [Slot -> Request \cup {None}]
        /\ expected' \in [Slot -> Nat] /\ UNCHANGED <<platform, replied>>
        /\ net' \subseteq [slot : Slot, seq : Nat, req : Request]
        /\ tries' \in [Request -> 0 .. MaxRetries + 1]
        /\ StackInv' /\ CountMatchesSlots' /\ ReplyInv'
        /\ \A i \in Slot : slots'[i].state = "PINGING" <=> slots'[i].req # None
        /\ \A i, j \in Slot : Unanswered(i)' /\ Unanswered(j)'
                              /\ slots'[i].req = slots'[j].req => i = j
        /\ \A q \in Request : (InSlot(q)' <=> InSlot(q) \/ q = r) /\ ~Called(q)'
        /\ \A q \in Request : tries'[q] = IF q = r THEN tries[q] + 1 ELSE tries[q]
    BY <1>1, StartStep
  <1>3. TypeOK'
    BY <1>2 DEF IInv, TypeOK
  <1>4. PlaceInv'
    <2>1. ASSUME NEW q \in Request
          PROVE  /\ status[q] = "open" <=> InSlot(q)' \/ Waiting(q)' \/ Called(q)'
                 /\ ~(InSlot(q)' /\ Waiting(q)')
                 /\ ~(InSlot(q)' /\ Called(q)')
                 /\ ~(Waiting(q)' /\ Called(q)')
      <3>1. /\ status[q] = "open" <=> InSlot(q) \/ Waiting(q) \/ Called(q)
            /\ ~(InSlot(q) /\ Waiting(q))
        BY DEF IInv, PlaceInv
      <3>2. /\ InSlot(q)' <=> InSlot(q) \/ q = r
            /\ ~Called(q)' /\ (Called(q) => q = r)
            /\ Waiting(q)' <=> Waiting(q) /\ q # r
        BY <1>2
      <3> QED
        BY <3>1, <3>2, <1>1
    <2> QED
      BY <2>1, <1>2 DEF PlaceInv
  <1>5. AttemptInv'
    <2>1. ASSUME NEW q \in Request
          PROVE  /\ left[q] <= asked[q] /\ tries'[q] <= asked[q] + 1
                 /\ InSlot(q)' => tries'[q] + left[q] = asked[q] + 1
                 /\ Waiting(q)' \/ Called(q)' => tries'[q] + left[q] = asked[q]
                 /\ status[q] = "no" => tries'[q] = asked[q] + 1
                 /\ status[q] \in {"new", "no target"} => tries'[q] = 0
      <3>1. left[q] \in Nat /\ asked[q] \in Nat /\ tries[q] \in Nat
        BY Numbers DEF IInv
      <3>2. CASE q = r
        <4>1. tries'[r] = tries[r] + 1 /\ left[r] <= asked[r]
          BY <1>2 DEF IInv, AttemptInv
        <4>2. ~Waiting(r)' /\ ~Called(r)'
          BY <1>2
        <4>3. /\ left[r] <= asked[r] /\ tries'[r] <= asked[r] + 1
              /\ tries'[r] + left[r] = asked[r] + 1
          <5>1. tries[r] + left[r] = asked[r]
            BY <1>1
          <5>2. left[r] \in Nat /\ asked[r] \in Nat /\ tries[r] \in Nat
            BY <3>1, <3>2
          <5>3. /\ left[r] <= asked[r] /\ tries[r] + 1 <= asked[r] + 1
                /\ (tries[r] + 1) + left[r] = asked[r] + 1
            BY <5>1, <5>2, OneMoreTried
          <5> QED
            BY <4>1, <5>3
        <4>4. status[r] # "no" /\ status[r] \notin {"new", "no target"}
          BY <1>1
        <4> QED
          BY <3>2, <4>2, <4>3, <4>4
      <3>3. CASE q # r
        <4>1. tries'[q] = tries[q]
          BY <3>3, <1>2
        <4>2. /\ InSlot(q)' <=> InSlot(q)
              /\ ~Called(q)'
              /\ Waiting(q)' <=> Waiting(q)
          BY <3>3, <1>2
        <4> QED
          BY <4>1, <4>2 DEF IInv, AttemptInv
      <3> QED
        BY <3>2, <3>3
    <2> QED
      BY <2>1 DEF AttemptInv
  <1>6. ContextsKept' /\ FullInv'
    BY DEF IInv, ContextsKept, FullInv
  <1> QED
    BY <1>2, <1>3, <1>4, <1>5, <1>6 DEF IInv

\* ping() finds a free slot.
LEMMA PingStartsStep ==
    ASSUME IInv, PingStarts
    PROVE  IInv'
  <1> DEFINE r == stack[1].req
             rest == Tail(stack)
  <1>1. PICK f \in Slot : f = FreeSlot /\ slots[f].state = "IDLE"
    BY FreeSlotFacts DEF PingStarts, IInv
  <1>2. /\ stack # <<>> /\ stack[1].op = "ping" /\ HasFree
        /\ nextSeq' = nextSeq + 1 /\ Start(f, r, nextSeq, rest)
        /\ UNCHANGED <<queue, ctxVars, loopVars>>
    BY <1>1 DEF PingStarts, Running
  <1>3. stack \in Seq(Frame) /\ Nested(stack) /\ nextSeq \in Nat
        /\ queue \in Seq([req : Request, seq : Nat])
    BY DEF IInv, TypeOK, StackInv
  <1>4. /\ rest \in Seq(Frame) /\ Waits(rest) /\ Settles(rest) = Settles(stack)
        /\ Ends(stack) = Settles(rest) /\ r \in Request
    <2>1. /\ rest \in Seq(Frame) /\ Waits(rest)
          /\ Ends(stack) = Settles(rest) \cup OfSlot(stack[1])
          /\ Fits(stack[1], rest)
          /\ Settles(stack) = Settles(rest)
                              \cup (IF stack[1].op = "settle" THEN {stack[1].slot} ELSE {})
      BY <1>2, <1>3, RestFacts
    <2>2. OfSlot(stack[1]) = {} /\ r \in Request
      BY <2>1, <1>2 DEF OfSlot, Fits
    <2> QED
      BY <2>1, <2>2, <1>2
  <1>5. PICK q \in Request : q = r
    BY <1>4
  <1>6. Called(q) /\ \A p \in Request : Called(p) => p = q
    BY <1>2, <1>5 DEF Called, Running
  <1>7. \A p \in Request : Waiting(p)' <=> Waiting(p) /\ p # q
    <2>1. ~Waiting(q)
      BY <1>6 DEF IInv, PlaceInv
    <2>2. \A p \in Request : Waiting(p)' <=> Waiting(p)
      BY <1>2 DEF Waiting
    <2> QED
      BY <2>1, <2>2
  <1>8. \A k, l \in 1..Len(queue') : queue'[k].req = queue'[l].req => k = l
    BY <1>2 DEF IInv, PlaceInv
  <1>9. pc \in {"user", "check"} => queue' = <<>>
    BY <1>2 DEF IInv, FullInv
  <1>10. Start(f, q, nextSeq, rest)
    BY <1>2, <1>5
  <1> HIDE DEF r, rest
  <1>11. /\ queue' \in Seq([req : Request, seq : Nat]) /\ nextSeq' \in Nat
         /\ UNCHANGED <<ctxVars, loopVars>>
    BY <1>2, <1>3
  <1> QED
    BY <1>1, <1>3, <1>4, <1>6, <1>7, <1>8, <1>9, <1>10, <1>11, StartedStep

\* startNextPending() takes the first request that waits.
LEMMA PendingStartsStep ==
    ASSUME IInv, PendingStarts
    PROVE  IInv'
  <1>1. PICK f \in Slot : f = FreeSlot /\ slots[f].state = "IDLE"
    BY FreeSlotFacts DEF PendingStarts, IInv
  <1>2. /\ stack = <<>> /\ pc = "pending" /\ queue # <<>> /\ queue' = Tail(queue)
        /\ Start(f, queue[1].req, queue[1].seq, <<>>)
        /\ UNCHANGED <<nextSeq, ctxVars, loopVars>>
    BY <1>1 DEF PendingStarts, InLoop
  <1>3. nextSeq \in Nat /\ queue \in Seq([req : Request, seq : Nat])
    BY DEF IInv, TypeOK
  <1>4. /\ Len(queue) \in Nat \ {0} /\ queue[1] \in [req : Request, seq : Nat]
        /\ queue' \in Seq([req : Request, seq : Nat]) /\ Len(queue') = Len(queue) - 1
        /\ \A k \in 1..Len(queue) - 1 : queue'[k] = queue[k + 1]
    BY <1>2, <1>3, TakeFacts
  <1>5. PICK q \in Request, s \in Nat : q = queue[1].req /\ s = queue[1].seq
    BY <1>4
  <1>6. Start(f, q, s, <<>>)
    BY <1>2, <1>5
  <1>7. <<>> \in Seq(Frame) /\ Waits(<<>>) /\ Settles(<<>>) = Settles(stack)
        /\ Ends(stack) = Settles(<<>>)
    BY <1>2, EmptyStack
  <1>8. \A k, l \in 1..Len(queue) : queue[k].req = queue[l].req => k = l
    BY DEF IInv, PlaceInv
  <1>9. \A k \in 1..Len(queue) - 1 : k + 1 \in 1..Len(queue) /\ k + 1 # 1
    BY <1>4
  <1>10. ASSUME NEW k \in 1..Len(queue'), NEW l \in 1..Len(queue'),
                queue'[k].req = queue'[l].req
         PROVE  k = l
    <2>1. k \in 1..Len(queue) - 1 /\ l \in 1..Len(queue) - 1
      BY <1>4, <1>10
    <2>2. queue[k + 1].req = queue[l + 1].req
      BY <2>1, <1>4, <1>10
    <2>3. k + 1 = l + 1
      BY <2>1, <2>2, <1>8, <1>9
    <2> QED
      BY <2>1, <2>3, <1>4
  <1>11. ASSUME NEW p \in Request
         PROVE  Waiting(p)' <=> Waiting(p) /\ p # q
    <2>1. ASSUME Waiting(p)'
          PROVE  Waiting(p) /\ p # q
      <3>1. PICK k \in 1..Len(queue') : queue'[k].req = p
        BY <2>1 DEF Waiting
      <3>2. k + 1 \in 1..Len(queue) /\ k + 1 # 1 /\ queue[k + 1].req = p
        BY <3>1, <1>4, <1>9
      <3>3. 1 \in 1..Len(queue)
        BY <1>4
      <3> QED
        BY <3>2, <3>3, <1>5, <1>8 DEF Waiting
    <2>2. ASSUME Waiting(p), p # q
          PROVE  Waiting(p)'
      <3>1. PICK k \in 1..Len(queue) : queue[k].req = p
        BY <2>2 DEF Waiting
      <3>2. k # 1
        BY <3>1, <2>2, <1>5
      <3>3. k - 1 \in 1..Len(queue') /\ k - 1 \in 1..Len(queue) - 1 /\ (k - 1) + 1 = k
        BY <3>2, <1>4
      <3>4. queue'[k - 1] = queue[k]
        BY <3>3, <1>4
      <3> QED
        BY <3>1, <3>3, <3>4 DEF Waiting
    <2> QED
      BY <2>1, <2>2
  <1>12. \A p \in Request : Called(p) => p = q
    BY <1>2 DEF Called, Running
  <1>13. Waiting(q)
    <2>1. 1 \in 1..Len(queue)
      BY <1>4
    <2> QED
      BY <2>1, <1>5 DEF Waiting
  <1>14. pc \in {"user", "check"} => queue' = <<>>
    BY <1>2
  <1>15. nextSeq' \in Nat /\ UNCHANGED <<ctxVars, loopVars>>
    BY <1>2, <1>3
  <1> QED
    BY <1>1, <1>4, <1>6, <1>7, <1>10, <1>11, <1>12, <1>13, <1>14, <1>15, StartedStep

\* ping() finds every slot taken: the request waits.
LEMMA PingWaitsStep ==
    ASSUME IInv, PingWaits
    PROVE  IInv'
  <1> USE DEF platformVars, slotVars, loopVars, ctxVars
  <1> DEFINE t == Tail(stack)
             e == [req |-> stack[1].req, seq |-> nextSeq]
  <1>1. /\ stack # <<>> /\ stack[1].op = "ping" /\ ~HasFree
        /\ nextSeq' = nextSeq + 1 /\ queue' = Append(queue, e) /\ stack' = t
        /\ UNCHANGED <<slots, count, due, tries, retries, left, status, asked, pc, scan,
                       platform, flag, expected, net, replied>>
    BY DEF PingWaits, Running
  <1>2. stack \in Seq(Frame) /\ Nested(stack) /\ nextSeq \in Nat
        /\ queue \in Seq([req : Request, seq : Nat])
    BY DEF IInv, TypeOK, StackInv
  <1>3. /\ stack' \in Seq(Frame) /\ Nested(stack') /\ Waits(stack')
        /\ Settles(stack') = Settles(stack) /\ Ends(stack') = Ends(stack)
        /\ stack[1].req \in Request
    <2>1. /\ t \in Seq(Frame) /\ Waits(t) /\ Nested(t) /\ Ends(t) = Settles(t)
          /\ Ends(stack) = Settles(t) \cup OfSlot(stack[1])
          /\ Fits(stack[1], t)
          /\ Settles(stack) = Settles(t)
                              \cup (IF stack[1].op = "settle" THEN {stack[1].slot} ELSE {})
      BY <1>1, <1>2, RestFacts
    <2>2. OfSlot(stack[1]) = {} /\ stack[1].req \in Request
      BY <2>1, <1>1 DEF OfSlot, Fits
    <2> HIDE DEF t
    <2> QED
      BY <2>1, <2>2, <1>1
  <1>4. PICK r \in Request : r = stack[1].req
    BY <1>3
  <1>5. e \in [req : Request, seq : Nat] /\ e.req = r
    BY <1>2, <1>4
  <1> HIDE DEF t, e
  <1>6. /\ queue' \in Seq([req : Request, seq : Nat]) /\ Len(queue') = Len(queue) + 1
        /\ Len(queue) \in Nat /\ queue'[Len(queue) + 1] = e
        /\ \A k \in 1..Len(queue) : queue'[k] = queue[k]
    BY <1>1, <1>2, <1>5, AppendFacts
  <1>7. Called(r) /\ \A q \in Request : Called(q) => q = r
    BY <1>1, <1>4 DEF Called, Running
  <1>8. ~Waiting(r) /\ ~InSlot(r) /\ status[r] = "open"
    BY <1>7 DEF IInv, PlaceInv
  <1>9. stack' # <<>> => stack'[1].op = "settle"
    BY <1>3, WaitsPop
  <1>10. \A q \in Request : ~Called(q)'
    BY <1>9 DEF Called, Running
  <1>11. \A i \in Slot : Unanswered(i)' <=> Unanswered(i)
    BY <1>1, <1>3, SettledIs DEF Unanswered
  <1>12. \A q \in Request : InSlot(q)' <=> InSlot(q)
    BY <1>1, <1>11 DEF InSlot
  <1>13. ASSUME NEW q \in Request
         PROVE  Waiting(q)' <=> Waiting(q) \/ q = r
    <2>1. /\ Len(queue) + 1 \in 1..Len(queue')
          /\ \A k \in 1..Len(queue) : k \in 1..Len(queue')
          /\ \A k \in 1..Len(queue') : k \in 1..Len(queue) \/ k = Len(queue) + 1
      BY <1>6
    <2>2. Waiting(q) => Waiting(q)'
      BY <2>1, <1>6 DEF Waiting
    <2>3. q = r => Waiting(q)'
      BY <2>1, <1>5, <1>6 DEF Waiting
    <2>4. Waiting(q)' => Waiting(q) \/ q = r
      BY <2>1, <1>5, <1>6 DEF Waiting
    <2> QED
      BY <2>2, <2>3, <2>4
  <1>14. TypeOK'
    <2>1. nextSeq' \in Nat /\ stack' \in Seq(Frame)
          /\ queue' \in Seq([req : Request, seq : Nat])
      BY <1>1, <1>2, <1>3, <1>6
    <2> QED
      BY <2>1, <1>1 DEF IInv, TypeOK
  <1>15. StackInv'
    BY <1>1, <1>3 DEF IInv, StackInv
  <1>16. PlaceInv'
    <2>1. \A i \in Slot : slots'[i].state = "PINGING" <=> slots'[i].req # None
      BY <1>1 DEF IInv, PlaceInv
    <2>2. \A i, j \in Slot : Unanswered(i)' /\ Unanswered(j)'
                             /\ slots'[i].req = slots'[j].req => i = j
      BY <1>1, <1>11 DEF IInv, PlaceInv
    <2>3. ASSUME NEW k \in 1..Len(queue'), NEW l \in 1..Len(queue'),
                 queue'[k].req = queue'[l].req
          PROVE  k = l
      <3>1. \A j \in 1..Len(queue) : queue[j].req # r
        BY <1>8 DEF Waiting
      <3>2. \A i, j \in 1..Len(queue) : queue[i].req = queue[j].req => i = j
        BY DEF IInv, PlaceInv
      <3>3. \A j \in 1..Len(queue') : j \in 1..Len(queue) \/ j = Len(queue) + 1
        BY <1>6
      <3> QED
        BY <2>3, <3>1, <3>2, <3>3, <1>5, <1>6
    <2>4. ASSUME NEW q \in Request
          PROVE  /\ status'[q] = "open" <=> InSlot(q)' \/ Waiting(q)' \/ Called(q)'
                 /\ ~(InSlot(q)' /\ Waiting(q)')
                 /\ ~(InSlot(q)' /\ Called(q)')
                 /\ ~(Waiting(q)' /\ Called(q)')
      <3>1. /\ status[q] = "open" <=> InSlot(q) \/ Waiting(q) \/ Called(q)
            /\ ~(InSlot(q) /\ Waiting(q))
        BY DEF IInv, PlaceInv
      <3> QED
        BY <3>1, <1>1, <1>7, <1>8, <1>10, <1>12, <1>13
    <2> QED
      BY <2>1, <2>2, <2>3, <2>4 DEF PlaceInv
  <1>17. AttemptInv'
    <2>1. \A q \in Request : Waiting(q)' \/ Called(q)' => Waiting(q) \/ Called(q)
      BY <1>7, <1>10, <1>13
    <2> QED
      BY <2>1, <1>1, <1>12 DEF IInv, AttemptInv
  <1>18. CountMatchesSlots' /\ ContextsKept' /\ FullInv'
    BY <1>1 DEF IInv, CountMatchesSlots, ContextsKept, FullInv, HasFree
  <1>19. ReplyInv'
    <2>1. OnlyOwnReplies' /\ ~Running("dispatch")'
      BY <1>1, <1>9 DEF IInv, ReplyInv, OnlyOwnReplies, Running
    <2> QED
      BY <2>1, <1>1, <1>3 DEF IInv, ReplyInv
  <1> QED
    BY <1>14, <1>15, <1>16, <1>17, <1>18, <1>19 DEF IInv

-----------------------------------------------------------------------------
(* dispatchCallback().                                                     *)

\* What holds of the slot whose callback is called.
LEMMA DispatchFacts ==
    ASSUME IInv, Running("dispatch")
    PROVE  \E i \in Slot, r \in Request :
              /\ i = stack[1].slot /\ r = Dispatched /\ slots[i].req = r
              /\ Unanswered(i) /\ status[r] = "open"
              /\ stack[1].ok \in BOOLEAN /\ (stack[1].ok => r \in replied)
              /\ ~Waiting(r) /\ \A q \in Request : ~Called(q)
              /\ Settling \in Seq(Frame) /\ Settling # <<>> /\ Waits(Settling)
              /\ Nested(Settling) /\ Settling[1].op = "settle"
              /\ Settles(Settling) = Settles(stack) \cup {i}
              /\ Settles(Settling) = Ends(stack) /\ Ends(Settling) = Ends(stack)
  <1> DEFINE t == Tail(stack)
             ok == stack[1].ok
  <1>1. stack # <<>> /\ stack[1].op = "dispatch" /\ stack \in Seq(Frame) /\ Nested(stack)
    BY DEF Running, IInv, TypeOK, StackInv
  <1>2. /\ t \in Seq(Frame) /\ Waits(t) /\ Ends(stack) = Settles(t) \cup OfSlot(stack[1])
        /\ stack[1] \in Frame /\ Fits(stack[1], t)
        /\ Settles(stack) = Settles(t)
                            \cup (IF stack[1].op = "settle" THEN {stack[1].slot} ELSE {})
    BY <1>1, RestFacts
  <1>3. PICK i \in Slot : i = stack[1].slot
    BY <1>2, FrameFacts
  <1>4. /\ Settles(stack) = Settles(t) /\ i \notin Settles(t) /\ ok \in BOOLEAN
        /\ Ends(stack) = Settles(t) \cup {i}
    BY <1>1, <1>2, <1>3, FrameFacts DEF Fits, OfSlot
  <1> DEFINE g == AfterCallback(i, ok)
  <1>5. g \in Frame /\ g.op = "settle" /\ g.slot = i
    BY <1>4, CallTypes
  <1>6. Settling = <<g>> \o t
    BY <1>3 DEF Settling
  <1> HIDE DEF t, ok, g
  <1>7. /\ Settling \in Seq(Frame) /\ Settling # <<>> /\ Settling[1] = g
        /\ Nested(Settling) /\ Ends(Settling) = Settles(t) \cup OfSlot(g)
        /\ Waits(Settling) /\ Settles(Settling) = Settles(t) \cup {g.slot}
    <2>1. Fits(g, t)
      BY <1>4, <1>5 DEF Fits
    <2> QED
      BY <2>1, <1>2, <1>5, <1>6, CallFacts
  <1>8. OfSlot(g) = {i}
    BY <1>5 DEF OfSlot
  <1>9. slots[i].state = "PINGING" /\ slots[i].req # None
    BY <1>4 DEF IInv, StackInv, PlaceInv
  <1>10. PICK r \in Request : r = slots[i].req
    BY <1>9 DEF IInv, TypeOK
  <1>11. Unanswered(i)
    BY <1>4, <1>9, SettledIs DEF Unanswered
  <1>12. InSlot(r)
    BY <1>10, <1>11 DEF InSlot
  <1>13. status[r] = "open" /\ ~Waiting(r)
    BY <1>12 DEF IInv, PlaceInv
  <1>14. \A q \in Request : ~Called(q)
    BY <1>1 DEF Called, Running
  <1>15. r = Dispatched
    BY <1>3, <1>10 DEF Dispatched
  <1>16. ok => r \in replied
    BY <1>15 DEF IInv, ReplyInv, ok
  <1> QED
    BY <1>3, <1>4, <1>5, <1>7, <1>8, <1>10, <1>11, <1>13, <1>14, <1>15, <1>16 DEF ok

\* The request of that slot has no place any more.
LEMMA Released ==
    ASSUME IInv, NEW i \in Slot, NEW r \in Request, Unanswered(i), slots[i].req = r,
           UNCHANGED slots, Settles(stack') = Settles(stack) \cup {i}
    PROVE  /\ \A q \in Request : InSlot(q)' <=> InSlot(q) /\ q # r
           /\ \A j, k \in Slot : Unanswered(j)' /\ Unanswered(k)'
                                 /\ slots'[j].req = slots'[k].req => j = k
  <1>1. \A j \in Slot : Unanswered(j)' <=> Unanswered(j) /\ j # i
    BY SettledIs DEF Unanswered
  <1>2. \A j, k \in Slot : Unanswered(j) /\ Unanswered(k)
                           /\ slots[j].req = slots[k].req => j = k
    BY DEF IInv, PlaceInv
  <1>3. ASSUME NEW q \in Request
        PROVE  InSlot(q)' <=> InSlot(q) /\ q # r
    <2>1. ASSUME InSlot(q)'
          PROVE  InSlot(q) /\ q # r
      <3>1. PICK j \in Slot : Unanswered(j)' /\ slots'[j].req = q
        BY <2>1 DEF InSlot
      <3>2. Unanswered(j) /\ j # i /\ slots[j].req = q
        BY <3>1, <1>1
      <3> QED
        BY <3>2, <1>2 DEF InSlot
    <2>2. ASSUME InSlot(q), q # r
          PROVE  InSlot(q)'
      <3>1. PICK j \in Slot : Unanswered(j) /\ slots[j].req = q
        BY <2>2 DEF InSlot
      <3>2. Unanswered(j)' /\ slots'[j].req = q
        BY <3>1, <2>2, <1>1
      <3> QED
        BY <3>2 DEF InSlot
    <2> QED
      BY <2>1, <2>2
  <1> QED
    BY <1>1, <1>2, <1>3

\* The part of the invariant that a callback leaves as it is.
LEMMA CallbackKeeps ==
    ASSUME IInv, Running("dispatch"), Ends(stack') = Ends(stack),
           Nested(stack'), ~Running("dispatch")',
           UNCHANGED <<slotVars, queue, nextSeq, loopVars, platformVars>>
    PROVE  /\ StackInv' /\ CountMatchesSlots' /\ FullInv'
           /\ OnlyOwnReplies' => ReplyInv'
           /\ \A q \in Request : Waiting(q)' <=> Waiting(q)
  <1> USE DEF slotVars, loopVars, platformVars
  <1>1. StackInv'
    BY DEF IInv, StackInv
  <1>2. CountMatchesSlots' /\ FullInv'
    BY DEF IInv, CountMatchesSlots, FullInv, HasFree
  <1>3. OnlyOwnReplies' => ReplyInv'
    BY DEF IInv, ReplyInv
  <1>4. \A q \in Request : Waiting(q)' <=> Waiting(q)
    BY DEF Waiting
  <1> QED
    BY <1>1, <1>2, <1>3, <1>4

\* A failed attempt is repeated: the request is called again.
LEMMA RetriesStep ==
    ASSUME IInv, CallbackRetries
    PROVE  IInv'
  <1> USE DEF slotVars, loopVars, platformVars
  <1>1. /\ Running("dispatch") /\ ~stack[1].ok /\ left[Dispatched] > 0
        /\ left' = [left EXCEPT ![Dispatched] = @ - 1]
        /\ stack' = <<CallPing(Dispatched)>> \o Settling
        /\ UNCHANGED <<slots, count, due, tries, queue, nextSeq, retries, status, asked,
                       pc, scan, platform, flag, expected, net, replied>>
    BY DEF CallbackRetries
  <1>2. PICK i \in Slot, r \in Request :
              /\ i = stack[1].slot /\ r = Dispatched /\ slots[i].req = r
              /\ Unanswered(i) /\ status[r] = "open"
              /\ stack[1].ok \in BOOLEAN /\ (stack[1].ok => r \in replied)
              /\ ~Waiting(r) /\ \A q \in Request : ~Called(q)
              /\ Settling \in Seq(Frame) /\ Settling # <<>> /\ Waits(Settling)
              /\ Nested(Settling) /\ Settling[1].op = "settle"
              /\ Settles(Settling) = Settles(stack) \cup {i}
              /\ Settles(Settling) = Ends(stack) /\ Ends(Settling) = Ends(stack)
    BY <1>1, DispatchFacts
  <1> DEFINE g == CallPing(r)
  <1>3. g \in Frame /\ g.op = "ping" /\ g.req = r
    BY PingCalled
  <1>4. stack' = <<g>> \o Settling
    BY <1>1, <1>2
  <1> HIDE DEF g
  <1>5. /\ stack' \in Seq(Frame) /\ stack' # <<>> /\ stack'[1] = g /\ Nested(stack')
        /\ Ends(stack') = Ends(stack) /\ Settles(stack') = Settles(stack) \cup {i}
    <2>1. Fits(g, Settling) /\ OfSlot(g) = {}
      BY <1>3 DEF Fits, OfSlot
    <2>2. /\ stack' \in Seq(Frame) /\ stack' # <<>> /\ stack'[1] = g
          /\ Nested(stack') /\ Ends(stack') = Settles(Settling) \cup OfSlot(g)
          /\ Settles(stack') = Settles(Settling)
      BY <2>1, <1>2, <1>3, <1>4, CallFacts
    <2> QED
      BY <2>1, <2>2, <1>2
  <1>6. \A q \in Request : Called(q)' <=> q = r
    BY <1>3, <1>5 DEF Called, Running
  <1>7. /\ \A q \in Request : InSlot(q)' <=> InSlot(q) /\ q # r
        /\ \A j, k \in Slot : Unanswered(j)' /\ Unanswered(k)'
                              /\ slots'[j].req = slots'[k].req => j = k
    BY <1>1, <1>2, <1>5, Released
  <1>8. ~Running("dispatch")'
    BY <1>3, <1>5 DEF Running
  <1>9. /\ StackInv' /\ CountMatchesSlots' /\ FullInv'
        /\ OnlyOwnReplies' => ReplyInv'
        /\ \A q \in Request : Waiting(q)' <=> Waiting(q)
    BY <1>1, <1>5, <1>8, CallbackKeeps
  <1>10. OnlyOwnReplies' /\ ContextsKept'
    BY <1>1 DEF IInv, ReplyInv, OnlyOwnReplies, ContextsKept
  <1>11. left[r] \in 0..MaxRetries /\ left[r] > 0 /\ MaxRetries \in Nat
         /\ left \in [Request -> 0..MaxRetries]
    BY <1>1, <1>2, Numbers DEF IInv, TypeOK
  <1>12. /\ left' \in [Request -> 0..MaxRetries] /\ left'[r] = left[r] - 1
         /\ \A q \in Request \ {r} : left'[q] = left[q]
    <2>1. left[r] - 1 \in 0..MaxRetries
      BY <1>11
    <2> QED
      BY <2>1, <1>1, <1>2, <1>11
  <1>13. TypeOK'
    BY <1>1, <1>5, <1>12 DEF IInv, TypeOK
  <1>14. InSlot(r)
    BY <1>2 DEF InSlot
  <1>15. PlaceInv'
    <2>1. \A j \in Slot : slots'[j].state = "PINGING" <=> slots'[j].req # None
      BY <1>1 DEF IInv, PlaceInv
    <2>2. \A k, l \in 1..Len(queue') : queue'[k].req = queue'[l].req => k = l
      BY <1>1 DEF IInv, PlaceInv
    <2>3. ASSUME NEW q \in Request
          PROVE  /\ status'[q] = "open" <=> InSlot(q)' \/ Waiting(q)' \/ Called(q)'
                 /\ ~(InSlot(q)' /\ Waiting(q)')
                 /\ ~(InSlot(q)' /\ Called(q)')
                 /\ ~(Waiting(q)' /\ Called(q)')
      <3>1. /\ status[q] = "open" <=> InSlot(q) \/ Waiting(q) \/ Called(q)
            /\ ~(InSlot(q) /\ Waiting(q))
        BY DEF IInv, PlaceInv
      <3>2. /\ ~Called(q) /\ (Called(q)' <=> q = r)
            /\ InSlot(q)' <=> InSlot(q) /\ q # r
            /\ Waiting(q)' <=> Waiting(q)
            /\ status'[q] = status[q]
        BY <1>1, <1>2, <1>6, <1>7, <1>9
      <3> QED
        BY <3>1, <3>2, <1>2
    <2> QED
      BY <2>1, <2>2, <2>3, <1>7 DEF PlaceInv
  <1>16. AttemptInv'
    <2>1. ASSUME NEW q \in Request
          PROVE  /\ left'[q] <= asked[q] /\ tries[q] <= asked[q] + 1
                 /\ InSlot(q)' => tries[q] + left'[q] = asked[q] + 1
                 /\ Waiting(q)' \/ Called(q)' => tries[q] + left'[q] = asked[q]
                 /\ status[q] = "no" => tries[q] = asked[q] + 1
                 /\ status[q] \in {"new", "no target"} => tries[q] = 0
      <3>1. left[q] \in Nat /\ asked[q] \in Nat /\ tries[q] \in Nat
        BY Numbers DEF IInv
      <3>2. CASE q = r
        <4>1. /\ left[r] <= asked[r] /\ tries[r] <= asked[r] + 1
              /\ tries[r] + left[r] = asked[r] + 1
          BY <1>14 DEF IInv, AttemptInv
        <4>2. /\ left'[r] <= asked[r] /\ tries[r] + left'[r] = asked[r]
          BY <4>1, <3>1, <3>2, <1>12
        <4>3. ~InSlot(r)' /\ status[r] # "no" /\ status[r] \notin {"new", "no target"}
          BY <1>2, <1>7
        <4> QED
          BY <3>2, <4>1, <4>2, <4>3
      <3>3. CASE q # r
        <4>1. left'[q] = left[q]
          BY <3>3, <1>12
        <4>2. /\ InSlot(q)' <=> InSlot(q)
              /\ ~Called(q)'
              /\ Waiting(q)' <=> Waiting(q)
          BY <3>3, <1>6, <1>7, <1>9
        <4> QED
          BY <4>1, <4>2 DEF IInv, AttemptInv
      <3> QED
        BY <3>2, <3>3
    <2> QED
      BY <2>1, <1>1 DEF AttemptInv
  <1> QED
    BY <1>9, <1>10, <1>13, <1>15, <1>16 DEF IInv

\* The user is told "no" only when no attempt is left.
LEMMA AnswerFacts ==
    ASSUME IInv, Running("dispatch"),
           stack[1].ok \/ Dispatched \notin retries \/ left[Dispatched] = 0,
           NEW i \in Slot, NEW r \in Request, r = Dispatched, slots[i].req = r,
           Unanswered(i), status[r] = "open", ~stack[1].ok
    PROVE  tries[r] = asked[r] + 1
  <1>1. left[r] \in Nat /\ asked[r] \in Nat /\ tries[r] \in Nat
    BY Numbers DEF IInv
  <1>2. left[r] <= asked[r] /\ tries[r] + left[r] = asked[r] + 1
    BY DEF IInv, AttemptInv, InSlot
  <1>3. r \notin retries => asked[r] = 0
    BY <1>1 DEF IInv, ContextsKept
  <1>4. left[r] = 0
    BY <1>1, <1>2, <1>3
  <1> QED
    BY <1>1, <1>2, <1>4

\* The user is answered and does nothing more.
LEMMA AnswersStep ==
    ASSUME IInv, Running("dispatch"),
           stack[1].ok \/ Dispatched \notin retries \/ left[Dispatched] = 0,
           NEW a, a = IF stack[1].ok THEN "yes" ELSE "no",
           status' = [status EXCEPT ![Dispatched] = a], stack' = Settling,
           retries' = retries \ {Dispatched},
           UNCHANGED <<left, asked, slotVars, queue, nextSeq, loopVars, platformVars>>
    PROVE  IInv'
  <1> USE DEF slotVars, loopVars, platformVars
  <1>1. PICK i \in Slot, r \in Request :
              /\ i = stack[1].slot /\ r = Dispatched /\ slots[i].req = r
              /\ Unanswered(i) /\ status[r] = "open"
              /\ stack[1].ok \in BOOLEAN /\ (stack[1].ok => r \in replied)
              /\ ~Waiting(r) /\ \A q \in Request : ~Called(q)
              /\ Settling \in Seq(Frame) /\ Settling # <<>> /\ Waits(Settling)
              /\ Nested(Settling) /\ Settling[1].op = "settle"
              /\ Settles(Settling) = Settles(stack) \cup {i}
              /\ Settles(Settling) = Ends(stack) /\ Ends(Settling) = Ends(stack)
    BY DispatchFacts
  <1>2. /\ a \in {"yes", "no"} /\ (a = "yes" => r \in replied)
        /\ (a = "no" => tries[r] = asked[r] + 1)
    BY <1>1, AnswerFacts
  <1>3. status \in [Request -> {"new", "open", "yes", "no", "no target"}]
    BY DEF IInv, TypeOK
  <1>4. /\ status' \in [Request -> {"new", "open", "yes", "no", "no target"}]
        /\ status'[r] = a /\ \A q \in Request \ {r} : status'[q] = status[q]
    BY <1>1, <1>2, <1>3
  <1>5. TypeOK'
    BY <1>1, <1>4 DEF IInv, TypeOK
  <1>6. \A q \in Request : ~Called(q)'
    BY <1>1 DEF Called, Running
  <1>7. /\ \A q \in Request : InSlot(q)' <=> InSlot(q) /\ q # r
        /\ \A j, k \in Slot : Unanswered(j)' /\ Unanswered(k)'
                              /\ slots'[j].req = slots'[k].req => j = k
    BY <1>1, Released
  <1>8. ~Running("dispatch")'
    BY <1>1 DEF Running
  <1>9. /\ StackInv' /\ CountMatchesSlots' /\ FullInv'
        /\ OnlyOwnReplies' => ReplyInv'
        /\ \A q \in Request : Waiting(q)' <=> Waiting(q)
    BY <1>1, <1>8, CallbackKeeps
  <1>10. OnlyOwnReplies'
    BY <1>2, <1>4 DEF IInv, ReplyInv, OnlyOwnReplies
  <1>11. ContextsKept'
    <2>1. retries = {q \in Request : status[q] = "open" /\ asked[q] > 0}
      BY DEF IInv, ContextsKept
    <2>2. status'[r] # "open"
      BY <1>2, <1>4
    <2> QED
      BY <2>1, <2>2, <1>1, <1>4 DEF ContextsKept
  <1>12. PlaceInv'
    <2>1. \A j \in Slot : slots'[j].state = "PINGING" <=> slots'[j].req # None
      BY DEF IInv, PlaceInv
    <2>2. \A k, l \in 1..Len(queue') : queue'[k].req = queue'[l].req => k = l
      BY DEF IInv, PlaceInv
    <2>3. ASSUME NEW q \in Request
          PROVE  /\ status'[q] = "open" <=> InSlot(q)' \/ Waiting(q)' \/ Called(q)'
                 /\ ~(InSlot(q)' /\ Waiting(q)')
                 /\ ~(InSlot(q)' /\ Called(q)')
                 /\ ~(Waiting(q)' /\ Called(q)')
      <3>1. /\ status[q] = "open" <=> InSlot(q) \/ Waiting(q) \/ Called(q)
            /\ ~(InSlot(q) /\ Waiting(q))
        BY DEF IInv, PlaceInv
      <3>2. /\ ~Called(q) /\ ~Called(q)'
            /\ InSlot(q)' <=> InSlot(q) /\ q # r
            /\ Waiting(q)' <=> Waiting(q)
        BY <1>1, <1>6, <1>7, <1>9
      <3>3. CASE q = r
        <4>1. status'[q] # "open" /\ ~Waiting(q)
          BY <3>3, <1>1, <1>2, <1>4
        <4> QED
          BY <3>2, <3>3, <4>1
      <3>4. CASE q # r
        <4>1. status'[q] = status[q]
          BY <3>4, <1>4
        <4> QED
          BY <3>1, <3>2, <3>4, <4>1
      <3> QED
        BY <3>3, <3>4
    <2> QED
      BY <2>1, <2>2, <2>3, <1>7 DEF PlaceInv
  <1>13. AttemptInv'
    <2>1. ASSUME NEW q \in Request
          PROVE  /\ left[q] <= asked[q] /\ tries[q] <= asked[q] + 1
                 /\ InSlot(q)' => tries[q] + left[q] = asked[q] + 1
                 /\ Waiting(q)' \/ Called(q)' => tries[q] + left[q] = asked[q]
                 /\ status'[q] = "no" => tries[q] = asked[q] + 1
                 /\ status'[q] \in {"new", "no target"} => tries[q] = 0
      <3>1. /\ left[q] <= asked[q] /\ tries[q] <= asked[q] + 1
            /\ InSlot(q) => tries[q] + left[q] = asked[q] + 1
            /\ Waiting(q) => tries[q] + left[q] = asked[q]
            /\ status[q] = "no" => tries[q] = asked[q] + 1
            /\ status[q] \in {"new", "no target"} => tries[q] = 0
        BY DEF IInv, AttemptInv
      <3>2. /\ ~Called(q)'
            /\ InSlot(q)' => InSlot(q)
            /\ Waiting(q)' <=> Waiting(q)
        BY <1>6, <1>7, <1>9
      <3>3. CASE q = r
        <4>1. status'[q] = a
          BY <3>3, <1>4
        <4> QED
          BY <3>1, <3>2, <3>3, <4>1, <1>2
      <3>4. CASE q # r
        <4>1. status'[q] = status[q]
          BY <3>4, <1>4
        <4> QED
          BY <3>1, <3>2, <4>1
      <3> QED
        BY <3>3, <3>4
    <2> QED
      BY <2>1 DEF AttemptInv
  <1> QED
    BY <1>5, <1>9, <1>10, <1>11, <1>12, <1>13 DEF IInv

\* The user pings another host from the callback.
LEMMA AnswersPingStep ==
    ASSUME IInv, Running("dispatch"),
           stack[1].ok \/ Dispatched \notin retries \/ left[Dispatched] = 0,
           NEW a, a = IF stack[1].ok THEN "yes" ELSE "no",
           NEW s \in Request, NEW n \in 0..MaxRetries, status[s] = "new",
           status' = [status EXCEPT ![Dispatched] = a, ![s] = "open"],
           asked' = [asked EXCEPT ![s] = n], left' = [left EXCEPT ![s] = n],
           retries' = (retries \ {Dispatched}) \cup (IF n = 0 THEN {} ELSE {s}),
           stack' = <<CallPing(s)>> \o Settling,
           UNCHANGED <<slotVars, queue, nextSeq, loopVars, platformVars>>
    PROVE  IInv'
  <1> USE DEF slotVars, loopVars, platformVars
  <1>1. PICK i \in Slot, r \in Request :
              /\ i = stack[1].slot /\ r = Dispatched /\ slots[i].req = r
              /\ Unanswered(i) /\ status[r] = "open"
              /\ stack[1].ok \in BOOLEAN /\ (stack[1].ok => r \in replied)
              /\ ~Waiting(r) /\ \A q \in Request : ~Called(q)
              /\ Settling \in Seq(Frame) /\ Settling # <<>> /\ Waits(Settling)
              /\ Nested(Settling) /\ Settling[1].op = "settle"
              /\ Settles(Settling) = Settles(stack) \cup {i}
              /\ Settles(Settling) = Ends(stack) /\ Ends(Settling) = Ends(stack)
    BY DispatchFacts
  <1>2. /\ a \in {"yes", "no"} /\ (a = "yes" => r \in replied)
        /\ (a = "no" => tries[r] = asked[r] + 1)
    BY <1>1, AnswerFacts
  <1>3. r # s /\ ~InSlot(s) /\ ~Waiting(s) /\ tries[s] = 0
    BY <1>1 DEF IInv, PlaceInv, AttemptInv
  <1>4. /\ status' \in [Request -> {"new", "open", "yes", "no", "no target"}]
        /\ status'[r] = a /\ status'[s] = "open"
        /\ \A q \in Request \ {r, s} : status'[q] = status[q]
    BY <1>1, <1>2, <1>3 DEF IInv, TypeOK
  <1>5. /\ asked' \in [Request -> 0..MaxRetries] /\ left' \in [Request -> 0..MaxRetries]
        /\ asked'[s] = n /\ left'[s] = n
        /\ \A q \in Request \ {s} : asked'[q] = asked[q] /\ left'[q] = left[q]
    BY DEF IInv, TypeOK
  <1> DEFINE g == CallPing(s)
  <1>6. g \in Frame /\ g.op = "ping" /\ g.req = s
    BY PingCalled
  <1>7. stack' = <<g>> \o Settling
    OBVIOUS
  <1> HIDE DEF g
  <1>8. /\ stack' \in Seq(Frame) /\ stack' # <<>> /\ stack'[1] = g /\ Nested(stack')
        /\ Ends(stack') = Ends(stack) /\ Settles(stack') = Settles(stack) \cup {i}
    <2>1. Fits(g, Settling) /\ OfSlot(g) = {}
      BY <1>6 DEF Fits, OfSlot
    <2>2. /\ stack' \in Seq(Frame) /\ stack' # <<>> /\ stack'[1] = g
          /\ Nested(stack') /\ Ends(stack') = Settles(Settling) \cup OfSlot(g)
          /\ Settles(stack') = Settles(Settling)
      BY <2>1, <1>1, <1>6, <1>7, CallFacts
    <2> QED
      BY <2>1, <2>2, <1>1
  <1>9. TypeOK'
    <2>1. retries' \subseteq Request
      BY DEF IInv, TypeOK
    <2> QED
      BY <2>1, <1>4, <1>5, <1>8 DEF IInv, TypeOK
  <1>10. \A q \in Request : Called(q)' <=> q = s
    BY <1>6, <1>8 DEF Called, Running
  <1>11. /\ \A q \in Request : InSlot(q)' <=> InSlot(q) /\ q # r
         /\ \A j, k \in Slot : Unanswered(j)' /\ Unanswered(k)'
                               /\ slots'[j].req = slots'[k].req => j = k
    BY <1>1, <1>8, Released
  <1>12. ~Running("dispatch")'
    BY <1>6, <1>8 DEF Running
  <1>13. /\ StackInv' /\ CountMatchesSlots' /\ FullInv'
         /\ OnlyOwnReplies' => ReplyInv'
         /\ \A q \in Request : Waiting(q)' <=> Waiting(q)
    BY <1>8, <1>12, CallbackKeeps
  <1>14. OnlyOwnReplies'
    BY <1>2, <1>4 DEF IInv, ReplyInv, OnlyOwnReplies
  <1>15. ContextsKept'
    <2>1. retries = {q \in Request : status[q] = "open" /\ asked[q] > 0}
      BY DEF IInv, ContextsKept
    <2>2. status'[r] # "open" /\ s \notin retries
      BY <2>1, <1>2, <1>4
    <2>7. n \in Nat
      BY PingAssumption
    <2>3. \A q \in Request \ {r, s} : q \in retries' <=> status'[q] = "open" /\ asked'[q] > 0
      BY <2>1, <1>1, <1>4, <1>5
    <2>4. s \in retries' <=> asked'[s] > 0
      BY <2>2, <2>7, <1>5
    <2>5. r \notin retries' /\ retries' \subseteq Request
      BY <2>1, <1>1, <1>3
    <2>6. \A q \in Request : q \in retries' <=> status'[q] = "open" /\ asked'[q] > 0
      BY <2>2, <2>3, <2>4, <2>5, <1>4
    <2> QED
      BY <2>5, <2>6, Zenon DEF ContextsKept
  <1>16. PlaceInv'
    <2>1. \A j \in Slot : slots'[j].state = "PINGING" <=> slots'[j].req # None
      BY DEF IInv, PlaceInv
    <2>2. \A k, l \in 1..Len(queue') : queue'[k].req = queue'[l].req => k = l
      BY DEF IInv, PlaceInv
    <2>3. ASSUME NEW q \in Request
          PROVE  /\ status'[q] = "open" <=> InSlot(q)' \/ Waiting(q)' \/ Called(q)'
                 /\ ~(InSlot(q)' /\ Waiting(q)')
                 /\ ~(InSlot(q)' /\ Called(q)')
                 /\ ~(Waiting(q)' /\ Called(q)')
      <3>1. /\ status[q] = "open" <=> InSlot(q) \/ Waiting(q) \/ Called(q)
            /\ ~(InSlot(q) /\ Waiting(q))
        BY DEF IInv, PlaceInv
      <3>2. /\ ~Called(q) /\ (Called(q)' <=> q = s)
            /\ InSlot(q)' <=> InSlot(q) /\ q # r
            /\ Waiting(q)' <=> Waiting(q)
        BY <1>1, <1>10, <1>11, <1>13
      <3>3. CASE q = r
        <4>1. status'[q] # "open" /\ ~Waiting(q)
          BY <3>3, <1>1, <1>2, <1>4
        <4> QED
          BY <3>2, <3>3, <4>1, <1>3
      <3>4. CASE q = s
        <4>1. status'[q] = "open" /\ ~Waiting(q) /\ ~InSlot(q)
          BY <3>4, <1>3, <1>4
        <4> QED
          BY <3>2, <3>4, <4>1
      <3>5. CASE q # r /\ q # s
        <4>1. status'[q] = status[q]
          BY <3>5, <1>4
        <4> QED
          BY <3>1, <3>2, <3>5, <4>1
      <3> QED
        BY <3>3, <3>4, <3>5
    <2> QED
      BY <2>1, <2>2, <2>3, <1>11 DEF PlaceInv
  <1>17. AttemptInv'
    <2>1. ASSUME NEW q \in Request
          PROVE  /\ left'[q] <= asked'[q] /\ tries[q] <= asked'[q] + 1
                 /\ InSlot(q)' => tries[q] + left'[q] = asked'[q] + 1
                 /\ Waiting(q)' \/ Called(q)' => tries[q] + left'[q] = asked'[q]
                 /\ status'[q] = "no" => tries[q] = asked'[q] + 1
                 /\ status'[q] \in {"new", "no target"} => tries[q] = 0
      <3>1. /\ left[q] <= asked[q] /\ tries[q] <= asked[q] + 1
            /\ InSlot(q) => tries[q] + left[q] = asked[q] + 1
            /\ Waiting(q) => tries[q] + left[q] = asked[q]
            /\ status[q] = "no" => tries[q] = asked[q] + 1
            /\ status[q] \in {"new", "no target"} => tries[q] = 0
        BY DEF IInv, AttemptInv
      <3>2. /\ Called(q)' <=> q = s
            /\ InSlot(q)' => InSlot(q)
            /\ Waiting(q)' <=> Waiting(q)
        BY <1>10, <1>11, <1>13
      <3>3. CASE q = r
        <4>1. status'[q] = a /\ asked'[q] = asked[q] /\ left'[q] = left[q]
          BY <3>3, <1>3, <1>4, <1>5
        <4> QED
          BY <3>1, <3>2, <3>3, <4>1, <1>2, <1>3
      <3>4. CASE q = s
        <4>1. status'[q] = "open" /\ asked'[q] = n /\ left'[q] = n
          BY <3>4, <1>4, <1>5
        <4>3. n \in Nat
          BY PingAssumption
        <4>2. ~InSlot(q)' /\ tries[q] = 0
          BY <3>2, <3>4, <1>3
        <4> QED
          BY <4>1, <4>2, <4>3
      <3>5. CASE q # r /\ q # s
        <4>1. status'[q] = status[q] /\ asked'[q] = asked[q] /\ left'[q] = left[q]
          BY <3>5, <1>4, <1>5
        <4> QED
          BY <3>1, <3>2, <3>5, <4>1
      <3> QED
        BY <3>3, <3>4, <3>5
    <2> QED
      BY <2>1 DEF AttemptInv
  <1> QED
    BY <1>9, <1>13, <1>14, <1>15, <1>16, <1>17 DEF IInv

\* The user gets the answer, and may call ping() again from the callback.
LEMMA CallbackAnswersStep ==
    ASSUME IInv, CallbackAnswers
    PROVE  IInv'
  <1> DEFINE a == IF stack[1].ok THEN "yes" ELSE "no"
  <1>1. /\ Running("dispatch")
        /\ stack[1].ok \/ Dispatched \notin retries \/ left[Dispatched] = 0
        /\ UNCHANGED <<slotVars, queue, nextSeq, loopVars, platformVars>>
        /\ Answer(Dispatched, stack[1].ok, Settling)
    BY DEF CallbackAnswers
  <1>2. CASE /\ status' = [status EXCEPT ![Dispatched] = a]
             /\ stack' = Settling /\ retries' = retries \ {Dispatched}
             /\ UNCHANGED <<left, asked>>
    BY <1>1, <1>2, AnswersStep
  <1>3. CASE \E s \in Request, n \in 0..MaxRetries :
                /\ status[s] = "new"
                /\ status' = [status EXCEPT ![Dispatched] = a, ![s] = "open"]
                /\ asked' = [asked EXCEPT ![s] = n]
                /\ left' = [left EXCEPT ![s] = n]
                /\ retries' = (retries \ {Dispatched}) \cup (IF n = 0 THEN {} ELSE {s})
                /\ stack' = <<CallPing(s)>> \o Settling
    <2>1. PICK s \in Request, n \in 0..MaxRetries :
                /\ status[s] = "new"
                /\ status' = [status EXCEPT ![Dispatched] = a, ![s] = "open"]
                /\ asked' = [asked EXCEPT ![s] = n]
                /\ left' = [left EXCEPT ![s] = n]
                /\ retries' = (retries \ {Dispatched}) \cup (IF n = 0 THEN {} ELSE {s})
                /\ stack' = <<CallPing(s)>> \o Settling
      BY <1>3
    <2> QED
      BY <1>1, <2>1, AnswersPingStep
  <1> QED
    BY <1>1, <1>2, <1>3 DEF Answer

\* The callback has returned: its slot is done.
LEMMA SettleStep ==
    ASSUME IInv, Settle
    PROVE  IInv'
  <1> USE DEF platformVars, loopVars, ctxVars
  <1> DEFINE t == Tail(stack)
             Entry == [state : {"IDLE", "PINGING", "TIMEOUT", "SUCCESS"},
                       req : Request \cup {None}, seq : Nat]
  <1>1. /\ stack # <<>> /\ stack[1].op = "settle" /\ stack' = t
        /\ UNCHANGED <<count, due, tries, queue, nextSeq, retries, left, status, asked,
                       pc, scan, platform, flag, expected, net, replied>>
    BY DEF Settle, Running
  <1>2. stack \in Seq(Frame) /\ Nested(stack) /\ slots \in [Slot -> Entry]
    BY DEF IInv, TypeOK, StackInv
  <1>3. /\ t \in Seq(Frame) /\ Waits(t) /\ Nested(t) /\ Ends(t) = Settles(t)
        /\ Ends(stack) = Settles(t) \cup OfSlot(stack[1])
        /\ stack[1] \in Frame /\ Fits(stack[1], t)
        /\ Settles(stack) = Settles(t)
                            \cup (IF stack[1].op = "settle" THEN {stack[1].slot} ELSE {})
    BY <1>1, <1>2, RestFacts
  <1>4. PICK i \in Slot : i = stack[1].slot
    BY <1>3, FrameFacts
  <1>5. /\ i \notin Settles(t) /\ Settles(stack) = Settles(t) \cup {i}
        /\ Ends(stack) = Settles(t) \cup {i}
    BY <1>1, <1>3, <1>4 DEF Fits, OfSlot
  <1> HIDE DEF t
  <1>6. /\ stack' \in Seq(Frame) /\ Nested(stack') /\ Waits(stack')
        /\ Settles(stack') = Settles(stack) \ {i} /\ Ends(stack') = Ends(stack) \ {i}
        /\ i \in Settles(stack) /\ i \in Ends(stack)
    BY <1>1, <1>3, <1>5
  <1>7. PICK z \in {"SUCCESS", "TIMEOUT"} :
            slots' = [slots EXCEPT ![i].state = z, ![i].req = None]
    BY <1>4 DEF Settle
  <1> DEFINE new == [slots[i] EXCEPT !.state = z, !.req = None]
  <1>8. new \in Entry /\ new.state = z /\ new.req = None
    BY <1>2
  <1>9. slots' = [slots EXCEPT ![i] = new]
    BY <1>2, <1>7
  <1> HIDE DEF new
  <1>10. /\ slots' \in [Slot -> Entry] /\ slots'[i] = new
         /\ \A j \in Slot : j # i => slots'[j] = slots[j]
    BY <1>2, <1>8, <1>9
  <1>11. slots[i].state = "PINGING"
    BY <1>6 DEF IInv, StackInv
  <1>12. TypeOK'
    BY <1>1, <1>6, <1>10 DEF IInv, TypeOK
  <1>13. StackInv'
    <2>1. Ends(stack') \subseteq Slot
      BY <1>1, <1>3 DEF Settles
    <2> QED
      BY <2>1, <1>6, <1>10 DEF IInv, StackInv
  <1>14. \A j \in Slot : /\ Unanswered(j)' <=> Unanswered(j)
                         /\ Unanswered(j) => j # i
    <2>1. ~Unanswered(i)
      BY <1>6, SettledIs DEF Unanswered
    <2>2. ~Unanswered(i)'
      BY <1>8, <1>10 DEF Unanswered
    <2>3. ASSUME NEW j \in Slot, j # i
          PROVE  Unanswered(j)' <=> Unanswered(j)
      <3>1. Settled(j)' <=> Settled(j)
        BY <2>3, <1>6, SettledIs
      <3>2. slots'[j].req = slots[j].req
        BY <2>3, <1>10
      <3> QED
        BY <3>1, <3>2 DEF Unanswered
    <2> QED
      BY <2>1, <2>2, <2>3
  <1>15. \A q \in Request : /\ InSlot(q)' <=> InSlot(q)
                            /\ Waiting(q)' <=> Waiting(q)
    BY <1>1, <1>10, <1>14 DEF InSlot, Waiting
  <1>16. stack' # <<>> => stack'[1].op = "settle"
    BY <1>6, WaitsPop
  <1>17. \A q \in Request : ~Called(q) /\ ~Called(q)'
    BY <1>1, <1>16 DEF Called, Running
  <1>18. PlaceInv'
    <2>1. \A j \in Slot : slots'[j].state = "PINGING" <=> slots'[j].req # None
      <3>1. \A j \in Slot : slots[j].state = "PINGING" <=> slots[j].req # None
        BY DEF IInv, PlaceInv
      <3>2. slots'[i].state # "PINGING" /\ slots'[i].req = None
        BY <1>8, <1>10
      <3>3. \A j \in Slot : j # i => slots'[j].state = slots[j].state
                                     /\ slots'[j].req = slots[j].req
        BY <1>10
      <3> QED
        BY <3>1, <3>2, <3>3
    <2>2. \A k, l \in 1..Len(queue') : queue'[k].req = queue'[l].req => k = l
      BY <1>1 DEF IInv, PlaceInv
    <2>3. ASSUME NEW j \in Slot, NEW k \in Slot, Unanswered(j)', Unanswered(k)',
                 slots'[j].req = slots'[k].req
          PROVE  j = k
      <3>1. /\ Unanswered(j) /\ Unanswered(k) /\ j # i /\ k # i
        BY <2>3, <1>14
      <3>2. slots'[j] = slots[j] /\ slots'[k] = slots[k]
        BY <3>1, <1>10
      <3> QED
        BY <2>3, <3>1, <3>2 DEF IInv, PlaceInv
    <2>4. \A q \in Request :
             /\ status[q] = "open" <=> InSlot(q) \/ Waiting(q) \/ Called(q)
             /\ ~(InSlot(q) /\ Waiting(q))
      BY DEF IInv, PlaceInv
    <2>5. \A q \in Request :
             /\ status'[q] = "open" <=> InSlot(q)' \/ Waiting(q)' \/ Called(q)'
             /\ ~(InSlot(q)' /\ Waiting(q)')
             /\ ~(InSlot(q)' /\ Called(q)')
             /\ ~(Waiting(q)' /\ Called(q)')
      BY <2>4, <1>1, <1>15, <1>17
    <2> QED
      BY <2>1, <2>2, <2>3, <2>5 DEF PlaceInv
  <1>19. AttemptInv'
    BY <1>1, <1>15, <1>17 DEF IInv, AttemptInv
  <1>20. CountMatchesSlots'
    <2>1. \A j \in Slot : slots'[j].state # "IDLE" <=> slots[j].state # "IDLE"
      <3>1. slots'[i].state # "IDLE" /\ slots[i].state # "IDLE"
        BY <1>8, <1>10, <1>11
      <3>2. \A j \in Slot : j # i => slots'[j].state = slots[j].state
        BY <1>10
      <3> QED
        BY <3>1, <3>2
    <2>2. {j \in Slot : slots'[j].state # "IDLE"} = {j \in Slot : slots[j].state # "IDLE"}
      BY <2>1
    <2> QED
      BY <2>2, <1>1 DEF IInv, CountMatchesSlots
  <1>21. ContextsKept'
    BY <1>1 DEF IInv, ContextsKept
  <1>22. FullInv'
    <2>1. HasFree' => HasFree
      <3>1. slots'[i].state # "IDLE"
        BY <1>8, <1>10
      <3> QED
        BY <3>1, <1>10 DEF HasFree
    <2> QED
      BY <2>1, <1>1 DEF IInv, FullInv
  <1>23. ReplyInv'
    <2>1. OnlyOwnReplies' /\ ~Running("dispatch")'
      BY <1>1, <1>16 DEF IInv, ReplyInv, OnlyOwnReplies, Running
    <2>2. ASSUME NEW j \in Slot, slots'[j].state = "PINGING", j \notin Ends(stack')
          PROVE  /\ expected'[j] = slots'[j].seq
                 /\ flag'[j] # None => flag'[j] = slots'[j].req /\ flag'[j] \in replied'
                 /\ \A m \in net' : m.slot = j /\ SameSeq(m.seq, slots'[j].seq)
                                       => m.req = slots'[j].req
      <3>1. j # i
        BY <2>2, <1>8, <1>10
      <3>2. slots'[j] = slots[j] /\ j \notin Ends(stack) /\ slots[j].state = "PINGING"
        BY <2>2, <3>1, <1>6, <1>10
      <3>3. /\ expected[j] = slots[j].seq
            /\ flag[j] # None => flag[j] = slots[j].req /\ flag[j] \in replied
            /\ \A m \in net : m.slot = j /\ SameSeq(m.seq, slots[j].seq)
                                 => m.req = slots[j].req
        BY <3>2 DEF IInv, ReplyInv
      <3> QED
        BY <3>2, <3>3, <1>1
    <2> QED
      BY <2>1, <2>2 DEF ReplyInv
  <1> QED
    BY <1>12, <1>13, <1>18, <1>19, <1>20, <1>21, <1>22, <1>23 DEF IInv

-----------------------------------------------------------------------------
(* loop().                                                                 *)

\* A slot's callback is about to be called, with its reply or after its time.
LEMMA DispatchStep ==
    ASSUME IInv, NEW i \in Slot, NEW ok \in BOOLEAN, stack = <<>>, scan = i,
           slots[i].state = "PINGING", ok => flag[i] # None,
           flag' = [flag EXCEPT ![i] = None],
           stack' = <<CallDispatch(i, ok)>>, scan' = scan + 1, scan < Parallel,
           UNCHANGED <<slotVars, queue, nextSeq, ctxVars, pc, platform,
                       expected, net, replied>>
    PROVE  IInv'
  <1> USE DEF slotVars, ctxVars
  <1> DEFINE g == CallDispatch(i, ok)
  <1>1. g \in Frame /\ g.op = "dispatch" /\ g.slot = i /\ g.ok = ok
    BY CallTypes
  <1>2. stack' = <<g>> \o <<>>
    OBVIOUS
  <1> HIDE DEF g
  <1>3. Ends(stack) = {} /\ Settles(stack) = {}
    BY EmptyStack
  <1>4. /\ stack' \in Seq(Frame) /\ stack' # <<>> /\ stack'[1] = g /\ Nested(stack')
        /\ Ends(stack') = {i} /\ Settles(stack') = {}
    <2>1. Fits(g, <<>>) /\ OfSlot(g) = {i}
      BY <1>1, EmptyStack DEF Fits, OfSlot
    <2> DEFINE s == <<g>> \o <<>>
    <2>2. s \in Seq(Frame) /\ s # <<>> /\ s[1] = g
      BY <1>1, EmptyStack, PushFacts
    <2>3. /\ Nested(s) /\ Ends(s) = Settles(<<>>) \cup OfSlot(g)
          /\ Settles(s) = Settles(<<>>)
      BY <2>1, <1>1, CallFacts, EmptyStack
    <2>4. stack' = s
      BY <1>2
    <2> HIDE DEF s
    <2> QED
      BY <2>1, <2>2, <2>3, <2>4, EmptyStack
  <1>5. /\ flag \in [Slot -> Request \cup {None}] /\ scan \in 0..Parallel
        /\ Parallel \in Nat /\ None \notin Request
    BY PingAssumption DEF IInv, TypeOK
  <1>6. /\ flag' \in [Slot -> Request \cup {None}] /\ flag'[i] = None
        /\ \A j \in Slot : j # i => flag'[j] = flag[j]
    BY <1>5
  <1>7. scan' \in 0..Parallel
    BY <1>5
  <1>8. TypeOK'
    BY <1>4, <1>6, <1>7 DEF IInv, TypeOK
  <1>9. StackInv'
    BY <1>4 DEF StackInv
  <1>10. \A q \in Request : ~Called(q) /\ ~Called(q)'
    BY <1>1, <1>4 DEF Called, Running
  <1>11. PlaceInv' /\ AttemptInv'
    BY <1>3, <1>4, <1>10, PlaceKept DEF IInv
  <1>12. CountMatchesSlots' /\ ContextsKept' /\ FullInv'
    BY DEF IInv, CountMatchesSlots, ContextsKept, FullInv, HasFree
  <1>13. ReplyInv'
    <2>1. OnlyOwnReplies'
      BY DEF IInv, ReplyInv, OnlyOwnReplies
    <2>2. ASSUME ok
          PROVE  slots[i].req \in replied
      BY <2>2, <1>3 DEF IInv, ReplyInv
    <2>3. Dispatched' = slots[i].req
      BY <1>1, <1>4 DEF Dispatched
    <2>4. stack'[1].ok => Dispatched' \in replied'
      BY <2>2, <2>3, <1>1, <1>4
    <2>5. ASSUME NEW j \in Slot, slots'[j].state = "PINGING", j \notin Ends(stack')
          PROVE  /\ expected'[j] = slots'[j].seq
                 /\ flag'[j] # None => flag'[j] = slots'[j].req /\ flag'[j] \in replied'
                 /\ \A m \in net' : m.slot = j /\ SameSeq(m.seq, slots'[j].seq)
                                       => m.req = slots'[j].req
      <3>1. j # i /\ j \notin Ends(stack)
        BY <2>5, <1>3, <1>4
      <3> QED
        BY <2>5, <3>1, <1>6 DEF IInv, ReplyInv
    <2> QED
      BY <2>1, <2>4, <2>5 DEF ReplyInv
  <1> QED
    BY <1>8, <1>9, <1>11, <1>12, <1>13 DEF IInv

\* loop() looks at a slot.
LEMMA ScanIsSlot ==
    ASSUME TypeOK, scan < Parallel
    PROVE  scan \in Slot
  <1>1. scan \in 0..Parallel /\ Parallel \in Nat \ {0}
    BY PingAssumption DEF TypeOK
  <1> QED
    BY <1>1 DEF Slot

\* checkReplies() finds a reply.
LEMMA CheckHitStep ==
    ASSUME IInv, CheckHit
    PROVE  IInv'
  <1>1. PICK i \in Slot : i = scan
    BY ScanIsSlot DEF CheckHit, IInv
  <1>2. /\ stack = <<>> /\ slots[i].state = "PINGING" /\ flag[i] # None
        /\ flag' = [flag EXCEPT ![i] = None] /\ stack' = <<CallDispatch(i, TRUE)>>
        /\ scan' = scan + 1 /\ scan < Parallel
        /\ UNCHANGED <<slotVars, queue, nextSeq, ctxVars, pc, platform,
                       expected, net, replied>>
    BY <1>1 DEF CheckHit, InLoop
  <1> QED
    BY <1>1, <1>2, DispatchStep

\* processTimeouts() gives an attempt up.
LEMMA TimeoutFiresStep ==
    ASSUME IInv, TimeoutFires
    PROVE  IInv'
  <1>1. PICK i \in Slot : i = scan
    BY ScanIsSlot DEF TimeoutFires, IInv
  <1>2. /\ stack = <<>> /\ slots[i].state = "PINGING"
        /\ flag' = [flag EXCEPT ![i] = None] /\ stack' = <<CallDispatch(i, FALSE)>>
        /\ scan' = scan + 1 /\ scan < Parallel
        /\ UNCHANGED <<slotVars, queue, nextSeq, ctxVars, pc, platform,
                       expected, net, replied>>
    BY <1>1 DEF TimeoutFires, InLoop
  <1> QED
    BY <1>1, <1>2, DispatchStep

\* processTimeouts() gives a finished slot back.
LEMMA SlotFreedStep ==
    ASSUME IInv, SlotFreed
    PROVE  IInv'
  <1> USE DEF platformVars, ctxVars
  <1> DEFINE Entry == [state : {"IDLE", "PINGING", "TIMEOUT", "SUCCESS"},
                       req : Request \cup {None}, seq : Nat]
  <1>1. PICK i \in Slot : i = scan
    BY ScanIsSlot DEF SlotFreed, IInv
  <1>2. /\ stack = <<>> /\ pc = "timeouts" /\ scan < Parallel
        /\ slots[i].state \in {"SUCCESS", "TIMEOUT"}
        /\ slots' = [slots EXCEPT ![i].state = "IDLE"]
        /\ count' = count - 1 /\ scan' = scan + 1
        /\ UNCHANGED <<due, tries, queue, nextSeq, retries, left, status, asked, stack, pc,
                       platform, flag, expected, net, replied>>
    BY <1>1 DEF SlotFreed, InLoop
  <1>3. slots \in [Slot -> Entry] /\ scan \in 0..Parallel /\ Parallel \in Nat
    BY PingAssumption DEF IInv, TypeOK
  <1> DEFINE new == [slots[i] EXCEPT !.state = "IDLE"]
  <1>4. new \in Entry /\ new.state = "IDLE" /\ new.req = slots[i].req
    BY <1>3
  <1>5. slots' = [slots EXCEPT ![i] = new]
    BY <1>2
  <1> HIDE DEF new
  <1>6. /\ slots' \in [Slot -> Entry] /\ slots'[i] = new
        /\ \A j \in Slot : j # i => slots'[j] = slots[j]
    BY <1>3, <1>4, <1>5
  <1>7. \A j \in Slot : slots'[j].req = slots[j].req
    BY <1>4, <1>6
  <1>8. CountMatchesSlots' /\ count' \in 0..Parallel
    <2>1. i \in Busy
      BY <1>2 DEF Busy
    <2>2. slots'[i].state = "IDLE"
      BY <1>4, <1>6
    <2>3. Busy' = Busy \ {i}
      BY <2>2, <1>6 DEF Busy
    <2> QED
      BY <2>1, <2>3, <1>2, CountBack DEF IInv
  <1>9. scan' \in 0..Parallel
    BY <1>2, <1>3
  <1>10. TypeOK'
    BY <1>2, <1>6, <1>8, <1>9 DEF IInv, TypeOK
  <1>11. StackInv'
    BY <1>2, EmptyStack DEF StackInv
  <1>12. \A j \in Slot : Unanswered(j)' <=> Unanswered(j)
    BY <1>2, <1>7 DEF Unanswered, Settled
  <1>13. \A q \in Request : /\ InSlot(q)' <=> InSlot(q)
                            /\ Waiting(q)' <=> Waiting(q)
                            /\ Called(q)' <=> Called(q)
    BY <1>2, <1>7, <1>12 DEF InSlot, Waiting, Called, Running
  <1>14. PlaceInv'
    <2>1. \A j \in Slot : slots'[j].state = "PINGING" <=> slots'[j].req # None
      <3>1. \A j \in Slot : slots[j].state = "PINGING" <=> slots[j].req # None
        BY DEF IInv, PlaceInv
      <3>2. slots[i].state # "PINGING" /\ slots'[i].state # "PINGING"
        BY <1>2, <1>4, <1>6
      <3>3. \A j \in Slot : j # i => slots'[j].state = slots[j].state
        BY <1>6
      <3> QED
        BY <3>1, <3>2, <3>3, <1>7
    <2>2. \A j, k \in Slot : Unanswered(j)' /\ Unanswered(k)'
                             /\ slots'[j].req = slots'[k].req => j = k
      BY <1>7, <1>12 DEF IInv, PlaceInv
    <2>3. \A k, l \in 1..Len(queue') : queue'[k].req = queue'[l].req => k = l
      BY <1>2 DEF IInv, PlaceInv
    <2>4. \A q \in Request :
             /\ status'[q] = "open" <=> InSlot(q)' \/ Waiting(q)' \/ Called(q)'
             /\ ~(InSlot(q)' /\ Waiting(q)')
             /\ ~(InSlot(q)' /\ Called(q)')
             /\ ~(Waiting(q)' /\ Called(q)')
      BY <1>2, <1>13 DEF IInv, PlaceInv
    <2> QED
      BY <2>1, <2>2, <2>3, <2>4 DEF PlaceInv
  <1>15. AttemptInv'
    BY <1>2, <1>13 DEF IInv, AttemptInv
  <1>16. ContextsKept' /\ FullInv'
    BY <1>2 DEF IInv, ContextsKept, FullInv
  <1>17. ReplyInv'
    <2>1. OnlyOwnReplies' /\ ~Running("dispatch")'
      BY <1>2 DEF IInv, ReplyInv, OnlyOwnReplies, Running
    <2>2. ASSUME NEW j \in Slot, slots'[j].state = "PINGING", j \notin Ends(stack')
          PROVE  /\ expected'[j] = slots'[j].seq
                 /\ flag'[j] # None => flag'[j] = slots'[j].req /\ flag'[j] \in replied'
                 /\ \A m \in net' : m.slot = j /\ SameSeq(m.seq, slots'[j].seq)
                                       => m.req = slots'[j].req
      <3>1. j # i
        BY <2>2, <1>4, <1>6
      <3>2. slots'[j] = slots[j] /\ j \notin Ends(stack) /\ slots[j].state = "PINGING"
        BY <2>2, <3>1, <1>2, <1>6
      <3>3. /\ expected[j] = slots[j].seq
            /\ flag[j] # None => flag[j] = slots[j].req /\ flag[j] \in replied
            /\ \A m \in net : m.slot = j /\ SameSeq(m.seq, slots[j].seq)
                                 => m.req = slots[j].req
        BY <3>2 DEF IInv, ReplyInv
      <3> QED
        BY <3>2, <3>3, <1>2
    <2> QED
      BY <2>1, <2>2 DEF ReplyInv
  <1> QED
    BY <1>8, <1>10, <1>11, <1>14, <1>15, <1>16, <1>17 DEF IInv

-----------------------------------------------------------------------------
(* Echo replies.                                                           *)

\* A reply is credited to a slot that waits only if it is its own.
LEMMA ReceiveStep ==
    ASSUME IInv, NEW m \in net, Receive(m)
    PROVE  IInv'
  <1> USE DEF slotVars, ctxVars, loopVars
  <1>1. /\ flag' = IF Accepts(m) THEN [flag EXCEPT ![m.slot] = m.req] ELSE flag
        /\ net' \subseteq net /\ replied' = replied \cup {m.req}
        /\ UNCHANGED <<slots, count, due, tries, queue, nextSeq, retries, left, status,
                       asked, stack, pc, scan, platform, expected>>
    BY DEF Receive
  <1>2. /\ net \subseteq [slot : Slot, seq : Nat, req : Request]
        /\ flag \in [Slot -> Request \cup {None}] /\ replied \subseteq Request
    BY DEF IInv, TypeOK
  <1>3. m.slot \in Slot /\ m.req \in Request
    BY <1>2
  <1>4. /\ flag' \in [Slot -> Request \cup {None}]
        /\ \A j \in Slot : flag'[j] = IF Accepts(m) /\ j = m.slot THEN m.req ELSE flag[j]
    BY <1>1, <1>2, <1>3
  <1>5. TypeOK'
    <2>1. net' \subseteq [slot : Slot, seq : Nat, req : Request] /\ replied' \subseteq Request
      BY <1>1, <1>2, <1>3
    <2> QED
      BY <2>1, <1>1, <1>4 DEF IInv, TypeOK
  <1>6. StackInv' /\ CountMatchesSlots' /\ ContextsKept' /\ FullInv'
    BY <1>1 DEF IInv, StackInv, CountMatchesSlots, ContextsKept, FullInv, HasFree
  <1>7. PlaceInv' /\ AttemptInv'
    BY <1>1, PlaceKept DEF IInv, Called, Running
  <1>8. ReplyInv'
    <2>1. OnlyOwnReplies'
      BY <1>1 DEF IInv, ReplyInv, OnlyOwnReplies
    <2>2. Running("dispatch")' /\ stack'[1].ok => Dispatched' \in replied'
      BY <1>1 DEF IInv, ReplyInv, Running, Dispatched
    <2>3. ASSUME NEW j \in Slot, slots'[j].state = "PINGING", j \notin Ends(stack')
          PROVE  /\ expected'[j] = slots'[j].seq
                 /\ flag'[j] # None => flag'[j] = slots'[j].req /\ flag'[j] \in replied'
                 /\ \A n \in net' : n.slot = j /\ SameSeq(n.seq, slots'[j].seq)
                                       => n.req = slots'[j].req
      <3>1. /\ expected[j] = slots[j].seq
            /\ flag[j] # None => flag[j] = slots[j].req /\ flag[j] \in replied
            /\ \A n \in net : n.slot = j /\ SameSeq(n.seq, slots[j].seq)
                                 => n.req = slots[j].req
        BY <2>3, <1>1 DEF IInv, ReplyInv
      <3>2. CASE Accepts(m) /\ j = m.slot
        <4>1. SameSeq(m.seq, slots[j].seq)
          BY <3>1, <3>2 DEF Accepts
        <4>2. flag'[j] = m.req /\ m.req = slots[j].req
          BY <3>1, <3>2, <4>1, <1>4
        <4> QED
          BY <3>1, <4>2, <1>1
      <3>3. CASE ~(Accepts(m) /\ j = m.slot)
        <4>1. flag'[j] = flag[j]
          BY <3>3, <1>4
        <4> QED
          BY <3>1, <4>1, <1>1
      <3> QED
        BY <3>2, <3>3
    <2> QED
      BY <2>1, <2>2, <2>3 DEF ReplyInv
  <1> QED
    BY <1>5, <1>6, <1>7, <1>8 DEF IInv

-----------------------------------------------------------------------------
(* All together.                                                           *)

\* At first every slot is free and nothing waits.
LEMMA InitInv == Init => IInv
  <1> SUFFICES ASSUME Init PROVE IInv
    OBVIOUS
  <1> USE DEF Init
  <1>1. /\ Parallel \in Nat \ {0} /\ None \notin Request /\ MaxRetries \in Nat
    BY PingAssumption
  <1>2. IdleSlot \in [state : {"IDLE", "PINGING", "TIMEOUT", "SUCCESS"},
                      req : Request \cup {None}, seq : Nat]
    BY DEF IdleSlot
  <1>3. TypeOK
    BY <1>1, <1>2, EmptyStack DEF TypeOK
  <1>4. StackInv
    BY EmptyStack DEF StackInv
  <1>5. \A i \in Slot : slots[i].state = "IDLE" /\ slots[i].req = None
    BY DEF IdleSlot
  <1>6. \A r \in Request : ~InSlot(r) /\ ~Waiting(r) /\ ~Called(r)
    BY <1>5 DEF InSlot, Unanswered, Waiting, Called, Running
  <1>7. PlaceInv
    BY <1>5, <1>6 DEF PlaceInv, Unanswered
  <1>8. AttemptInv
    BY <1>6, <1>1 DEF AttemptInv
  <1>9. CountMatchesSlots
    <2>1. {i \in Slot : slots[i].state # "IDLE"} = {}
      BY <1>5
    <2> QED
      BY <2>1, FS_EmptySet DEF CountMatchesSlots
  <1>10. ContextsKept /\ FullInv
    BY DEF ContextsKept, FullInv
  <1>11. ReplyInv
    BY <1>5 DEF ReplyInv, Running, OnlyOwnReplies
  <1> QED
    BY <1>3, <1>4, <1>7, <1>8, <1>9, <1>10, <1>11 DEF IInv

\* loop() moves on to the next slot, or to its next phase.
LEMMA LoopMoves ==
    ASSUME IInv,
           \/ LoopEnters \/ CheckMiss \/ LoopReturnsEarly \/ LoopGoesOn
           \/ TimeoutSkips \/ TimeoutsDone \/ LoopEnds
    PROVE  IInv'
  <1> USE DEF slotVars, InLoop
  <1>1. /\ Parallel \in Nat \ {0} /\ scan \in 0..Parallel /\ due \subseteq Slot
        /\ pc \in {"user", "check", "timeouts", "pending"}
    BY PingAssumption DEF IInv, TypeOK
  <1>2. pc \in {"user", "check"} /\ queue # <<>> => ~HasFree
    BY DEF IInv, FullInv
  <1>3. 0 \in 0..Parallel /\ (scan < Parallel => scan + 1 \in 0..Parallel)
    BY <1>1
  <1>4. UNCHANGED <<slots, count, tries, queue, nextSeq, ctxVars, stack,
                    platformVars, due>>
    BY DEF LoopEnters, CheckMiss, LoopReturnsEarly, LoopGoesOn, TimeoutSkips,
           TimeoutsDone, LoopEnds, Skips
  <1>5. /\ scan' \in 0..Parallel /\ pc' \in {"user", "check", "timeouts", "pending"}
        /\ pc' \in {"user", "check"} /\ queue # <<>> => ~HasFree
    <2>1. CASE LoopEnters
      BY <2>1, <1>2, <1>3 DEF LoopEnters
    <2>2. CASE CheckMiss
      BY <2>2, <1>1, <1>2, <1>3 DEF CheckMiss, Skips
    <2>3. CASE LoopReturnsEarly
      BY <2>3, <1>2, <1>3 DEF LoopReturnsEarly
    <2>4. CASE LoopGoesOn
      BY <2>4, <1>3 DEF LoopGoesOn
    <2>5. CASE TimeoutSkips
      BY <2>5, <1>1, <1>2, <1>3 DEF TimeoutSkips, Skips
    <2>6. CASE TimeoutsDone
      BY <2>6, <1>3 DEF TimeoutsDone
    <2>7. CASE LoopEnds
      BY <2>7, <1>3 DEF LoopEnds
    <2> QED
      BY <2>1, <2>2, <2>3, <2>4, <2>5, <2>6, <2>7
  <1>6. due' \subseteq Slot
    BY <1>1, <1>4
  <1> QED
    BY <1>4, <1>5, <1>6, QuietStep

\* Every step keeps the invariant.
LEMMA NextStep == IInv /\ [Next]_vars => IInv'
  <1> SUFFICES ASSUME IInv, [Next]_vars PROVE IInv'
    OBVIOUS
  <1>1. CASE User
    BY <1>1, PingStep, NowhereStep DEF User
  <1>2. CASE Calls
    BY <1>2, PingStartsStep, PingWaitsStep, CallbackAnswersStep, RetriesStep,
       SettleStep DEF Calls
  <1>3. CASE Loop
    BY <1>3, LoopMoves, CheckHitStep, TimeoutFiresStep, SlotFreedStep,
       PendingStartsStep DEF Loop
  <1>4. ASSUME NEW i \in Slot, TimeElapses(i) PROVE IInv'
    <2>1. /\ due' \subseteq Slot
          /\ UNCHANGED <<slots, count, tries, queue, nextSeq, ctxVars, stack,
                         platformVars, pc, scan>>
      BY <1>4 DEF TimeElapses, loopVars, IInv, TypeOK
    <2>2. /\ pc' \in {"user", "check", "timeouts", "pending"} /\ scan' \in 0..Parallel
          /\ pc' \in {"user", "check"} /\ queue # <<>> => ~HasFree
      BY <2>1 DEF IInv, TypeOK, FullInv
    <2> QED
      BY <2>1, <2>2, QuietStep
  <1>5. CASE World
    BY <1>5, <1>4, ReceiveStep DEF World
  <1>6. CASE UNCHANGED vars
    <2>1. /\ due' \subseteq Slot
          /\ UNCHANGED <<slots, count, tries, queue, nextSeq, ctxVars, stack,
                         platformVars, pc, scan>>
      BY <1>6 DEF vars, slotVars, loopVars, IInv, TypeOK
    <2>2. /\ pc' \in {"user", "check", "timeouts", "pending"} /\ scan' \in 0..Parallel
          /\ pc' \in {"user", "check"} /\ queue # <<>> => ~HasFree
      BY <2>1 DEF IInv, TypeOK, FullInv
    <2> QED
      BY <2>1, <2>2, QuietStep
  <1> QED
    BY <1>1, <1>2, <1>3, <1>5, <1>6 DEF Next

\* The calls in progress, slots, queue and counter agree in every state, for
\* any number of slots and requests (dispatchCallback(), loop(), ping()).
THEOREM Invariance == Spec => []IInv
  <1> QED
    BY InitInv, NextStep, PTL DEF Spec

\* Every variable of the ping handler keeps its type: the counter of active
\* slots stays within their number, the retries within those asked for.
THEOREM TypeCorrect == Spec => []TypeOK
  <1>1. IInv => TypeOK
    BY DEF IInv
  <1> QED
    BY <1>1, Invariance, PTL

\* Nobody is told "reachable" unless the host of that ping has answered,
\* whatever replies are late or doubled (platformCheckReply()).
THEOREM OwnReplies == Spec => []OnlyOwnReplies
  <1>1. IInv => OnlyOwnReplies
    BY DEF IInv, ReplyInv
  <1> QED
    BY <1>1, Invariance, PTL

\* A call of ping() is the innermost call.
LEMMA PingOnTop ==
    ASSUME TypeOK, StackInv, NEW k \in 1..Len(stack), stack[k].op = "ping"
    PROVE  k = 1 /\ Running("ping")
  <1>1. stack \in Seq(Frame) /\ stack # <<>>
    <2>1. stack \in Seq(Frame)
      BY DEF TypeOK
    <2>2. stack = <<>> => 1..Len(stack) = {}
      OBVIOUS
    <2> QED
      BY <2>1, <2>2
  <1>2. /\ Len(stack) \in Nat \ {0} /\ Len(Tail(stack)) = Len(stack) - 1
        /\ \A l \in 1..Len(stack) - 1 : Tail(stack)[l] = stack[l + 1]
    BY <1>1, PopFacts
  <1>3. CASE k # 1
    <2>1. k - 1 \in 1..Len(stack) - 1 /\ (k - 1) + 1 = k
      BY <1>2, <1>3
    <2>2. Tail(stack)[k - 1] = stack[k]
      BY <1>2, <2>1
    <2>3. Tail(stack)[k - 1].op = "settle"
      BY <1>1, <1>2, <2>1 DEF StackInv, Nested, Waits
    <2> QED
      BY <2>2, <2>3
  <1>4. CASE k = 1
    BY <1>1, <1>4 DEF Running
  <1> QED
    BY <1>3, <1>4

\* The places of a request, as the invariant has them.
LEMMA PlacesOf ==
    ASSUME IInv, NEW r \in Request, NEW x
    PROVE  x \in Holders(r) <=>
              \/ \E i \in Slot : x = <<"slot", i>> /\ Unanswered(i) /\ slots[i].req = r
              \/ \E k \in 1..Len(queue) : x = <<"queue", k>> /\ queue[k].req = r
              \/ x = <<"call", 1>> /\ Called(r)
  <1>1. r # None
    BY PingAssumption
  <1>2. (\E k \in 1..Len(stack) : /\ x = <<"call", k>> /\ stack[k].op = "ping"
                                  /\ stack[k].req = r)
           <=> x = <<"call", 1>> /\ Called(r)
    <2>1. ASSUME NEW k \in 1..Len(stack), stack[k].op = "ping", stack[k].req = r
          PROVE  k = 1 /\ Called(r)
      BY <2>1, PingOnTop DEF IInv, Called
    <2>2. ASSUME Called(r)
          PROVE  1 \in 1..Len(stack) /\ stack[1].op = "ping" /\ stack[1].req = r
      <3>1. stack \in Seq(Frame) /\ stack # <<>>
        BY <2>2 DEF IInv, TypeOK, Called, Running
      <3>2. 1 \in 1..Len(stack)
        BY <3>1, PopFacts
      <3> QED
        BY <2>2, <3>2 DEF Called, Running
    <2> QED
      BY <2>1, <2>2
  <1>3. (\E i \in Slot : x = <<"slot", i>> /\ slots[i].req = r /\ ~Settled(i))
           <=> \E i \in Slot : x = <<"slot", i>> /\ Unanswered(i) /\ slots[i].req = r
    BY <1>1 DEF Unanswered
  <1>4. x \in Holders(r) <=>
           \/ \E i \in Slot : x = <<"slot", i>> /\ slots[i].req = r /\ ~Settled(i)
           \/ \E k \in 1..Len(queue) : x = <<"queue", k>> /\ queue[k].req = r
           \/ \E k \in 1..Len(stack) : /\ x = <<"call", k>> /\ stack[k].op = "ping"
                                       /\ stack[k].req = r
    BY ZenonT(30) DEF Holders
  <1> QED
    BY <1>2, <1>3, <1>4

\* A request has one place as long as it is unanswered, and none else.
LEMMA OnePlace == IInv => OneHolder
  <1> SUFFICES ASSUME IInv, NEW r \in Request
               PROVE  Cardinality(Holders(r)) = IF status[r] = "open" THEN 1 ELSE 0
    BY DEF OneHolder
  <1>1. status[r] = "open" <=> Holders(r) # {}
    <2>1. Holders(r) # {} <=> InSlot(r) \/ Waiting(r) \/ Called(r)
      BY PlacesOf DEF InSlot, Waiting
    <2> QED
      BY <2>1 DEF IInv, PlaceInv
  <1>2. ASSUME NEW x \in Holders(r), NEW y \in Holders(r)
        PROVE  x = y
    <2>1. ASSUME NEW i \in Slot, x = <<"slot", i>>, Unanswered(i), slots[i].req = r
          PROVE  x = y
      <3>1. InSlot(r) /\ ~Waiting(r) /\ ~Called(r)
        BY <2>1 DEF InSlot, IInv, PlaceInv
      <3>2. PICK j \in Slot : y = <<"slot", j>> /\ Unanswered(j) /\ slots[j].req = r
        BY <3>1, PlacesOf DEF Waiting
      <3> QED
        BY <2>1, <3>2 DEF IInv, PlaceInv
    <2>2. ASSUME NEW k \in 1..Len(queue), x = <<"queue", k>>, queue[k].req = r
          PROVE  x = y
      <3>1. ~InSlot(r) /\ ~Called(r)
        BY <2>2 DEF Waiting, IInv, PlaceInv
      <3>2. PICK l \in 1..Len(queue) : y = <<"queue", l>> /\ queue[l].req = r
        BY <3>1, PlacesOf DEF InSlot
      <3> QED
        BY <2>2, <3>2 DEF IInv, PlaceInv
    <2>3. ASSUME x = <<"call", 1>>, Called(r)
          PROVE  x = y
      <3>1. ~InSlot(r) /\ ~Waiting(r)
        BY <2>3 DEF IInv, PlaceInv
      <3> QED
        BY <2>3, <3>1, PlacesOf DEF InSlot, Waiting
    <2> QED
      BY <2>1, <2>2, <2>3, PlacesOf
  <1>3. CASE Holders(r) = {}
    BY <1>1, <1>3, FS_EmptySet
  <1>4. CASE Holders(r) # {}
    <2>1. PICK x : x \in Holders(r)
      BY <1>4
    <2>2. Holders(r) = {x}
      BY <1>2, <2>1
    <2> QED
      BY <1>1, <1>4, <2>2, FS_Singleton
  <1> QED
    BY <1>3, <1>4

\* Each accepted request has one place until it is answered and none after,
\* the counter counts the slots in use, a request waits only while all are,
\* contexts live as long as their requests, and "not reachable" is said after
\* all the attempts asked for (ping(), innerCallback, processTimeouts()).
THEOREM BooksKept == Spec => []Bookkeeping
  <1>1. IInv => Bookkeeping
    <2> SUFFICES ASSUME IInv PROVE Bookkeeping
      OBVIOUS
    <2>1. NoIdleSlotWhileWaiting
      BY DEF IInv, FullInv, NoIdleSlotWhileWaiting, InLoop
    <2>2. AllAttemptsMade
      BY DEF IInv, AttemptInv, AllAttemptsMade
    <2> QED
      BY <2>1, <2>2, OnePlace DEF Bookkeeping, IInv
  <1> QED
    BY <1>1, Invariance, PTL

=============================================================================
