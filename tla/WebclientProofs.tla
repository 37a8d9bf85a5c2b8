--------------------------- MODULE WebclientProofs --------------------------
(***************************************************************************)
(* The safety invariants of the web client on RP2040 for every number of   *)
(* slots and requests and any depth of callbacks that send requests: each  *)
(* onDone has one place and is called at most once, and what a slot owns   *)
(* fits its state -- as long as the start of a request that waited does    *)
(* not fail, which the run WebclientTwice is about.                        *)
(***************************************************************************)
EXTENDS Webclient, FiniteSetTheorems, NaturalsInduction, WellFoundedInduction,
        TLAPS

-----------------------------------------------------------------------------
(* The types, by name.                                                     *)

SlotData ==
    [state : {"IDLE", "RESOLVING", "CONNECTING", "SSL_HANDSHAKE", "SENDING_HDR",
              "SENDING_BODY", "HEADERS", "BODY"},
     req : Request \cup {None}, id : Nat, bufs : BOOLEAN, cb : BOOLEAN,
     ssl : BOOLEAN, framing : {"none", "length", "close"}]

TcpData == [pcb : BOOLEAN, est : BOOLEAN, err : BOOLEAN, rx : Seq(Segments)]
Element == [req : Request, cb : BOOLEAN]
Query   == [slot : Slot, id : Nat]

AnyFrame == [op : {"enqueue", "start", "startFront", "done", "finish", "callback",
                   "next", "pop"},
             req : Request \cup {None}, slot : Slot, res : Results \cup {"none"}]

Frame == {f \in AnyFrame : f.op \in {"done", "finish"} => f.res \in Results}

Typed ==
    /\ slots \in [Slot -> SlotData] /\ tcp \in [Slot -> TcpData]
    /\ pending \in Seq(Element)
    /\ nextId \in Nat \ {0} /\ dns \subseteq Query
    /\ due \subseteq Slot /\ wild \in BOOLEAN
    /\ stack \in Seq(Frame)
    /\ url \in [Request -> Urls \cup {"new"}]
    /\ started \in [Request -> Nat] /\ answers \in [Request -> Nat]

-----------------------------------------------------------------------------
(* The inductive strengthening.                                            *)

(* The stack: below an innermost call lie only calls that wait for it, and *)
(* which one lies under which is fixed.                                    *)

Under(op) == IF op \in {"done", "callback"} THEN "next"
             ELSE IF op = "startFront" THEN "pop" ELSE "callback"

Lasting == {"enqueue", "start", "finish", "next", "pop"}

Nested(s) ==
    \A k \in 1..Len(s) :
        IF k = Len(s) THEN s[k].op \in Lasting ELSE s[k + 1].op = Under(s[k].op)

At(op) == stack # <<>> /\ stack[1].op = op

\* What the innermost call may rely on.
CallInv ==
    /\ ~wild
    /\ At("enqueue") \/ At("start") \/ At("done") => stack[1].req \in Request
    /\ At("enqueue") /\ url[stack[1].req] = "bad" => IdleSlots # {}
    /\ At("start") \/ At("startFront") => stack[1].slot \in IdleSlots
    /\ At("startFront") \/ At("pop") => pending # <<>>
    /\ At("finish") => \A q \in dns : q.slot # stack[1].slot

\* A request that waits holds its onDone and has a proper URL; only the one
\* that startNextPending() has just started is without.
WaitInv ==
    \A k \in 1..Len(pending) :
        IF At("pop") /\ k = 1 THEN ~pending[k].cb
        ELSE pending[k].cb /\ url[pending[k].req] # "bad"

\* The slots startNextPending() will still be called for: each call of it that
\* waits lies on a callback, and finishSlot() calls it once it has freed its own.
Called(s) ==
    IF s = <<>> THEN 0
    ELSE IF s[1].op = "next" THEN Len(s) + 1
    ELSE IF s[1].op \in {"done", "callback", "startFront"} THEN Len(s)
    ELSE Len(s) - 1

\* While requests wait, there is a call for each slot that is free.
FreeInv == pending # <<>> => 2 * Cardinality(IdleSlots) <= Called(stack)

QueryInv ==
    /\ \A i \in Slot : slots[i].state = "RESOLVING" =>
          \/ [slot |-> i, id |-> slots[i].id] \in dns
          \/ At("finish") /\ stack[1].slot = i
    /\ \A q \in dns : slots[q.slot].state = "RESOLVING" /\ slots[q.slot].id = q.id

(* Where the onDone of a request is.                                       *)

InSlot(r)  == \E i \in Slot : slots[i].cb /\ slots[i].req = r
Waiting(r) == \E k \in 1..Len(pending) : pending[k].cb /\ pending[k].req = r
InCall(r)  == (At("enqueue") \/ At("start") \/ At("done")) /\ stack[1].req = r

Place(r) ==
    /\ InSlot(r) \/ Waiting(r) \/ InCall(r) <=> url[r] # "new" /\ answers[r] = 0
    /\ ~(InSlot(r) /\ Waiting(r))
    /\ ~(InSlot(r) /\ InCall(r))
    /\ ~(Waiting(r) /\ InCall(r))
    /\ answers[r] <= 1 /\ started[r] <= 1
    /\ url[r] = "new" => answers[r] = 0 /\ started[r] = 0
    /\ Waiting(r) => started[r] = 0
    /\ InCall(r) /\ ~At("done") => started[r] = 0

PlaceInv ==
    /\ \A i, j \in Slot :
          slots[i].cb /\ slots[j].cb /\ slots[i].req = slots[j].req => i = j
    /\ \A k, l \in 1..Len(pending) :
          pending[k].cb /\ pending[l].cb /\ pending[k].req = pending[l].req => k = l
    /\ \A r \in Request : Place(r)

\* What has a holder is a request.
TInv ==
    /\ Typed
    /\ \A i \in Slot : slots[i].cb => slots[i].req \in Request

IInv == /\ TInv /\ Nested(stack) /\ CallInv /\ WaitInv /\ FreeInv
        /\ IdleHoldsNothing /\ QueryInv /\ PlaceInv

-----------------------------------------------------------------------------
(* Types and sequences.                                                    *)

LEMMA TypedFrames == TypeOK <=> Typed /\ online \in BOOLEAN
  <1>1. ASSUME stack \in Seq(AnyFrame)
        PROVE  (\A k \in 1 .. Len(stack) :
                   stack[k].op \in {"done", "finish"} => stack[k].res \in Results)
               <=> stack \in Seq(Frame)
    BY <1>1 DEF Frame
  <1>2. stack \in Seq(Frame) => stack \in Seq(AnyFrame)
    BY DEF Frame
  <1> QED
    BY <1>1, <1>2 DEF TypeOK, Typed, SlotData, TcpData, Element, Query, AnyFrame

\* Sequences of the same elements are equal.
LEMMA SameElements ==
    ASSUME NEW S, NEW a \in Seq(S), NEW b \in Seq(S), Len(a) = Len(b),
           \A i \in 1..Len(a) : a[i] = b[i]
    PROVE  a = b
  OBVIOUS

LEMMA EmptyLen == ASSUME NEW t, t = <<>> PROVE Len(t) = 0
  OBVIOUS

\* A call more on the stack.
LEMMA PushFacts ==
    ASSUME NEW S, NEW f \in S, NEW t \in Seq(S)
    PROVE  /\ <<f>> \o t \in Seq(S) /\ <<f>> \o t # <<>>
           /\ Len(t) \in Nat /\ Len(<<f>> \o t) = Len(t) + 1
           /\ (<<f>> \o t)[1] = f
           /\ \A k \in 1..Len(t) : (<<f>> \o t)[k + 1] = t[k]
  OBVIOUS

\* A sequence without its first element.
LEMMA TailFacts ==
    ASSUME NEW S, NEW s \in Seq(S), s # <<>>
    PROVE  /\ s[1] \in S /\ Tail(s) \in Seq(S)
           /\ Len(s) \in Nat \ {0} /\ Len(Tail(s)) = Len(s) - 1
           /\ \A k \in 1..Len(s) - 1 : Tail(s)[k] = s[k + 1]
  OBVIOUS

\* A sequence with one element more at its end.
LEMMA AppendFacts ==
    ASSUME NEW S, NEW s \in Seq(S), NEW e \in S
    PROVE  /\ Append(s, e) \in Seq(S) /\ Len(Append(s, e)) = Len(s) + 1
           /\ Len(s) \in Nat /\ Append(s, e)[Len(s) + 1] = e
           /\ \A k \in 1..Len(s) : Append(s, e)[k] = s[k]
  OBVIOUS

LEMMA TwoCalls ==
    ASSUME NEW S, NEW f \in S, NEW g \in S, NEW t \in Seq(S)
    PROVE  <<f, g>> \o t = <<f>> \o (<<g>> \o t)
  <1> DEFINE a == <<g>> \o t
             b == <<f>> \o a
             d == <<f, g>> \o t
  <1>1. /\ a \in Seq(S) /\ Len(t) \in Nat /\ Len(a) = Len(t) + 1 /\ a[1] = g
        /\ \A k \in 1..Len(t) : a[k + 1] = t[k]
    BY PushFacts
  <1>2. /\ b \in Seq(S) /\ Len(b) = Len(a) + 1 /\ b[1] = f
        /\ \A k \in 1..Len(a) : b[k + 1] = a[k]
    <2> HIDE DEF a
    <2> QED
      BY <1>1, PushFacts
  <1>3. /\ d \in Seq(S) /\ Len(d) = Len(t) + 2 /\ d[1] = f /\ d[2] = g
        /\ \A k \in 1..Len(t) : d[k + 2] = t[k]
    OBVIOUS
  <1> HIDE DEF a, b, d
  <1>4. ASSUME NEW i \in 1..Len(t) + 2 PROVE d[i] = b[i]
    <2>1. CASE i = 1
      BY <2>1, <1>2, <1>3
    <2>2. CASE i = 2
      <3>1. 1 \in 1..Len(a) /\ 1 + 1 = 2
        BY <1>1
      <3> QED
        BY <2>2, <3>1, <1>1, <1>2, <1>3
    <2>3. CASE i # 1 /\ i # 2
      <3>1. /\ i - 2 \in 1..Len(t) /\ (i - 2) + 2 = i /\ (i - 2) + 1 = i - 1
            /\ i - 1 \in 1..Len(a) /\ (i - 1) + 1 = i
        BY <2>3, <1>1
      <3>2. d[(i - 2) + 2] = t[i - 2] /\ a[(i - 2) + 1] = t[i - 2]
        BY <3>1, <1>1, <1>3
      <3>3. b[(i - 1) + 1] = a[i - 1]
        BY <3>1, <1>2
      <3> QED
        BY <3>1, <3>2, <3>3
    <2> QED
      BY <2>1, <2>2, <2>3
  <1>5. Len(b) = Len(t) + 2
    BY <1>1, <1>2
  <1>6. d = b
    BY <1>2, <1>3, <1>4, <1>5, SameElements
  <1> QED
    BY <1>6 DEF a, b, d

LEMMA NoCall == ASSUME NEW S, NEW t \in Seq(S) PROVE <<>> \o t = t
  OBVIOUS

\* The call f may lie on t.
LiesOn(f, t) == IF t = <<>> THEN f.op \in Lasting ELSE t[1].op = Under(f.op)

LEMMA NestedPush ==
    ASSUME NEW f \in Frame, NEW t \in Seq(Frame), Nested(t), LiesOn(f, t)
    PROVE  Nested(<<f>> \o t)
  <1> DEFINE s == <<f>> \o t
  <1>1. /\ s \in Seq(Frame) /\ Len(t) \in Nat /\ Len(s) = Len(t) + 1 /\ s[1] = f
        /\ \A k \in 1..Len(t) : s[k + 1] = t[k]
    BY PushFacts
  <1> HIDE DEF s
  <1>2. ASSUME NEW k \in 1..Len(s)
        PROVE  IF k = Len(s) THEN s[k].op \in Lasting ELSE s[k + 1].op = Under(s[k].op)
    <2>1. CASE k = 1
      <3>1. CASE t = <<>>
        <4>1. Len(t) = 0
          BY <3>1
        <4> QED
          BY <2>1, <3>1, <4>1, <1>1 DEF LiesOn
      <3>2. CASE t # <<>>
        <4>1. Len(t) # 0 /\ 1 \in 1..Len(t)
          BY <3>2, <1>1
        <4>2. s[1 + 1] = t[1] /\ k # Len(s)
          BY <2>1, <4>1, <1>1
        <4> QED
          BY <2>1, <3>2, <4>2, <1>1 DEF LiesOn
      <3> QED
        BY <3>1, <3>2
    <2>2. CASE k # 1
      <3> DEFINE m == k - 1
      <3>1. m \in 1..Len(t) /\ m + 1 = k /\ (k = Len(s) <=> m = Len(t))
        BY <2>2, <1>1
      <3>2. s[k] = t[m]
        BY <3>1, <1>1
      <3>3. k # Len(s) => s[k + 1] = t[m + 1]
        BY <3>1, <1>1
      <3>4. IF m = Len(t) THEN t[m].op \in Lasting ELSE t[m + 1].op = Under(t[m].op)
        BY <3>1 DEF Nested
      <3> QED
        BY <3>1, <3>2, <3>3, <3>4
    <2> QED
      BY <2>1, <2>2
  <1> QED
    BY <1>2 DEF Nested, s

LEMMA NestedTail ==
    ASSUME NEW s \in Seq(Frame), s # <<>>, Nested(s)
    PROVE  Nested(Tail(s)) /\ LiesOn(s[1], Tail(s))
  <1> DEFINE t == Tail(s)
  <1>1. /\ t \in Seq(Frame) /\ Len(s) \in Nat \ {0} /\ Len(t) = Len(s) - 1
        /\ \A k \in 1..Len(s) - 1 : t[k] = s[k + 1]
    BY TailFacts
  <1> HIDE DEF t
  <1>2. ASSUME NEW k \in 1..Len(t)
        PROVE  IF k = Len(t) THEN t[k].op \in Lasting ELSE t[k + 1].op = Under(t[k].op)
    <2>1. k + 1 \in 1..Len(s) /\ (k = Len(t) <=> k + 1 = Len(s)) /\ t[k] = s[k + 1]
      BY <1>1
    <2>2. k # Len(t) => t[k + 1] = s[k + 1 + 1]
      BY <1>1
    <2>3. IF k + 1 = Len(s) THEN s[k + 1].op \in Lasting
          ELSE s[k + 1 + 1].op = Under(s[k + 1].op)
      BY <2>1 DEF Nested
    <2> QED
      BY <2>1, <2>2, <2>3
  <1>3. LiesOn(s[1], t)
    <2>1. IF 1 = Len(s) THEN s[1].op \in Lasting ELSE s[1 + 1].op = Under(s[1].op)
      BY <1>1 DEF Nested
    <2>2. CASE t = <<>>
      <3>1. Len(t) = 0
        BY <2>2
      <3>2. Len(s) = 1
        BY <3>1, <1>1
      <3> QED
        BY <2>1, <2>2, <3>2 DEF LiesOn
    <2>3. CASE t # <<>>
      <3>1. Len(t) # 0
        BY <2>3, <1>1
      <3>2. Len(s) # 1 /\ t[1] = s[1 + 1]
        BY <3>1, <1>1
      <3> QED
        BY <2>1, <2>3, <3>2 DEF LiesOn
    <2> QED
      BY <2>2, <2>3
  <1> QED
    BY <1>2, <1>3 DEF Nested, t

\* How often startNextPending() is still called with one call more.
LEMMA CalledPush ==
    ASSUME NEW f \in Frame, NEW t \in Seq(Frame)
    PROVE  Called(<<f>> \o t) =
             IF f.op = "next" THEN Len(t) + 2
             ELSE IF f.op \in {"done", "callback", "startFront"} THEN Len(t) + 1
             ELSE Len(t)
  <1>1. /\ <<f>> \o t # <<>> /\ Len(t) \in Nat /\ Len(<<f>> \o t) = Len(t) + 1
        /\ (<<f>> \o t)[1] = f
    BY PushFacts
  <1> QED
    BY <1>1 DEF Called

\* What lies under a call.
LEMMA CalledBelow ==
    ASSUME NEW s \in Seq(Frame), s # <<>>, Nested(s)
    PROVE  /\ Called(s) = IF s[1].op = "next" THEN Len(Tail(s)) + 2
                          ELSE IF s[1].op \in {"done", "callback", "startFront"}
                               THEN Len(Tail(s)) + 1
                          ELSE Len(Tail(s))
           /\ Called(Tail(s)) = IF s[1].op = "startFront" THEN Len(Tail(s)) - 1
                                ELSE IF s[1].op \in {"done", "callback"} THEN Len(Tail(s)) + 1
                                ELSE Len(Tail(s))
           /\ Len(Tail(s)) \in Nat
  <1>1. /\ Len(s) \in Nat \ {0} /\ Len(Tail(s)) = Len(s) - 1
    BY TailFacts
  <1>2. LiesOn(s[1], Tail(s))
    BY NestedTail
  <1>3. Tail(s) = <<>> => Len(Tail(s)) = 0
    BY EmptyLen, Zenon
  <1> QED
    BY <1>1, <1>2, <1>3 DEF Called, LiesOn, Under, Lasting

-----------------------------------------------------------------------------
(* Slots.                                                                  *)

\* A set of natural numbers has a smallest one.
LEMMA SmallestNat ==
    ASSUME NEW T \in SUBSET Nat, T # {}
    PROVE  \E m \in T : \A k \in T : m <= k
  <1>1. PICK m \in T : \A k \in T : ~(<<k, m>> \in OpToRel(<, Nat))
    BY NatLessThanWellFounded, WFMin, Zenon
  <1>2. ASSUME NEW k \in T PROVE m <= k
    <2>1. <<k, m>> \in Nat \X Nat
      OBVIOUS
    <2>2. ~(k < m)
      BY <1>1, <2>1 DEF OpToRel
    <2> QED
      BY <2>1, <2>2
  <1> QED
    BY <1>2

LEMMA SlotSet ==
    ASSUME WebclientAssumption
    PROVE  0 \in Slot /\ Slot \subseteq Nat /\ IsFiniteSet(Slot)
  <1>1. Slots \in Nat /\ 1 <= Slots
    BY DEF WebclientAssumption
  <1>2. 0 \in Int /\ Slots - 1 \in Int
    BY <1>1
  <1>3. IsFiniteSet(Slot)
    BY <1>2, FS_Interval DEF Slot
  <1> QED
    BY <1>1, <1>3 DEF Slot

LEMMA IdleCount ==
    ASSUME WebclientAssumption
    PROVE  /\ IsFiniteSet(IdleSlots) /\ Cardinality(IdleSlots) \in Nat
           /\ IdleSlots \subseteq Slot
           /\ IdleSlots = {} => Cardinality(IdleSlots) = 0
  <1>1. IdleSlots \subseteq Slot
    BY DEF IdleSlots
  <1>2. IsFiniteSet(IdleSlots)
    BY <1>1, SlotSet, FS_Subset
  <1>3. Cardinality(IdleSlots) \in Nat
    BY <1>2, FS_CardinalityType
  <1>4. IdleSlots = {} => Cardinality(IdleSlots) = 0
    BY FS_EmptySet
  <1> QED
    BY <1>1, <1>2, <1>3, <1>4

LEMMA FirstIdleFacts ==
    ASSUME WebclientAssumption, IdleSlots # {}
    PROVE  FirstIdle \in IdleSlots
  <1>1. IdleSlots \in SUBSET Nat
    BY IdleCount, SlotSet
  <1>2. \E i \in IdleSlots : \A j \in IdleSlots : i <= j
    BY <1>1, SmallestNat
  <1> QED
    BY <1>2 DEF FirstIdle

\* The fields of a slot.
LEMMA SlotFields ==
    ASSUME TInv, NEW i \in Slot
    PROVE  /\ slots[i] \in SlotData /\ tcp[i] \in TcpData
           /\ slots[i].cb \in BOOLEAN
           /\ slots[i].cb => slots[i].req \in Request
  BY DEF TInv, Typed, SlotData

\* The fields of a request that waits.
LEMMA WaiterFields ==
    ASSUME TInv, NEW k \in 1..Len(pending)
    PROVE  /\ pending[k] \in Element /\ pending[k].req \in Request
           /\ pending[k].cb \in BOOLEAN
  <1>1. pending \in Seq(Element)
    BY DEF TInv, Typed
  <1>2. pending[k] \in Element
    BY <1>1
  <1> QED
    BY <1>2 DEF Element

\* The calls.
LEMMA CallTypes ==
    ASSUME WebclientAssumption
    PROVE  /\ \A r \in Request : Enqueue(r) \in Frame
           /\ \A r \in Request : \A i \in Slot : StartSlot(i, r) \in Frame
           /\ \A i \in Slot : StartFront(i) \in Frame
           /\ \A r \in Request : \A res \in Results : OnDone(r, res) \in Frame
           /\ Callback \in Frame /\ StartNext \in Frame /\ PopFront \in Frame
           /\ \A i \in Slot : \A res \in Results : FinishSlot(i, res) \in Frame
  <1>1. 0 \in Slot
    BY SlotSet
  <1>2. \A r \in Request : Enqueue(r) \in Frame
    BY <1>1 DEF Enqueue, Frame, AnyFrame, Results
  <1>3. \A r \in Request : \A i \in Slot : StartSlot(i, r) \in Frame
    BY DEF StartSlot, Frame, AnyFrame, Results
  <1>4. \A i \in Slot : StartFront(i) \in Frame
    BY DEF StartFront, Frame, AnyFrame, Results
  <1>5. \A r \in Request : \A res \in Results : OnDone(r, res) \in Frame
    BY <1>1 DEF OnDone, Frame, AnyFrame
  <1>6. Callback \in Frame
    BY <1>1 DEF Callback, Frame, AnyFrame
  <1>7. StartNext \in Frame
    BY <1>1 DEF StartNext, Frame, AnyFrame
  <1>8. PopFront \in Frame
    BY <1>1 DEF PopFront, Frame, AnyFrame
  <1>9. \A i \in Slot : \A res \in Results : FinishSlot(i, res) \in Frame
    BY DEF FinishSlot, Frame, AnyFrame
  <1> QED
    BY <1>2, <1>3, <1>4, <1>5, <1>6, <1>7, <1>8, <1>9

\* What is known while a call is in progress.
LEMMA StackFacts ==
    ASSUME IInv, stack # <<>>
    PROVE  /\ stack \in Seq(Frame) /\ stack[1] \in Frame
           /\ Tail(stack) \in Seq(Frame) /\ Nested(Tail(stack))
           /\ LiesOn(stack[1], Tail(stack)) /\ Len(Tail(stack)) \in Nat
  <1>1. stack \in Seq(Frame) /\ Nested(stack)
    BY DEF IInv, TInv, Typed
  <1> QED
    BY <1>1, TailFacts, NestedTail, CalledBelow

\* The innermost call returns.
LEMMA Returns ==
    ASSUME IInv, stack # <<>>, stack' = Tail(stack)
    PROVE  /\ stack' \in Seq(Frame) /\ Nested(stack')
           /\ ~At("enqueue")' /\ ~At("start")' /\ ~At("startFront")'
           /\ ~At("done")' /\ ~At("finish")'
           /\ At("pop")' <=> stack[1].op = "startFront"
           /\ \A r : ~InCall(r)'
  <1>1. /\ stack' \in Seq(Frame) /\ Nested(stack') /\ LiesOn(stack[1], stack')
    BY StackFacts
  <1>2. stack' # <<>> => stack'[1].op = Under(stack[1].op)
    BY <1>1 DEF LiesOn
  <1>3. stack' = <<>> => stack[1].op # "startFront"
    BY <1>1 DEF LiesOn, Lasting
  <1>4. /\ ~At("enqueue")' /\ ~At("start")' /\ ~At("startFront")'
        /\ ~At("done")' /\ ~At("finish")'
        /\ At("pop")' <=> stack[1].op = "startFront"
    BY <1>2, <1>3 DEF At, Under
  <1> QED
    BY <1>1, <1>4 DEF InCall

\* A call replaces the innermost one, or is the first.
LEMMA Pushes ==
    ASSUME NEW f \in Frame, NEW t \in Seq(Frame), Nested(t), LiesOn(f, t),
           stack' = <<f>> \o t
    PROVE  /\ stack' \in Seq(Frame) /\ Nested(stack') /\ stack' # <<>> /\ stack'[1] = f
           /\ \A op : At(op)' <=> f.op = op
  <1>1. /\ stack' \in Seq(Frame) /\ stack' # <<>> /\ stack'[1] = f
    BY PushFacts
  <1>2. Nested(stack')
    BY NestedPush
  <1> QED
    BY <1>1, <1>2 DEF At

\* A request stays where it is.
LEMMA PlaceKept ==
    ASSUME NEW r \in Request, Place(r),
           InSlot(r)' <=> InSlot(r), Waiting(r)' <=> Waiting(r), InCall(r)' <=> InCall(r),
           url'[r] = url[r], answers'[r] = answers[r], started'[r] = started[r],
           InCall(r)' /\ ~At("done")' => started[r] = 0
    PROVE  Place(r)'
  BY DEF Place

\* Only the stack changes.
LEMMA OnlyStack ==
    ASSUME IInv, UNCHANGED <<slots, tcp, pending, nextId, dns, due, url, ghosts>>,
           stack' \in Seq(Frame), Nested(stack'), CallInv', WaitInv', FreeInv',
           ~At("finish"),
           \A r \in Request : InCall(r)' <=> InCall(r),
           \A r \in Request : InCall(r)' /\ ~At("done")' => started[r] = 0
    PROVE  IInv'
  <1>1. TInv'
    BY DEF IInv, TInv, Typed, ghosts
  <1>2. IdleHoldsNothing'
    BY DEF IInv, IdleHoldsNothing
  <1>3. QueryInv'
    BY DEF IInv, QueryInv
  <1>4. ASSUME NEW r \in Request PROVE Place(r)'
    <2>1. (InSlot(r)' <=> InSlot(r)) /\ (Waiting(r)' <=> Waiting(r))
      BY DEF InSlot, Waiting
    <2>2. Place(r)
      BY DEF IInv, PlaceInv
    <2>3. url'[r] = url[r] /\ answers'[r] = answers[r] /\ started'[r] = started[r]
      BY DEF ghosts
    <2> QED
      BY <2>1, <2>2, <2>3, PlaceKept
  <1>5. PlaceInv'
    BY <1>4 DEF IInv, PlaceInv
  <1> QED
    BY <1>1, <1>2, <1>3, <1>5 DEF IInv

-----------------------------------------------------------------------------
(* enqueue() and what startNextPending() makes of the stack.               *)

\* A request is sent, by the user or from inside a callback.
LEMMA SendsStep ==
    ASSUME WebclientAssumption, FrontFails = FALSE, IInv, ~wild,
           stack = <<>> \/ (stack # <<>> /\ stack[1].op = "callback"),
           NEW r \in Request, NEW kind \in Urls, MaySend(r, kind),
           url' = [url EXCEPT ![r] = kind], stack' = <<Enqueue(r)>> \o stack,
           UNCHANGED <<slots, tcp, pending, nextId, dns, due, ghosts>>
    PROVE  IInv'
  <1>1. /\ Typed /\ Nested(stack) /\ stack \in Seq(Frame) /\ PlaceInv
        /\ url \in [Request -> Urls \cup {"new"}]
    BY DEF IInv, TInv, Typed
  <1>2. Enqueue(r) \in Frame /\ Enqueue(r).op = "enqueue" /\ Enqueue(r).req = r
    BY CallTypes DEF Enqueue
  <1>3. LiesOn(Enqueue(r), stack)
    BY <1>2 DEF LiesOn, Lasting, Under
  <1>4. /\ stack' \in Seq(Frame) /\ Nested(stack') /\ stack' # <<>>
        /\ stack'[1] = Enqueue(r) /\ \A op : At(op)' <=> Enqueue(r).op = op
    BY <1>1, <1>2, <1>3, Pushes
  <1>5. /\ At("enqueue")' /\ ~At("start")' /\ ~At("done")' /\ ~At("startFront")'
        /\ ~At("pop")' /\ ~At("finish")' /\ stack'[1].req = r
    BY <1>2, <1>4
  <1>6. /\ ~At("enqueue") /\ ~At("start") /\ ~At("done") /\ ~At("startFront")
        /\ ~At("pop") /\ ~At("finish")
    BY DEF At
  <1>7. url[r] = "new" /\ (kind = "bad" => IdleSlots # {})
    BY DEF MaySend
  <1>8. IdleSlots' = IdleSlots
    BY DEF IdleSlots
  <1>9. /\ "bad" # "new" /\ kind # "new"
    <2>1. Urls \subseteq {"ip", "name", "bad"}
      BY DEF WebclientAssumption
    <2> QED
      BY <2>1
  <1>10. /\ url' \in [Request -> Urls \cup {"new"}] /\ url'[r] = kind
         /\ \A q \in Request : q # r => url'[q] = url[q]
    BY <1>1
  <1>11. TInv'
    BY <1>4, <1>10 DEF IInv, TInv, Typed, ghosts
  <1>12. CallInv'
    BY <1>5, <1>7, <1>8, <1>10 DEF IInv, CallInv, ghosts
  <1>13. ~Waiting(r) /\ ~InSlot(r) /\ ~InCall(r) /\ answers[r] = 0 /\ started[r] = 0
    BY <1>1, <1>7 DEF PlaceInv, Place
  <1>14. WaitInv'
    <2>1. ASSUME NEW k \in 1..Len(pending)
          PROVE  pending[k].cb /\ url'[pending[k].req] # "bad"
      <3>1. pending[k].cb /\ url[pending[k].req] # "bad"
        BY <1>6 DEF IInv, WaitInv
      <3>2. pending[k].req \in Request
        BY WaiterFields DEF IInv
      <3>3. pending[k].req # r
        BY <3>1, <1>13 DEF Waiting
      <3> QED
        BY <3>1, <3>2, <3>3, <1>10
    <2> QED
      BY <2>1, <1>5 DEF WaitInv
  <1>15. FreeInv'
    <2>1. Called(stack') = Len(stack) /\ Len(stack) \in Nat
      BY <1>1, <1>2, CalledPush
    <2>2. stack = <<>> => Called(stack) = 0 /\ Len(stack) = 0
      BY EmptyLen DEF Called
    <2>3. stack # <<>> => Called(stack) = Len(stack)
      BY DEF Called
    <2> QED
      BY <2>1, <2>2, <2>3, <1>8 DEF IInv, FreeInv
  <1>16. IdleHoldsNothing'
    BY DEF IInv, IdleHoldsNothing
  <1>17. QueryInv'
    BY <1>6 DEF IInv, QueryInv
  <1>18. ASSUME NEW q \in Request PROVE Place(q)'
    <2>1. (InSlot(q)' <=> InSlot(q)) /\ (Waiting(q)' <=> Waiting(q))
      BY DEF InSlot, Waiting
    <2>2. answers'[q] = answers[q] /\ started'[q] = started[q]
      BY DEF ghosts
    <2>3. InCall(q)' <=> q = r
      BY <1>5 DEF InCall
    <2>4. CASE q = r
      <3>1. url'[q] # "new"
        BY <2>4, <1>9, <1>10
      <3> QED
        BY <2>1, <2>2, <2>3, <2>4, <3>1, <1>13 DEF Place
    <2>5. CASE q # r
      <3>1. ~InCall(q) /\ ~InCall(q)'
        BY <2>3, <2>5, <1>6 DEF InCall
      <3>2. Place(q) /\ url'[q] = url[q]
        BY <2>5, <1>1, <1>10 DEF PlaceInv
      <3> QED
        BY <2>1, <2>2, <3>1, <3>2, PlaceKept
    <2> QED
      BY <2>4, <2>5
  <1>19. PlaceInv'
    BY <1>18, <1>1 DEF PlaceInv
  <1> QED
    BY <1>4, <1>11, <1>12, <1>14, <1>15, <1>16, <1>17, <1>19 DEF IInv

LEMMA SendStep ==
    ASSUME WebclientAssumption, FrontFails = FALSE, IInv,
           NEW r \in Request, NEW kind \in Urls, Send(r, kind)
    PROVE  IInv'
  <1>1. /\ stack = <<>> /\ ~wild /\ MaySend(r, kind)
        /\ url' = [url EXCEPT ![r] = kind] /\ stack' = <<Enqueue(r)>>
        /\ UNCHANGED <<slots, tcp, pending, nextId, dns, due, ghosts>>
    BY DEF Send, AtTop
  <1>2. <<Enqueue(r)>> \o <<>> = <<Enqueue(r)>>
    OBVIOUS
  <1>3. stack' = <<Enqueue(r)>> \o stack
    BY <1>1, <1>2
  <1> QED
    BY <1>1, <1>3, SendsStep

LEMMA CallbackSendsStep ==
    ASSUME WebclientAssumption, FrontFails = FALSE, IInv, CallbackSends
    PROVE  IInv'
  <1>1. stack # <<>> /\ stack[1].op = "callback" /\ ~wild
    BY DEF CallbackSends, Running
  <1>2. PICK r \in Request, kind \in Urls :
            /\ MaySend(r, kind) /\ url' = [url EXCEPT ![r] = kind]
            /\ stack' = <<Enqueue(r)>> \o stack
    BY DEF CallbackSends
  <1>3. UNCHANGED <<slots, tcp, pending, nextId, dns, due, ghosts>>
    BY DEF CallbackSends
  <1> QED
    BY <1>1, <1>2, <1>3, SendsStep

LEMMA EnqueueStartsStep ==
    ASSUME WebclientAssumption, IInv, EnqueueStarts
    PROVE  IInv'
  <1> DEFINE t == Tail(stack)
             r == stack[1].req
             f == StartSlot(FirstIdle, r)
  <1>1. /\ stack # <<>> /\ stack[1].op = "enqueue" /\ IdleSlots # {} /\ ~wild
        /\ stack' = <<f>> \o t
        /\ UNCHANGED <<slots, tcp, pending, nextId, dns, due, url, ghosts>>
    BY DEF EnqueueStarts, Running, Calls
  <1>2. /\ t \in Seq(Frame) /\ Nested(t) /\ LiesOn(stack[1], t) /\ stack \in Seq(Frame)
    BY <1>1, StackFacts
  <1>3. At("enqueue") /\ r \in Request
    BY <1>1 DEF IInv, CallInv, At
  <1>4. FirstIdle \in IdleSlots /\ FirstIdle \in Slot
    BY <1>1, FirstIdleFacts, IdleCount
  <1>5. f \in Frame /\ f.op = "start" /\ f.req = r /\ f.slot = FirstIdle
    BY <1>3, <1>4, CallTypes DEF StartSlot
  <1>6. LiesOn(f, t)
    BY <1>1, <1>2, <1>5 DEF LiesOn, Under, Lasting
  <1> HIDE DEF f, t
  <1>7. /\ stack' \in Seq(Frame) /\ Nested(stack') /\ stack' # <<>>
        /\ stack'[1] = f /\ \A op : At(op)' <=> f.op = op
    BY <1>1, <1>2, <1>5, <1>6, Pushes
  <1>8. /\ ~At("enqueue")' /\ At("start")' /\ ~At("done")' /\ ~At("startFront")'
        /\ ~At("pop")' /\ ~At("finish")' /\ stack'[1].req = r
    BY <1>5, <1>7
  <1>9. /\ ~At("start") /\ ~At("done") /\ ~At("startFront")
        /\ ~At("pop") /\ ~At("finish")
    BY <1>1 DEF At
  <1>10. IdleSlots' = IdleSlots
    BY <1>1 DEF IdleSlots
  <1>11. CallInv'
    BY <1>1, <1>3, <1>4, <1>5, <1>7, <1>8, <1>10 DEF CallInv, ghosts
  <1>12. WaitInv'
    BY <1>1, <1>8, <1>9 DEF IInv, WaitInv
  <1>13. FreeInv'
    <2>1. Called(stack') = Len(t)
      BY <1>1, <1>2, <1>5, CalledPush
    <2>2. Called(stack) = Len(t)
      BY <1>1, <1>2, CalledBelow DEF IInv, t
    <2> QED
      BY <2>1, <2>2, <1>1, <1>10 DEF IInv, FreeInv
  <1>14. \A q \in Request : InCall(q)' <=> InCall(q)
    BY <1>3, <1>8 DEF InCall
  <1>15. ASSUME NEW q \in Request, InCall(q)' PROVE started[q] = 0
    <2>1. InCall(q) /\ ~At("done") /\ Place(q)
      BY <1>9, <1>14, <1>15 DEF IInv, PlaceInv
    <2> QED
      BY <2>1 DEF Place
  <1> QED
    BY <1>1, <1>7, <1>9, <1>11, <1>12, <1>13, <1>14, <1>15, OnlyStack

LEMMA CallbackReturnsStep ==
    ASSUME WebclientAssumption, IInv, CallbackReturns
    PROVE  IInv'
  <1> DEFINE t == Tail(stack)
  <1>1. /\ stack # <<>> /\ stack[1].op = "callback" /\ ~wild /\ stack' = <<>> \o t
        /\ UNCHANGED <<slots, tcp, pending, nextId, dns, due, url, ghosts>>
    BY DEF CallbackReturns, Running, Calls
  <1>2. /\ t \in Seq(Frame) /\ LiesOn(stack[1], t) /\ stack \in Seq(Frame)
    BY <1>1, StackFacts
  <1>3. stack' = t
    BY <1>1, <1>2, NoCall
  <1>4. /\ stack' \in Seq(Frame) /\ Nested(stack')
        /\ ~At("enqueue")' /\ ~At("start")' /\ ~At("startFront")'
        /\ ~At("done")' /\ ~At("finish")' /\ ~At("pop")' /\ \A r : ~InCall(r)'
    BY <1>1, <1>3, Returns
  <1>5. /\ ~At("enqueue") /\ ~At("start") /\ ~At("done") /\ ~At("startFront")
        /\ ~At("pop") /\ ~At("finish")
    BY <1>1 DEF At
  <1>6. CallInv'
    BY <1>1, <1>4 DEF CallInv, ghosts
  <1>7. WaitInv'
    BY <1>1, <1>4, <1>5 DEF IInv, WaitInv
  <1>8. IdleSlots' = IdleSlots
    BY <1>1 DEF IdleSlots
  <1>9. FreeInv'
    <2>1. Called(stack') = Called(stack)
      BY <1>1, <1>2, <1>3, CalledBelow DEF IInv
    <2> QED
      BY <2>1, <1>1, <1>8 DEF IInv, FreeInv
  <1>10. \A r \in Request : ~InCall(r)
    BY <1>5 DEF InCall
  <1> QED
    BY <1>1, <1>4, <1>5, <1>6, <1>7, <1>9, <1>10, OnlyStack

LEMMA NextReturnsStep ==
    ASSUME WebclientAssumption, IInv, NextReturns
    PROVE  IInv'
  <1> DEFINE t == Tail(stack)
  <1>1. /\ stack # <<>> /\ stack[1].op = "next" /\ ~wild /\ stack' = <<>> \o t
        /\ pending = <<>> \/ IdleSlots = {}
        /\ UNCHANGED <<slots, tcp, pending, nextId, dns, due, url, ghosts>>
    BY DEF NextReturns, Running, Calls
  <1>2. /\ t \in Seq(Frame) /\ LiesOn(stack[1], t) /\ stack \in Seq(Frame)
        /\ Len(t) \in Nat
    BY <1>1, StackFacts
  <1>3. stack' = t
    BY <1>1, <1>2, NoCall
  <1>4. /\ stack' \in Seq(Frame) /\ Nested(stack')
        /\ ~At("enqueue")' /\ ~At("start")' /\ ~At("startFront")'
        /\ ~At("done")' /\ ~At("finish")' /\ ~At("pop")' /\ \A r : ~InCall(r)'
    BY <1>1, <1>3, Returns
  <1>5. /\ ~At("enqueue") /\ ~At("start") /\ ~At("done") /\ ~At("startFront")
        /\ ~At("pop") /\ ~At("finish")
    BY <1>1 DEF At
  <1>6. CallInv'
    BY <1>1, <1>4 DEF CallInv, ghosts
  <1>7. WaitInv'
    BY <1>1, <1>4, <1>5 DEF IInv, WaitInv
  <1>8. IdleSlots' = IdleSlots
    BY <1>1 DEF IdleSlots
  <1>9. FreeInv'
    <2>1. Called(stack') = Len(t)
      BY <1>1, <1>2, <1>3, CalledBelow DEF IInv
    <2>2. pending # <<>> => Cardinality(IdleSlots) = 0
      BY <1>1, IdleCount
    <2> QED
      BY <2>1, <2>2, <1>1, <1>2, <1>8 DEF FreeInv
  <1>10. \A r \in Request : ~InCall(r)
    BY <1>5 DEF InCall
  <1> QED
    BY <1>1, <1>4, <1>5, <1>6, <1>7, <1>9, <1>10, OnlyStack

\* Two calls replace the innermost one.
LEMMA PushesTwo ==
    ASSUME NEW f \in Frame, NEW g \in Frame, NEW t \in Seq(Frame), Nested(t),
           LiesOn(g, t), g.op = Under(f.op), stack' = <<f, g>> \o t
    PROVE  /\ stack' \in Seq(Frame) /\ Nested(stack') /\ stack' # <<>> /\ stack'[1] = f
           /\ \A op : At(op)' <=> f.op = op
           /\ Called(stack') = IF f.op = "next" THEN Len(t) + 3
                               ELSE IF f.op \in {"done", "callback", "startFront"}
                                    THEN Len(t) + 2
                               ELSE Len(t) + 1
  <1> DEFINE s == <<g>> \o t
  <1>1. /\ s \in Seq(Frame) /\ s # <<>> /\ s[1] = g /\ Len(s) = Len(t) + 1
        /\ Len(t) \in Nat
    BY PushFacts
  <1>2. Nested(s)
    BY NestedPush
  <1>3. stack' = <<f>> \o s
    <2>1. <<f, g>> \o t = <<f>> \o (<<g>> \o t)
      <3>1. f \in Frame /\ g \in Frame /\ t \in Seq(Frame)
        OBVIOUS
      <3> QED
        BY ONLY <3>1, TwoCalls
    <2> QED
      BY <2>1, Zenon DEF s
  <1> HIDE DEF s
  <1>4. LiesOn(f, s)
    BY <1>1 DEF LiesOn
  <1>5. /\ stack' \in Seq(Frame) /\ Nested(stack') /\ stack' # <<>> /\ stack'[1] = f
        /\ \A op : At(op)' <=> f.op = op
    BY <1>1, <1>2, <1>3, <1>4, Pushes
  <1>6. Called(stack') = IF f.op = "next" THEN Len(s) + 2
                         ELSE IF f.op \in {"done", "callback", "startFront"}
                              THEN Len(s) + 1
                         ELSE Len(s)
    BY <1>1, <1>3, CalledPush
  <1> QED
    BY <1>1, <1>5, <1>6

LEMMA NextStartsStep ==
    ASSUME WebclientAssumption, IInv, NextStarts
    PROVE  IInv'
  <1> DEFINE t == Tail(stack)
             f == StartFront(FirstIdle)
             g == PopFront
  <1>1. /\ stack # <<>> /\ stack[1].op = "next" /\ ~wild
        /\ pending # <<>> /\ IdleSlots # {} /\ stack' = <<f, g>> \o t
        /\ UNCHANGED <<slots, tcp, pending, nextId, dns, due, url, ghosts>>
    BY DEF NextStarts, Running, Calls
  <1>2. /\ t \in Seq(Frame) /\ Nested(t) /\ LiesOn(stack[1], t) /\ stack \in Seq(Frame)
        /\ Len(t) \in Nat
    BY <1>1, StackFacts
  <1>3. FirstIdle \in IdleSlots /\ FirstIdle \in Slot
    BY <1>1, FirstIdleFacts, IdleCount
  <1>4. /\ f \in Frame /\ f.op = "startFront" /\ f.slot = FirstIdle
        /\ g \in Frame /\ g.op = "pop"
    BY <1>3, CallTypes DEF StartFront, PopFront
  <1>5. LiesOn(g, t) /\ g.op = Under(f.op)
    BY <1>1, <1>2, <1>4 DEF LiesOn, Under, Lasting
  <1> HIDE DEF f, g, t
  <1>6. /\ stack' \in Seq(Frame) /\ Nested(stack') /\ stack' # <<>> /\ stack'[1] = f
        /\ \A op : At(op)' <=> f.op = op
        /\ Called(stack') = IF f.op = "next" THEN Len(t) + 3
                            ELSE IF f.op \in {"done", "callback", "startFront"}
                                 THEN Len(t) + 2
                            ELSE Len(t) + 1
    BY <1>1, <1>2, <1>4, <1>5, PushesTwo
  <1>7. /\ ~At("enqueue")' /\ ~At("start")' /\ ~At("done")' /\ At("startFront")'
        /\ ~At("pop")' /\ ~At("finish")' /\ Called(stack') = Len(t) + 2
    BY <1>4, <1>6
  <1>8. /\ ~At("enqueue") /\ ~At("start") /\ ~At("done") /\ ~At("startFront")
        /\ ~At("pop") /\ ~At("finish")
    BY <1>1 DEF At
  <1>9. IdleSlots' = IdleSlots
    BY <1>1 DEF IdleSlots
  <1>10. CallInv'
    BY <1>1, <1>3, <1>4, <1>6, <1>7, <1>9 DEF CallInv, ghosts
  <1>11. WaitInv'
    BY <1>1, <1>7, <1>8 DEF IInv, WaitInv
  <1>12. FreeInv'
    <2>1. Called(stack) = Len(t) + 2
      BY <1>1, <1>2, CalledBelow DEF IInv, t
    <2> QED
      BY <2>1, <1>1, <1>7, <1>9 DEF IInv, FreeInv
  <1>13. \A q \in Request : ~InCall(q)' /\ ~InCall(q)
    BY <1>7, <1>8 DEF InCall
  <1> QED
    BY <1>1, <1>6, <1>8, <1>10, <1>11, <1>12, <1>13, OnlyStack

\* No slot is free: the request waits.
LEMMA EnqueueWaitsStep ==
    ASSUME WebclientAssumption, IInv, EnqueueWaits
    PROVE  IInv'
  <1> DEFINE t == Tail(stack)
             r == stack[1].req
             e == [req |-> r, cb |-> TRUE]
             n == Len(pending)
  <1>1. /\ stack # <<>> /\ stack[1].op = "enqueue" /\ ~wild /\ stack' = <<>> \o t
        /\ IdleSlots = {} /\ pending' = Append(pending, e)
        /\ UNCHANGED <<slots, tcp, nextId, dns, due, url, ghosts>>
    BY DEF EnqueueWaits, Running, Calls
  <1>2. /\ t \in Seq(Frame) /\ LiesOn(stack[1], t) /\ stack \in Seq(Frame)
        /\ Len(t) \in Nat
    BY <1>1, StackFacts
  <1>3. stack' = t
    BY <1>1, <1>2, NoCall
  <1>4. /\ stack' \in Seq(Frame) /\ Nested(stack')
        /\ ~At("enqueue")' /\ ~At("start")' /\ ~At("startFront")'
        /\ ~At("done")' /\ ~At("finish")' /\ ~At("pop")' /\ \A q : ~InCall(q)'
    BY <1>1, <1>3, Returns
  <1>5. /\ At("enqueue") /\ ~At("start") /\ ~At("done") /\ ~At("startFront")
        /\ ~At("pop") /\ ~At("finish")
    BY <1>1 DEF At
  <1>6. r \in Request /\ url[r] # "bad" /\ e \in Element /\ e.req = r /\ e.cb = TRUE
    BY <1>1, <1>5 DEF IInv, CallInv, Element
  <1>7. pending \in Seq(Element)
    BY DEF IInv, TInv, Typed
  <1> HIDE DEF e
  <1>8. /\ pending' \in Seq(Element) /\ Len(pending') = n + 1 /\ n \in Nat
        /\ pending'[n + 1] = e /\ \A k \in 1..n : pending'[k] = pending[k]
    BY <1>1, <1>6, <1>7, AppendFacts
  <1>9. TInv'
    BY <1>1, <1>4, <1>8 DEF IInv, TInv, Typed, ghosts
  <1>10. CallInv'
    BY <1>1, <1>4 DEF CallInv, ghosts
  <1>11. WaitInv'
    <2>1. ASSUME NEW k \in 1..(n + 1)
          PROVE  pending'[k].cb /\ url[pending'[k].req] # "bad"
      <3>1. CASE k = n + 1
        BY <3>1, <1>6, <1>8
      <3>2. CASE k # n + 1
        <4>1. k \in 1..n
          BY <3>2, <1>8
        <4> QED
          BY <4>1, <1>5, <1>8 DEF IInv, WaitInv
      <3> QED
        BY <3>1, <3>2
    <2> QED
      BY <2>1, <1>1, <1>4, <1>8 DEF WaitInv
  <1>12. FreeInv'
    <2>1. Called(stack') = Len(t)
      BY <1>1, <1>2, <1>3, CalledBelow DEF IInv
    <2>2. Cardinality(IdleSlots') = 0
      BY <1>1, IdleCount DEF IdleSlots
    <2> QED
      BY <2>1, <2>2, <1>2 DEF FreeInv
  <1>13. IdleHoldsNothing'
    BY <1>1 DEF IInv, IdleHoldsNothing
  <1>14. QueryInv'
    BY <1>1, <1>5 DEF IInv, QueryInv
  <1>15. PlaceInv
    BY DEF IInv
  <1>16. InCall(r) /\ ~InSlot(r) /\ ~Waiting(r) /\ Place(r) /\ started[r] = 0
    <2>1. InCall(r) /\ Place(r)
      BY <1>5, <1>6, <1>15 DEF InCall, PlaceInv
    <2> QED
      BY <2>1, <1>5 DEF Place
  <1>17. ASSUME NEW q \in Request PROVE Place(q)'
    <2>1. InSlot(q)' <=> InSlot(q)
      BY <1>1 DEF InSlot
    <2>2. Waiting(q)' <=> Waiting(q) \/ q = r
      <3>1. Waiting(q)' <=> \E k \in 1..(n + 1) : pending'[k].cb /\ pending'[k].req = q
        BY <1>8 DEF Waiting
      <3>2. ASSUME NEW k \in 1..(n + 1), pending'[k].cb, pending'[k].req = q
            PROVE  Waiting(q) \/ q = r
        <4>1. CASE k = n + 1
          BY <4>1, <3>2, <1>6, <1>8
        <4>2. CASE k # n + 1
          <5>1. k \in 1..n
            BY <4>2, <1>8
          <5> QED
            BY <5>1, <3>2, <1>8 DEF Waiting
        <4> QED
          BY <4>1, <4>2
      <3>3. ASSUME Waiting(q) PROVE \E k \in 1..(n + 1) : pending'[k].cb /\ pending'[k].req = q
        <4>1. PICK k \in 1..n : pending[k].cb /\ pending[k].req = q
          BY <3>3 DEF Waiting
        <4>2. k \in 1..(n + 1) /\ pending'[k] = pending[k]
          BY <1>8
        <4> QED
          BY <4>1, <4>2
      <3>4. ASSUME q = r PROVE \E k \in 1..(n + 1) : pending'[k].cb /\ pending'[k].req = q
        <4>1. n + 1 \in 1..(n + 1)
          BY <1>8
        <4> QED
          BY <4>1, <3>4, <1>6, <1>8
      <3> QED
        BY <3>1, <3>2, <3>3, <3>4
    <2>3. /\ url'[q] = url[q] /\ answers'[q] = answers[q] /\ started'[q] = started[q]
          /\ Place(q) /\ ~InCall(q)'
      BY <1>1, <1>4, <1>15 DEF ghosts, PlaceInv
    <2>4. CASE q = r
      BY <2>1, <2>2, <2>3, <2>4, <1>16 DEF Place
    <2>5. CASE q # r
      <3>1. ~InCall(q)
        BY <2>5 DEF InCall
      <3> QED
        BY <2>1, <2>2, <2>3, <2>5, <3>1, PlaceKept
    <2> QED
      BY <2>4, <2>5
  <1>18. ASSUME NEW k \in 1..(n + 1), NEW l \in 1..(n + 1),
                pending'[k].cb, pending'[l].cb, pending'[k].req = pending'[l].req
         PROVE  k = l
    <2>1. ASSUME NEW m \in 1..n PROVE pending'[m] = pending[m] /\ ~(pending[m].cb /\ pending[m].req = r)
      BY <1>8, <1>16 DEF Waiting
    <2>2. CASE k # n + 1 /\ l # n + 1
      <3>1. k \in 1..n /\ l \in 1..n
        BY <2>2, <1>8
      <3> QED
        BY <3>1, <2>1, <1>15, <1>18 DEF PlaceInv
    <2>3. CASE k = n + 1 /\ l # n + 1
      <3>1. l \in 1..n
        BY <2>3, <1>8
      <3> QED
        BY <3>1, <2>1, <2>3, <1>6, <1>8, <1>18
    <2>4. CASE k # n + 1 /\ l = n + 1
      <3>1. k \in 1..n
        BY <2>4, <1>8
      <3> QED
        BY <3>1, <2>1, <2>4, <1>6, <1>8, <1>18
    <2> QED
      BY <2>2, <2>3, <2>4
  <1>19. PlaceInv'
    BY <1>1, <1>8, <1>15, <1>17, <1>18 DEF PlaceInv
  <1> QED
    BY <1>4, <1>9, <1>10, <1>11, <1>12, <1>13, <1>14, <1>19 DEF IInv

-----------------------------------------------------------------------------
(* startSlot().                                                            *)

\* One slot changes.
LEMMA SlotChanges ==
    ASSUME WebclientAssumption, IInv, NEW i \in Slot, NEW new \in SlotData,
           slots' = [slots EXCEPT ![i] = new]
    PROVE  /\ slots' \in [Slot -> SlotData] /\ slots'[i] = new
           /\ \A j \in Slot : j # i => slots'[j] = slots[j]
           /\ new.state = "IDLE" =>
                 /\ IdleSlots' = IdleSlots \cup {i}
                 /\ i \in IdleSlots => Cardinality(IdleSlots') = Cardinality(IdleSlots)
                 /\ Cardinality(IdleSlots') <= Cardinality(IdleSlots) + 1
           /\ new.state # "IDLE" =>
                 /\ IdleSlots' = IdleSlots \ {i}
                 /\ i \in IdleSlots => Cardinality(IdleSlots') = Cardinality(IdleSlots) - 1
                 /\ i \notin IdleSlots => Cardinality(IdleSlots') = Cardinality(IdleSlots)
           /\ Cardinality(IdleSlots) \in Nat /\ Cardinality(IdleSlots') \in Nat
  <1>1. slots \in [Slot -> SlotData]
    BY DEF IInv, TInv, Typed
  <1>2. /\ slots' \in [Slot -> SlotData] /\ slots'[i] = new
        /\ \A j \in Slot : j # i => slots'[j] = slots[j]
    BY <1>1
  <1>3. IsFiniteSet(IdleSlots) /\ Cardinality(IdleSlots) \in Nat
    BY IdleCount
  <1>4. ASSUME new.state = "IDLE"
        PROVE  /\ IdleSlots' = IdleSlots \cup {i}
               /\ i \in IdleSlots => Cardinality(IdleSlots') = Cardinality(IdleSlots)
               /\ Cardinality(IdleSlots') <= Cardinality(IdleSlots) + 1
               /\ Cardinality(IdleSlots') \in Nat
    <2>1. IdleSlots' = IdleSlots \cup {i}
      BY <1>2, <1>4 DEF IdleSlots
    <2>2. Cardinality(IdleSlots \cup {i}) = IF i \in IdleSlots THEN Cardinality(IdleSlots)
                                            ELSE Cardinality(IdleSlots) + 1
      BY <1>3, FS_AddElement
    <2> QED
      BY <2>1, <2>2, <1>3
  <1>5. ASSUME new.state # "IDLE"
        PROVE  /\ IdleSlots' = IdleSlots \ {i}
               /\ i \in IdleSlots => Cardinality(IdleSlots') = Cardinality(IdleSlots) - 1
               /\ i \notin IdleSlots => Cardinality(IdleSlots') = Cardinality(IdleSlots)
               /\ Cardinality(IdleSlots') \in Nat
    <2>1. IdleSlots' = IdleSlots \ {i}
      BY <1>2, <1>5 DEF IdleSlots
    <2>2. /\ IsFiniteSet(IdleSlots \ {i})
          /\ Cardinality(IdleSlots \ {i}) = IF i \in IdleSlots THEN Cardinality(IdleSlots) - 1
                                            ELSE Cardinality(IdleSlots)
      BY <1>3, FS_RemoveElement
    <2>3. Cardinality(IdleSlots \ {i}) \in Nat
      BY <2>2, FS_CardinalityType
    <2> QED
      BY <2>1, <2>2, <2>3
  <1> QED
    BY <1>2, <1>3, <1>4, <1>5

\* One connection changes.
LEMMA TcpChanges ==
    ASSUME IInv, NEW i \in Slot, NEW new \in TcpData, tcp' = [tcp EXCEPT ![i] = new]
    PROVE  /\ tcp' \in [Slot -> TcpData] /\ tcp'[i] = new
           /\ \A j \in Slot : j # i => tcp'[j] = tcp[j]
  <1>1. tcp \in [Slot -> TcpData]
    BY DEF IInv, TInv, Typed
  <1> QED
    BY <1>1

LEMMA TwoInOne ==
    ASSUME NEW S, NEW f \in S, NEW g \in S
    PROVE  <<f>> \o <<g>> = <<f, g>>
  <1>1. <<g>> \in Seq(S) /\ Len(<<g>>) = 1 /\ <<g>>[1] = g
    OBVIOUS
  <1>2. ASSUME NEW t \in Seq(S), Len(t) = 1, t[1] = g
        PROVE  <<f>> \o t = <<f, g>>
    <2> DEFINE a == <<f>> \o t
               b == <<f, g>>
    <2>1. /\ a \in Seq(S) /\ Len(a) = Len(t) + 1 /\ a[1] = f
          /\ \A k \in 1..Len(t) : a[k + 1] = t[k]
      BY PushFacts
    <2>2. b \in Seq(S) /\ Len(b) = 2 /\ b[1] = f /\ b[2] = g
      OBVIOUS
    <2> HIDE DEF a, b
    <2>3. Len(a) = 2
      BY <2>1, <1>2
    <2>4. a[2] = g
      <3>1. 1 \in 1..Len(t) /\ 1 + 1 = 2
        BY <1>2
      <3> QED
        BY <3>1, <2>1, <1>2
    <2>5. ASSUME NEW i \in 1..Len(a) PROVE a[i] = b[i]
      <3>1. i = 1 \/ i = 2
        BY <2>3
      <3> QED
        BY <3>1, <2>1, <2>2, <2>4
    <2>6. a = b
      BY <2>1, <2>2, <2>3, <2>5, SameElements
    <2> QED
      BY <2>6 DEF a, b
  <1> QED
    BY <1>1, <1>2

\* The slot that startSlot() is called for is free and holds nothing, and its
\* request is held by nobody else.
LEMMA StartFacts ==
    ASSUME WebclientAssumption, FrontFails = FALSE, IInv, Starting
    PROVE  /\ stack # <<>> /\ ~wild /\ stack[1].slot \in Slot /\ stack[1].slot \in IdleSlots
           /\ slots[stack[1].slot].state = "IDLE" /\ slots[stack[1].slot].cb = FALSE
           /\ \A q \in dns : q.slot # stack[1].slot
           /\ Given.req \in Request /\ Given.cb = TRUE /\ Place(Given.req)
           /\ started[Given.req] = 0 /\ ~InSlot(Given.req)
           /\ \/ /\ At("start") /\ stack[1].op = "start" /\ Given.req = stack[1].req
                 /\ InCall(Given.req)
              \/ /\ At("startFront") /\ stack[1].op = "startFront" /\ pending # <<>>
                 /\ Given = pending[1] /\ Waiting(Given.req) /\ ~CanRefuse
                 /\ \A f : ~Fault(f)
  <1> DEFINE i == stack[1].slot
  <1>1. stack # <<>> /\ ~wild /\ (stack[1].op = "start" \/ stack[1].op = "startFront")
    BY DEF Starting, Running
  <1>2. At("start") \/ At("startFront")
    BY <1>1 DEF At
  <1>3. i \in IdleSlots
    BY <1>2 DEF IInv, CallInv
  <1>4. i \in Slot /\ slots[i].state = "IDLE"
    BY <1>3 DEF IdleSlots
  <1>5. slots[i].cb = FALSE
    <2>1. ~slots[i].cb /\ slots[i].cb \in BOOLEAN
      BY <1>4, SlotFields DEF IInv, IdleHoldsNothing
    <2> QED
      BY <2>1
  <1>6. \A q \in dns : q.slot # i
    <2>1. \A q \in dns : slots[q.slot].state = "RESOLVING"
      BY DEF IInv, QueryInv
    <2> QED
      BY <2>1, <1>4
  <1>7. CASE stack[1].op = "start"
    <2>1. At("start") /\ Given = [req |-> stack[1].req, cb |-> TRUE] /\ stack[1].req \in Request
      BY <1>1, <1>7 DEF At, Given, IInv, CallInv
    <2>2. Given.req = stack[1].req /\ Given.cb = TRUE
      BY <2>1
    <2>3. InCall(Given.req) /\ Place(Given.req) /\ ~At("done")
      BY <2>1, <2>2, <1>7 DEF InCall, At, IInv, PlaceInv
    <2>4. started[Given.req] = 0 /\ ~InSlot(Given.req)
      BY <2>3 DEF Place
    <2> QED
      BY <1>1, <1>3, <1>4, <1>5, <1>6, <1>7, <2>1, <2>2, <2>3, <2>4
  <1>8. CASE stack[1].op = "startFront"
    <2>1. At("startFront") /\ ~At("pop") /\ Given = pending[1] /\ pending # <<>>
      BY <1>1, <1>8 DEF At, Given, IInv, CallInv
    <2>2. 1 \in 1..Len(pending)
      <3>1. pending \in Seq(Element)
        BY DEF IInv, TInv, Typed
      <3> QED
        BY <3>1, <2>1
    <2>3. /\ pending[1].req \in Request /\ pending[1].cb \in BOOLEAN
          /\ pending[1].cb /\ url[pending[1].req] # "bad"
      BY <2>1, <2>2, WaiterFields DEF IInv, WaitInv
    <2>4. Given.req \in Request /\ Given.cb = TRUE /\ url[Given.req] # "bad"
      BY <2>1, <2>3
    <2>5. Waiting(Given.req) /\ Place(Given.req)
      BY <2>1, <2>2, <2>3 DEF Waiting, IInv, PlaceInv
    <2>6. started[Given.req] = 0 /\ ~InSlot(Given.req)
      BY <2>5 DEF Place
    <2>7. \A f : ~Fault(f)
      BY <1>8 DEF Fault, Running
    <2>8. ~CanRefuse
      BY <2>4, <2>7 DEF CanRefuse
    <2> QED
      BY <1>1, <1>3, <1>4, <1>5, <1>6, <1>8, <2>1, <2>4, <2>5, <2>6, <2>7, <2>8
  <1> QED
    BY <1>1, <1>7, <1>8

\* Nothing is taken: the slot stays free, and onDone is called.
LEMMA StartRefusedStep ==
    ASSUME WebclientAssumption, FrontFails = FALSE, IInv, StartRefused
    PROVE  IInv'
  <1> DEFINE i == stack[1].slot
             r == stack[1].req
             t == Tail(stack)
             f == OnDone(r, "failed")
             g == StartNext
  <1>1. /\ Starting /\ CanRefuse
        /\ slots' = [slots EXCEPT ![i] = EmptySlot] /\ tcp' = [tcp EXCEPT ![i] = NoTcp]
        /\ stack' = ((IF Given.cb THEN <<OnDone(Given.req, "failed")>> ELSE <<>>)
                         \o <<StartNext>>) \o t
        /\ UNCHANGED <<pending, nextId, dns, due, url, ghosts>>
    BY DEF StartRefused, Calls
  <1>2. /\ stack # <<>> /\ ~wild /\ i \in Slot /\ i \in IdleSlots
        /\ slots[i].state = "IDLE" /\ slots[i].cb = FALSE
        /\ \A q \in dns : q.slot # i
        /\ r \in Request /\ Given.req = r /\ Given.cb = TRUE /\ InCall(r)
        /\ At("start") /\ stack[1].op = "start"
    BY <1>1, StartFacts
  <1>4. /\ t \in Seq(Frame) /\ Nested(t) /\ LiesOn(stack[1], t) /\ stack \in Seq(Frame)
        /\ Len(t) \in Nat
    BY <1>2, StackFacts
  <1>5. /\ f \in Frame /\ f.op = "done" /\ f.req = r /\ g \in Frame /\ g.op = "next"
    <2>1. "failed" \in Results
      BY DEF Results
    <2> QED
      BY <2>1, <1>2, CallTypes DEF OnDone, StartNext
  <1>3. stack' = <<f, g>> \o t
    <2>1. stack' = (<<f>> \o <<g>>) \o t
      BY <1>1, <1>2
    <2> HIDE DEF f, g, t
    <2>2. <<f>> \o <<g>> = <<f, g>>
      BY <1>5, TwoInOne
    <2> QED
      BY <2>1, <2>2, Zenon
  <1>6. LiesOn(g, t) /\ g.op = Under(f.op)
    BY <1>2, <1>4, <1>5 DEF LiesOn, Under, Lasting
  <1>7. EmptySlot \in SlotData /\ EmptySlot.state = "IDLE" /\ EmptySlot.cb = FALSE /\ EmptySlot.bufs = FALSE
    BY DEF EmptySlot, SlotData
  <1>8. NoTcp \in TcpData /\ NoTcp.pcb = FALSE /\ NoTcp.rx = <<>>
    BY DEF NoTcp, TcpData
  <1> HIDE DEF f, g, t
  <1>9. /\ stack' \in Seq(Frame) /\ Nested(stack') /\ stack' # <<>> /\ stack'[1] = f
        /\ \A op : At(op)' <=> f.op = op
        /\ Called(stack') = IF f.op = "next" THEN Len(t) + 3
                            ELSE IF f.op \in {"done", "callback", "startFront"}
                                 THEN Len(t) + 2
                            ELSE Len(t) + 1
    BY <1>3, <1>4, <1>5, <1>6, PushesTwo
  <1>10. /\ ~At("enqueue")' /\ ~At("start")' /\ At("done")' /\ ~At("startFront")'
         /\ ~At("pop")' /\ ~At("finish")' /\ Called(stack') = Len(t) + 2
         /\ stack'[1].req = r
    BY <1>5, <1>9
  <1>11. /\ ~At("enqueue") /\ ~At("done") /\ ~At("startFront") /\ ~At("pop") /\ ~At("finish")
    BY <1>2 DEF At
  <1>12. /\ slots' \in [Slot -> SlotData] /\ slots'[i] = EmptySlot
         /\ \A j \in Slot : j # i => slots'[j] = slots[j]
         /\ Cardinality(IdleSlots') = Cardinality(IdleSlots)
    BY <1>1, <1>2, <1>7, SlotChanges
  <1>13. /\ tcp' \in [Slot -> TcpData] /\ tcp'[i] = NoTcp
         /\ \A j \in Slot : j # i => tcp'[j] = tcp[j]
    BY <1>1, <1>2, <1>8, TcpChanges
  <1>14. \A j \in Slot : slots'[j].cb => j # i /\ slots[j].cb /\ slots'[j] = slots[j]
    BY <1>7, <1>12
  <1>15. TInv'
    <2>1. Typed'
      BY <1>1, <1>9, <1>12, <1>13 DEF IInv, TInv, Typed, ghosts
    <2> QED
      BY <2>1, <1>14 DEF IInv, TInv
  <1>16. CallInv'
    BY <1>1, <1>2, <1>10 DEF CallInv, ghosts
  <1>17. WaitInv'
    BY <1>1, <1>10, <1>11 DEF IInv, WaitInv
  <1>18. FreeInv'
    <2>1. Called(stack) = Len(t)
      BY <1>2, <1>4, CalledBelow DEF IInv, t
    <2>2. Cardinality(IdleSlots) \in Nat
      BY IdleCount
    <2> QED
      BY <2>1, <2>2, <1>1, <1>4, <1>10, <1>12 DEF IInv, FreeInv
  <1>19. IdleHoldsNothing'
    BY <1>7, <1>8, <1>12, <1>13 DEF IInv, IdleHoldsNothing
  <1>20. QueryInv'
    <2>1. \A j \in Slot : slots'[j].state = "RESOLVING" => j # i /\ slots'[j] = slots[j]
      BY <1>7, <1>12
    <2>2. \A q \in dns : q.slot \in Slot /\ slots'[q.slot] = slots[q.slot]
      BY <1>2, <1>12 DEF IInv, TInv, Typed, Query
    <2> QED
      BY <2>1, <2>2, <1>1, <1>11 DEF IInv, QueryInv
  <1>21. PlaceInv
    BY DEF IInv
  <1>22. ASSUME NEW q \in Request PROVE Place(q)'
    <2>1. InSlot(q)' <=> InSlot(q)
      BY <1>2, <1>12, <1>14 DEF InSlot
    <2>2. Waiting(q)' <=> Waiting(q)
      BY <1>1 DEF Waiting
    <2>3. InCall(q)' <=> InCall(q)
      BY <1>2, <1>10 DEF InCall
    <2>4. /\ url'[q] = url[q] /\ answers'[q] = answers[q] /\ started'[q] = started[q]
          /\ Place(q)
      BY <1>1, <1>21 DEF ghosts, PlaceInv
    <2> QED
      BY <2>1, <2>2, <2>3, <2>4, <1>10, PlaceKept
  <1>23. PlaceInv'
    BY <1>1, <1>14, <1>21, <1>22 DEF PlaceInv
  <1> QED
    BY <1>9, <1>15, <1>16, <1>17, <1>18, <1>19, <1>20, <1>23 DEF IInv

\* The slot that takes the request over.
Taken(state, r, n, cb, ssl) ==
    [EmptySlot EXCEPT !.state = state, !.req = r, !.id = n, !.bufs = TRUE,
                      !.cb = cb, !.ssl = ssl]

LEMMA TakenSlot ==
    ASSUME WebclientAssumption, NEW r \in Request, NEW n \in Nat, NEW ssl \in Ssl,
           NEW state \in {"CONNECTING", "RESOLVING"}, NEW cb \in BOOLEAN
    PROVE  /\ Taken(state, r, n, cb, ssl) \in SlotData
           /\ Taken(state, r, n, cb, ssl).state = state
           /\ Taken(state, r, n, cb, ssl).req = r
           /\ Taken(state, r, n, cb, ssl).id = n
           /\ Taken(state, r, n, cb, ssl).cb = cb
  <1> DEFINE s1 == [EmptySlot EXCEPT !.state = state]
             s2 == [s1 EXCEPT !.req = r]
             s3 == [s2 EXCEPT !.id = n]
             s4 == [s3 EXCEPT !.bufs = TRUE]
             s5 == [s4 EXCEPT !.cb = cb]
             s6 == [s5 EXCEPT !.ssl = ssl]
  <1>1. ssl \in BOOLEAN
    BY DEF WebclientAssumption
  <1>2. EmptySlot \in SlotData
    BY DEF EmptySlot, SlotData
  <1>3. s1 \in SlotData /\ s1.state = state
    BY <1>2 DEF SlotData
  <1> HIDE DEF s1
  <1>4. s2 \in SlotData /\ s2.state = state /\ s2.req = r
    BY <1>3 DEF SlotData
  <1> HIDE DEF s2
  <1>5. s3 \in SlotData /\ s3.state = state /\ s3.req = r /\ s3.id = n
    BY <1>4 DEF SlotData
  <1> HIDE DEF s3
  <1>6. s4 \in SlotData /\ s4.state = state /\ s4.req = r /\ s4.id = n
    BY <1>5 DEF SlotData
  <1> HIDE DEF s4
  <1>7. /\ s5 \in SlotData /\ s5.state = state /\ s5.req = r /\ s5.id = n
        /\ s5.cb = cb
    BY <1>6 DEF SlotData
  <1> HIDE DEF s5
  <1>8. /\ s6 \in SlotData /\ s6.state = state /\ s6.req = r /\ s6.id = n
        /\ s6.cb = cb
    BY <1>1, <1>7 DEF SlotData
  <1>9. Taken(state, r, n, cb, ssl) = s6
    BY Zenon DEF Taken, s1, s2, s3, s4, s5
  <1> HIDE DEF s6
  <1> QED
    BY <1>8, <1>9

\* The front of the deque without its onDone.
Without(p) == [p EXCEPT ![1].cb = FALSE]

LEMMA FrontWithout ==
    ASSUME NEW p \in Seq(Element), p # <<>>
    PROVE  /\ Without(p) \in Seq(Element) /\ Without(p) # <<>>
           /\ Len(Without(p)) = Len(p) /\ 1 \in 1..Len(p)
           /\ Without(p)[1].cb = FALSE
           /\ \A k \in 1..Len(p) : k # 1 => Without(p)[k] = p[k]
  <1> DEFINE e  == [p[1] EXCEPT !.cb = FALSE]
             p2 == [p EXCEPT ![1] = e]
  <1>1. Len(p) \in Nat /\ 1 <= Len(p) /\ 1 \in 1..Len(p) /\ p[1] \in Element
    OBVIOUS
  <1>2. p \in [1..Len(p) -> Element]
    OBVIOUS
  <1>3. e \in Element /\ e.cb = FALSE
    BY <1>1 DEF Element
  <1>4. Without(p) = p2
    BY Zenon DEF Without
  <1> HIDE DEF e
  <1>5. /\ p2 \in [1..Len(p) -> Element] /\ p2[1] = e
        /\ \A k \in 1..Len(p) : k # 1 => p2[k] = p[k]
    BY <1>1, <1>2, <1>3
  <1> HIDE DEF p2
  <1>6. p2 \in Seq(Element) /\ Len(p2) = Len(p)
    BY <1>1, <1>5
  <1>7. p2 # <<>>
    BY <1>1, <1>6, EmptyLen
  <1> QED
    BY <1>1, <1>3, <1>4, <1>5, <1>6, <1>7

\* What becomes of the deque when the slot takes the request over.
LEMMA TakenPending ==
    ASSUME WebclientAssumption, FrontFails = FALSE, IInv, Starting,
           pending' = IF stack[1].op = "start" THEN pending ELSE Without(pending)
    PROVE  /\ pending' \in Seq(Element) /\ Len(pending') = Len(pending)
           /\ pending' # <<>> <=> pending # <<>>
           /\ stack[1].op # "start" => ~pending'[1].cb
           /\ \A k \in 1..Len(pending) :
                 stack[1].op = "start" \/ k # 1 => pending'[k] = pending[k]
           /\ \A q \in Request : Waiting(q)' <=> Waiting(q) /\ q # Given.req
  <1>1. pending \in Seq(Element)
    BY DEF IInv, TInv, Typed
  <1>2. CASE stack[1].op = "start"
    <2>1. pending' = pending
      BY <1>2
    <2>2. ~Waiting(Given.req)
      <3>1. Given.req \in Request /\ Place(Given.req) /\ InCall(Given.req)
        BY <1>2, StartFacts
      <3> QED
        BY <3>1 DEF Place
    <2>3. \A q \in Request : Waiting(q)' <=> Waiting(q)
      BY <2>1 DEF Waiting
    <2> QED
      BY <1>1, <1>2, <2>1, <2>2, <2>3
  <1>3. CASE stack[1].op # "start"
    <2>1. pending # <<>> /\ Given = pending[1] /\ Given.cb = TRUE
      BY <1>3, StartFacts
    <2>2. pending' = Without(pending)
      BY <1>3
    <2>3. /\ pending' \in Seq(Element) /\ pending' # <<>> /\ Len(pending') = Len(pending)
          /\ 1 \in 1..Len(pending) /\ pending'[1].cb = FALSE
          /\ \A k \in 1..Len(pending) : k # 1 => pending'[k] = pending[k]
      <3>1. /\ Without(pending) \in Seq(Element) /\ Without(pending) # <<>>
            /\ Len(Without(pending)) = Len(pending) /\ 1 \in 1..Len(pending)
            /\ Without(pending)[1].cb = FALSE
            /\ \A k \in 1..Len(pending) : k # 1 => Without(pending)[k] = pending[k]
        BY <1>1, <2>1, FrontWithout
      <3> QED
        BY <2>2, <3>1, Zenon
    <2>4. ASSUME NEW q \in Request PROVE Waiting(q)' <=> Waiting(q) /\ q # Given.req
      <3>1. ASSUME NEW k \in 1..Len(pending), pending'[k].cb, pending'[k].req = q
            PROVE  Waiting(q) /\ q # Given.req
        <4>1. k # 1 /\ pending[k].cb /\ pending[k].req = q
          BY <3>1, <2>3
        <4>2. pending[k].req # pending[1].req
          BY <4>1, <2>1, <2>3 DEF IInv, PlaceInv
        <4> QED
          BY <4>1, <4>2, <2>1 DEF Waiting
      <3>2. ASSUME NEW k \in 1..Len(pending), pending[k].cb, pending[k].req = q, q # Given.req
            PROVE  Waiting(q)'
        <4>1. k # 1
          BY <3>2, <2>1
        <4>2. pending'[k].cb /\ pending'[k].req = q /\ k \in 1..Len(pending')
          BY <4>1, <3>2, <2>3
        <4> QED
          BY <4>2 DEF Waiting
      <3>3. Waiting(q)' => Waiting(q) /\ q # Given.req
        BY <3>1, <2>3 DEF Waiting
      <3> QED
        BY <3>2, <3>3 DEF Waiting
    <2> QED
      BY <1>3, <2>1, <2>3, <2>4
  <1> QED
    BY <1>2, <1>3

\* A slot takes the request over; its start may then fail.
LEMMA TakeStep ==
    ASSUME WebclientAssumption, FrontFails = FALSE, IInv, Starting,
           NEW state \in {"CONNECTING", "RESOLVING"}, NEW ssl \in Ssl,
           Take(stack[1].slot, state, ssl),
           tcp' \in [Slot -> TcpData],
           \A j \in Slot : j # stack[1].slot => tcp'[j] = tcp[j],
           dns' \subseteq Query, QueryInv',
           \/ stack' = Tail(stack)
           \/ /\ stack[1].op = "start"
              /\ stack' = <<FinishSlot(stack[1].slot, "failed")>> \o Tail(stack)
              /\ dns' = dns
    PROVE  IInv'
  <1> DEFINE i == stack[1].slot
             r == Given.req
             t == Tail(stack)
             f == FinishSlot(i, "failed")
             new == Taken(state, r, nextId, Given.cb, ssl)
  <1>1. /\ slots' = [slots EXCEPT ![i] = new] /\ nextId' = nextId + 1
        /\ pending' = IF stack[1].op = "start" THEN pending ELSE Without(pending)
        /\ due' = due \ {i} /\ started' = [started EXCEPT ![r] = @ + 1]
        /\ url' = url /\ answers' = answers /\ wild' = wild
    BY DEF Take, Taken, Without
  <1>2. /\ stack # <<>> /\ ~wild /\ i \in Slot /\ i \in IdleSlots
        /\ slots[i].state = "IDLE" /\ slots[i].cb = FALSE /\ \A q \in dns : q.slot # i
        /\ r \in Request /\ Given.cb = TRUE /\ Place(r) /\ started[r] = 0 /\ ~InSlot(r)
        /\ \/ At("start") /\ stack[1].op = "start" /\ InCall(r)
           \/ At("startFront") /\ stack[1].op = "startFront" /\ Waiting(r)
    BY StartFacts
  <1>3. /\ t \in Seq(Frame) /\ Nested(t) /\ LiesOn(stack[1], t) /\ stack \in Seq(Frame)
        /\ Len(t) \in Nat
    BY <1>2, StackFacts
  <1>4. nextId \in Nat /\ due \subseteq Slot /\ started \in [Request -> Nat] /\ PlaceInv
    BY DEF IInv, TInv, Typed
  <1>5. /\ new \in SlotData /\ new.state = state /\ new.req = r /\ new.id = nextId
        /\ new.cb = TRUE
    <2>1. Given.cb \in BOOLEAN
      BY <1>2
    <2> QED
      BY <2>1, <1>2, <1>4, TakenSlot
  <1>6. f \in Frame /\ f.op = "finish" /\ f.slot = i
    <2>1. "failed" \in Results
      BY DEF Results
    <2> QED
      BY <2>1, <1>2, CallTypes DEF FinishSlot
  <1> HIDE DEF new, f, t, i
  <1>7. /\ stack' \in Seq(Frame) /\ Nested(stack')
        /\ ~At("enqueue")' /\ ~At("start")' /\ ~At("startFront")' /\ ~At("done")'
        /\ At("pop")' <=> stack[1].op = "startFront"
        /\ At("finish")' => stack'[1].slot = i /\ dns' = dns
        /\ Called(stack') = IF stack[1].op = "startFront" THEN Len(t) - 1 ELSE Len(t)
    <2>1. CASE stack' = t
      <3>1. /\ stack' \in Seq(Frame) /\ Nested(stack')
            /\ ~At("enqueue")' /\ ~At("start")' /\ ~At("startFront")' /\ ~At("done")'
            /\ ~At("finish")' /\ (At("pop")' <=> stack[1].op = "startFront")
        BY <2>1, <1>2, Returns DEF t
      <3>2. Called(stack') = IF stack[1].op = "startFront" THEN Len(t) - 1 ELSE Len(t)
        BY <2>1, <1>2, <1>3, CalledBelow DEF IInv, t
      <3> QED
        BY <3>1, <3>2
    <2>2. CASE stack[1].op = "start" /\ stack' = <<f>> \o t /\ dns' = dns
      <3>1. LiesOn(f, t)
        BY <2>2, <1>3, <1>6 DEF LiesOn, Under, Lasting
      <3>2. /\ stack' \in Seq(Frame) /\ Nested(stack') /\ stack'[1] = f
            /\ \A op : At(op)' <=> f.op = op
        BY <2>2, <3>1, <1>3, <1>6, Pushes
      <3>3. Called(stack') = Len(t)
        BY <2>2, <1>3, <1>6, CalledPush
      <3>4. /\ ~At("enqueue")' /\ ~At("start")' /\ ~At("startFront")' /\ ~At("done")'
            /\ ~At("pop")' /\ At("finish")'
        BY <3>2, <1>6
      <3> QED
        BY <2>2, <3>2, <3>3, <3>4, <1>6
    <2> QED
      BY <2>1, <2>2 DEF i, f, t
  <1>8. /\ slots' \in [Slot -> SlotData] /\ slots'[i] = new
        /\ \A j \in Slot : j # i => slots'[j] = slots[j]
        /\ Cardinality(IdleSlots') = Cardinality(IdleSlots) - 1
        /\ Cardinality(IdleSlots) \in Nat
    <2>1. new.state # "IDLE"
      BY <1>5
    <2> QED
      BY <2>1, <1>1, <1>2, <1>5, SlotChanges
  <1>9. /\ pending' \in Seq(Element) /\ Len(pending') = Len(pending)
        /\ pending' # <<>> <=> pending # <<>>
        /\ stack[1].op # "start" => ~pending'[1].cb
        /\ \A k \in 1..Len(pending) :
              stack[1].op = "start" \/ k # 1 => pending'[k] = pending[k]
        /\ \A q \in Request : Waiting(q)' <=> Waiting(q) /\ q # r
    BY <1>1, TakenPending
  <1>10. /\ started' \in [Request -> Nat] /\ started'[r] = 1
         /\ \A q \in Request : q # r => started'[q] = started[q]
    BY <1>1, <1>2, <1>4
  <1>11. TInv'
    <2>1. nextId' \in Nat \ {0} /\ due' \subseteq Slot
      BY <1>1, <1>4
    <2>2. Typed'
      BY <2>1, <1>1, <1>7, <1>8, <1>9, <1>10 DEF IInv, TInv, Typed
    <2>3. \A j \in Slot : slots'[j].cb => slots'[j].req \in Request
      BY <1>2, <1>5, <1>8 DEF IInv, TInv
    <2> QED
      BY <2>2, <2>3 DEF TInv
  <1>12. CallInv'
    <2>1. stack[1].op = "startFront" => pending # <<>>
      BY <1>2 DEF IInv, CallInv, At
    <2> QED
      BY <2>1, <1>1, <1>2, <1>7, <1>9 DEF CallInv
  <1>13. WaitInv'
    <2>1. ASSUME NEW k \in 1..Len(pending)
          PROVE  IF At("pop")' /\ k = 1 THEN ~pending'[k].cb
                 ELSE pending'[k].cb /\ url'[pending'[k].req] # "bad"
      <3>1. pending[k].cb /\ url[pending[k].req] # "bad"
        <4>1. ~At("pop")
          BY <1>2 DEF At
        <4> QED
          BY <4>1 DEF IInv, WaitInv
      <3>2. stack[1].op = "start" \/ stack[1].op = "startFront"
        BY <1>2
      <3> QED
        BY <3>1, <3>2, <1>1, <1>7, <1>9
    <2> QED
      BY <2>1, <1>9 DEF WaitInv
  <1>14. FreeInv'
    <2>1. Called(stack) = IF stack[1].op = "startFront" THEN Len(t) + 1 ELSE Len(t)
      BY <1>2, <1>3, CalledBelow DEF IInv, t
    <2>2. pending' # <<>> => 2 * Cardinality(IdleSlots) <= Called(stack)
      BY <1>9 DEF IInv, FreeInv
    <2> QED
      BY <2>1, <2>2, <1>3, <1>7, <1>8 DEF FreeInv
  <1>15. IdleHoldsNothing'
    <2>1. slots'[i].state # "IDLE"
      BY <1>5, <1>8
    <2>2. \A j \in Slot : j # i => slots'[j] = slots[j] /\ tcp'[j] = tcp[j]
      BY <1>8 DEF i
    <2> QED
      BY <2>1, <2>2 DEF IInv, IdleHoldsNothing
  <1>16. \A q \in Request : InSlot(q)' <=> InSlot(q) \/ q = r
    <2>1. ASSUME NEW q \in Request, NEW j \in Slot, slots'[j].cb, slots'[j].req = q
          PROVE  InSlot(q) \/ q = r
      <3>1. CASE j = i
        BY <3>1, <2>1, <1>5, <1>8
      <3>2. CASE j # i
        BY <3>2, <2>1, <1>8 DEF InSlot
      <3> QED
        BY <3>1, <3>2
    <2>2. ASSUME NEW q \in Request, NEW j \in Slot, slots[j].cb, slots[j].req = q
          PROVE  InSlot(q)'
      <3>1. j # i
        BY <2>2, <1>2
      <3> QED
        BY <3>1, <2>2, <1>8 DEF InSlot
    <2>3. ASSUME NEW q \in Request, q = r PROVE InSlot(q)'
      <3>1. slots'[i].cb /\ slots'[i].req = q
        BY <2>3, <1>5, <1>8
      <3> QED
        BY <3>1, <1>2 DEF InSlot
    <2>4. \A q \in Request : InSlot(q)' => InSlot(q) \/ q = r
      BY <2>1 DEF InSlot
    <2>5. \A q \in Request : InSlot(q) => InSlot(q)'
      BY <2>2 DEF InSlot
    <2> QED
      BY <2>3, <2>4, <2>5
  <1>17. ASSUME NEW q \in Request PROVE Place(q)'
    <2>1. ~InCall(q)'
      BY <1>7 DEF InCall
    <2>2. /\ InSlot(q)' <=> InSlot(q) \/ q = r
          /\ Waiting(q)' <=> Waiting(q) /\ q # r
      BY <1>9, <1>16
    <2>3. CASE q = r
      <3>1. url[q] # "new" /\ answers[q] = 0
        BY <2>3, <1>2 DEF Place
      <3> QED
        BY <2>1, <2>2, <2>3, <3>1, <1>1, <1>10 DEF Place
    <2>4. CASE q # r
      <3>1. ~InCall(q)
        <4>1. CASE At("start") /\ InCall(r)
          BY <4>1, <2>4 DEF InCall
        <4>2. CASE At("startFront")
          BY <4>2 DEF InCall, At
        <4> QED
          BY <4>1, <4>2, <1>2
      <3>2. /\ Place(q) /\ url'[q] = url[q] /\ answers'[q] = answers[q]
            /\ started'[q] = started[q]
        BY <2>4, <1>1, <1>4, <1>10 DEF PlaceInv
      <3> QED
        BY <2>1, <2>2, <2>4, <3>1, <3>2, PlaceKept
    <2> QED
      BY <2>3, <2>4
  <1>18. ASSUME NEW j \in Slot, NEW k \in Slot, slots'[j].cb, slots'[k].cb,
                slots'[j].req = slots'[k].req
         PROVE  j = k
    <2>1. \A l \in Slot : l # i => slots'[l] = slots[l] /\ ~(slots[l].cb /\ slots[l].req = r)
      BY <1>2, <1>8 DEF InSlot
    <2>2. slots'[i].req = r
      BY <1>5, <1>8
    <2>3. CASE j # i /\ k # i
      BY <2>1, <2>3, <1>4, <1>18 DEF PlaceInv
    <2>4. CASE j = i \/ k = i
      BY <2>1, <2>2, <2>4, <1>18
    <2> QED
      BY <2>3, <2>4
  <1>19. ASSUME NEW k \in 1..Len(pending), NEW l \in 1..Len(pending),
                pending'[k].cb, pending'[l].cb, pending'[k].req = pending'[l].req
         PROVE  k = l
    <2>1. \A m \in 1..Len(pending) : pending'[m].cb => pending'[m] = pending[m]
      BY <1>9
    <2> QED
      BY <2>1, <1>4, <1>19 DEF PlaceInv
  <1>20. PlaceInv'
    BY <1>9, <1>17, <1>18, <1>19 DEF PlaceInv
  <1> QED
    BY <1>7, <1>11, <1>12, <1>13, <1>14, <1>15, <1>20 DEF IInv

\* What TakeStep needs of the slots and of the queries.
LEMMA TakeFacts ==
    ASSUME WebclientAssumption, FrontFails = FALSE, IInv, Starting,
           NEW state \in {"CONNECTING", "RESOLVING"}, NEW ssl \in Ssl,
           Take(stack[1].slot, state, ssl)
    PROVE  /\ slots'[stack[1].slot].state = state /\ slots'[stack[1].slot].id = nextId
           /\ \A j \in Slot : j # stack[1].slot => slots'[j] = slots[j]
  <1>1. /\ stack[1].slot \in Slot /\ Given.req \in Request /\ Given.cb \in BOOLEAN
    <2>1. stack[1].slot \in Slot /\ Given.req \in Request /\ Given.cb = TRUE
      BY StartFacts
    <2> QED
      BY <2>1
  <1>2. nextId \in Nat
    BY DEF IInv, TInv, Typed
  <1>3. slots' = [slots EXCEPT ![stack[1].slot] =
                      Taken(state, Given.req, nextId, Given.cb, ssl)]
    BY DEF Take, Taken
  <1>4. /\ Taken(state, Given.req, nextId, Given.cb, ssl) \in SlotData
        /\ Taken(state, Given.req, nextId, Given.cb, ssl).state = state
        /\ Taken(state, Given.req, nextId, Given.cb, ssl).id = nextId
    BY <1>1, <1>2, TakenSlot
  <1>5. slots \in [Slot -> SlotData]
    BY DEF IInv, TInv, Typed
  <1> QED
    BY <1>1, <1>3, <1>4, <1>5

\* The connection of a slot that has just been connected.
LEMMA ConnectedTcp == [NoTcp EXCEPT !.pcb = TRUE] \in TcpData /\ NoTcp \in TcpData
  <1>1. NoTcp \in TcpData
    BY DEF NoTcp, TcpData
  <1>2. [NoTcp EXCEPT !.pcb = TRUE] \in TcpData
    BY <1>1 DEF TcpData
  <1> QED
    BY <1>1, <1>2

LEMMA StartConnectsStep ==
    ASSUME WebclientAssumption, FrontFails = FALSE, IInv, StartConnects
    PROVE  IInv'
  <1> DEFINE i == stack[1].slot
  <1>1. Starting /\ dns' = dns
    BY DEF StartConnects
  <1>2. PICK ssl \in Ssl : Take(i, "CONNECTING", ssl)
    BY DEF StartConnects
  <1>3. /\ i \in Slot /\ (\A q \in dns : q.slot # i) /\ stack # <<>>
        /\ \/ At("start") /\ stack[1].op = "start"
           \/ At("startFront") /\ \A f : ~Fault(f)
    BY <1>1, StartFacts
  <1>4. Tail(stack) \in Seq(Frame) /\ <<>> \o Tail(stack) = Tail(stack)
    BY <1>3, StackFacts, NoCall
  <1>5. /\ tcp' = [tcp EXCEPT ![i] = [NoTcp EXCEPT !.pcb = TRUE]] \/ tcp' = [tcp EXCEPT ![i] = NoTcp]
        /\ \/ stack' = Tail(stack)
           \/ stack[1].op = "start" /\ stack' = <<FinishSlot(i, "failed")>> \o Tail(stack)
    BY <1>3, <1>4 DEF StartConnects, Connects, Calls
  <1>6. tcp' \in [Slot -> TcpData] /\ \A j \in Slot : j # i => tcp'[j] = tcp[j]
    BY <1>3, <1>5, ConnectedTcp, TcpChanges
  <1>7. slots'[i].state = "CONNECTING" /\ \A j \in Slot : j # i => slots'[j] = slots[j]
    BY <1>1, <1>2, TakeFacts
  <1>8. dns \subseteq Query
    BY DEF IInv, TInv, Typed
  <1>9. QueryInv'
    <2>1. ~At("finish")
      BY <1>3 DEF At
    <2>2. \A q \in dns : q.slot \in Slot /\ slots'[q.slot] = slots[q.slot]
      BY <1>3, <1>7, <1>8 DEF Query
    <2>3. \A j \in Slot : slots'[j].state = "RESOLVING" => slots'[j] = slots[j]
      BY <1>7
    <2> QED
      BY <2>1, <2>2, <2>3, <1>1 DEF IInv, QueryInv
  <1> QED
    BY <1>1, <1>2, <1>5, <1>6, <1>8, <1>9, TakeStep

LEMMA StartResolvesStep ==
    ASSUME WebclientAssumption, FrontFails = FALSE, IInv, StartResolves
    PROVE  IInv'
  <1> DEFINE i == stack[1].slot
             new == [slot |-> i, id |-> nextId]
             f == FinishSlot(i, "failed")
  <1>1. Starting
    BY DEF StartResolves
  <1>2. PICK ssl \in Ssl : Take(i, "RESOLVING", ssl)
    BY DEF StartResolves
  <1>3. /\ i \in Slot /\ (\A q \in dns : q.slot # i) /\ stack # <<>>
        /\ \/ At("start") /\ stack[1].op = "start"
           \/ At("startFront") /\ \A g : ~Fault(g)
    BY <1>1, StartFacts
  <1>4. Tail(stack) \in Seq(Frame) /\ <<>> \o Tail(stack) = Tail(stack)
    BY <1>3, StackFacts, NoCall
  <1>5. /\ tcp' = [tcp EXCEPT ![i] = NoTcp]
        /\ \/ stack' = Tail(stack) /\ dns' = dns \cup {new}
           \/ /\ stack[1].op = "start" /\ dns' = dns
              /\ stack' = <<f>> \o Tail(stack)
    BY <1>3, <1>4 DEF StartResolves, Calls
  <1>6. tcp' \in [Slot -> TcpData] /\ \A j \in Slot : j # i => tcp'[j] = tcp[j]
    BY <1>3, <1>5, ConnectedTcp, TcpChanges
  <1>7. /\ slots'[i].state = "RESOLVING" /\ slots'[i].id = nextId
        /\ \A j \in Slot : j # i => slots'[j] = slots[j]
    BY <1>1, <1>2, TakeFacts
  <1>8. dns \subseteq Query /\ nextId \in Nat
    BY DEF IInv, TInv, Typed
  <1>9. new \in Query /\ new.slot = i /\ new.id = nextId
    BY <1>3, <1>8 DEF Query
  <1>10. dns' \subseteq Query
    BY <1>5, <1>8, <1>9
  <1>11. \A q \in dns' : slots'[q.slot].state = "RESOLVING" /\ slots'[q.slot].id = q.id
    <2>1. ASSUME NEW q \in dns
          PROVE  slots'[q.slot].state = "RESOLVING" /\ slots'[q.slot].id = q.id
      <3>1. q.slot \in Slot /\ slots'[q.slot] = slots[q.slot]
        BY <1>3, <1>7, <1>8 DEF Query
      <3> QED
        BY <3>1 DEF IInv, QueryInv
    <2>2. slots'[new.slot].state = "RESOLVING" /\ slots'[new.slot].id = new.id
      BY <1>7, <1>9
    <2> HIDE DEF new
    <2> QED
      BY <2>1, <2>2, <1>5
  <1>12. ASSUME NEW j \in Slot, slots'[j].state = "RESOLVING"
         PROVE  [slot |-> j, id |-> slots'[j].id] \in dns' \/ (At("finish")' /\ stack'[1].slot = j)
    <2>1. CASE j # i
      <3>1. slots'[j] = slots[j] /\ ~At("finish")
        BY <2>1, <1>3, <1>7 DEF At
      <3>2. [slot |-> j, id |-> slots[j].id] \in dns
        BY <3>1, <1>12 DEF IInv, QueryInv
      <3> QED
        BY <3>1, <3>2, <1>5
    <2>2. CASE j = i
      <3>1. CASE dns' = dns \cup {new}
        BY <3>1, <2>2, <1>7
      <3>2. CASE stack' = <<f>> \o Tail(stack)
        <4>1. f \in Frame /\ f.op = "finish" /\ f.slot = i
          <5>1. "failed" \in Results
            BY DEF Results
          <5> QED
            BY <5>1, <1>3, CallTypes DEF FinishSlot
        <4> HIDE DEF f
        <4>2. stack' # <<>> /\ stack'[1] = f
          BY <4>1, <3>2, <1>4, PushFacts
        <4> QED
          BY <4>1, <4>2, <2>2 DEF At
      <3> QED
        BY <3>1, <3>2, <1>5
    <2> QED
      BY <2>1, <2>2
  <1>13. QueryInv'
    BY <1>11, <1>12 DEF QueryInv
  <1> QED
    BY <1>1, <1>2, <1>5, <1>6, <1>10, <1>13, TakeStep

-----------------------------------------------------------------------------
(* onDone and pop_front().                                                 *)

LEMMA DoneStep ==
    ASSUME WebclientAssumption, IInv, Done
    PROVE  IInv'
  <1> DEFINE r == stack[1].req
             t == Tail(stack)
             f == Callback
  <1>1. /\ stack # <<>> /\ stack[1].op = "done" /\ ~wild /\ stack' = <<f>> \o t
        /\ answers' = [answers EXCEPT ![r] = @ + 1]
        /\ UNCHANGED <<slots, tcp, pending, nextId, dns, due, url, started, wild>>
    BY DEF Done, Running, Calls
  <1>2. /\ t \in Seq(Frame) /\ Nested(t) /\ LiesOn(stack[1], t) /\ stack \in Seq(Frame)
        /\ Len(t) \in Nat
    BY <1>1, StackFacts
  <1>3. f \in Frame /\ f.op = "callback"
    BY CallTypes DEF Callback
  <1>4. LiesOn(f, t)
    BY <1>1, <1>2, <1>3 DEF LiesOn, Under, Lasting
  <1> HIDE DEF f, t
  <1>5. /\ stack' \in Seq(Frame) /\ Nested(stack') /\ stack' # <<>> /\ stack'[1] = f
        /\ \A op : At(op)' <=> f.op = op
    BY <1>1, <1>2, <1>3, <1>4, Pushes
  <1>6. /\ ~At("enqueue")' /\ ~At("start")' /\ ~At("done")' /\ ~At("startFront")'
        /\ ~At("pop")' /\ ~At("finish")'
    BY <1>3, <1>5
  <1>7. /\ ~At("enqueue") /\ ~At("start") /\ At("done") /\ ~At("startFront")
        /\ ~At("pop") /\ ~At("finish")
    BY <1>1 DEF At
  <1>8. r \in Request
    BY <1>7 DEF IInv, CallInv
  <1>9. answers \in [Request -> Nat] /\ PlaceInv
    BY DEF IInv, TInv, Typed
  <1>10. /\ answers' \in [Request -> Nat] /\ answers'[r] = answers[r] + 1
         /\ \A q \in Request : q # r => answers'[q] = answers[q]
    BY <1>1, <1>8, <1>9
  <1>11. TInv'
    BY <1>1, <1>5, <1>10 DEF IInv, TInv, Typed
  <1>12. CallInv'
    BY <1>1, <1>6 DEF CallInv
  <1>13. WaitInv'
    BY <1>1, <1>6, <1>7 DEF IInv, WaitInv
  <1>14. FreeInv'
    <2>1. Called(stack') = Len(t) + 1
      BY <1>1, <1>2, <1>3, CalledPush
    <2>2. Called(stack) = Len(t) + 1
      BY <1>1, <1>2, CalledBelow DEF IInv, t
    <2>3. IdleSlots' = IdleSlots
      BY <1>1 DEF IdleSlots
    <2> QED
      BY <2>1, <2>2, <2>3, <1>1 DEF IInv, FreeInv
  <1>15. IdleHoldsNothing'
    BY <1>1 DEF IInv, IdleHoldsNothing
  <1>16. QueryInv'
    BY <1>1, <1>7 DEF IInv, QueryInv
  <1>17. ASSUME NEW q \in Request PROVE Place(q)'
    <2>1. (InSlot(q)' <=> InSlot(q)) /\ (Waiting(q)' <=> Waiting(q))
      BY <1>1 DEF InSlot, Waiting
    <2>2. /\ url'[q] = url[q] /\ started'[q] = started[q] /\ Place(q) /\ ~InCall(q)'
      BY <1>1, <1>6, <1>9 DEF PlaceInv, InCall
    <2>3. CASE q = r
      <3>1. InCall(q)
        BY <2>3, <1>7 DEF InCall
      <3>2. answers[q] = 0 /\ url[q] # "new" /\ ~InSlot(q) /\ ~Waiting(q)
        BY <2>2, <3>1 DEF Place
      <3>3. answers'[q] = 1
        BY <2>3, <3>2, <1>10
      <3> QED
        BY <2>1, <2>2, <3>2, <3>3 DEF Place
    <2>4. CASE q # r
      <3>1. ~InCall(q) /\ answers'[q] = answers[q]
        BY <2>4, <1>10 DEF InCall
      <3> QED
        BY <2>1, <2>2, <3>1, PlaceKept
    <2> QED
      BY <2>3, <2>4
  <1>18. PlaceInv'
    BY <1>1, <1>9, <1>17 DEF PlaceInv
  <1> QED
    BY <1>5, <1>11, <1>12, <1>13, <1>14, <1>15, <1>16, <1>18 DEF IInv

LEMMA PopStep ==
    ASSUME WebclientAssumption, IInv, Pop
    PROVE  IInv'
  <1> DEFINE t == Tail(stack)
             n == Len(pending)
  <1>1. /\ stack # <<>> /\ stack[1].op = "pop" /\ ~wild /\ stack' = <<>> \o t
        /\ pending' = IF pending = <<>> THEN <<>> ELSE Tail(pending)
        /\ wild' = (pending = <<>>)
        /\ UNCHANGED <<slots, tcp, nextId, dns, due, url, started, answers>>
    BY DEF Pop, Running, Calls
  <1>2. /\ t \in Seq(Frame) /\ LiesOn(stack[1], t) /\ stack \in Seq(Frame)
    BY <1>1, StackFacts
  <1>3. stack' = t
    BY <1>1, <1>2, NoCall
  <1>4. /\ stack' \in Seq(Frame) /\ Nested(stack')
        /\ ~At("enqueue")' /\ ~At("start")' /\ ~At("startFront")'
        /\ ~At("done")' /\ ~At("finish")' /\ ~At("pop")' /\ \A q : ~InCall(q)'
    BY <1>1, <1>3, Returns
  <1>5. /\ ~At("enqueue") /\ ~At("start") /\ ~At("done") /\ ~At("startFront")
        /\ At("pop") /\ ~At("finish")
    BY <1>1 DEF At
  <1>6. pending # <<>> /\ pending \in Seq(Element) /\ PlaceInv
    BY <1>5 DEF IInv, CallInv, TInv, Typed
  <1>7. pending' = Tail(pending) /\ wild' = FALSE
    BY <1>1, <1>6
  <1>8. /\ pending' \in Seq(Element) /\ n \in Nat \ {0} /\ Len(pending') = n - 1
        /\ \A k \in 1..(n - 1) : pending'[k] = pending[k + 1]
    BY <1>6, <1>7, TailFacts
  <1>9. /\ ~pending[1].cb
        /\ \A k \in 1..n : k # 1 => pending[k].cb /\ url[pending[k].req] # "bad"
    <2>1. 1 \in 1..n
      BY <1>8
    <2> QED
      BY <2>1, <1>5 DEF IInv, WaitInv
  <1>10. TInv'
    BY <1>1, <1>4, <1>7, <1>8 DEF IInv, TInv, Typed
  <1>11. CallInv'
    BY <1>4, <1>7 DEF CallInv
  <1>12. \A k \in 1..(n - 1) : k + 1 \in 1..n /\ k + 1 # 1
    BY <1>8
  <1>13. WaitInv'
    <2>1. ASSUME NEW k \in 1..(n - 1) PROVE pending'[k].cb /\ url[pending'[k].req] # "bad"
      BY <1>8, <1>9, <1>12
    <2> QED
      BY <2>1, <1>1, <1>4, <1>8 DEF WaitInv
  <1>14. FreeInv'
    <2>1. Called(stack') = Called(stack)
      BY <1>1, <1>2, <1>3, CalledBelow DEF IInv
    <2>2. IdleSlots' = IdleSlots
      BY <1>1 DEF IdleSlots
    <2> QED
      BY <2>1, <2>2, <1>6 DEF IInv, FreeInv
  <1>15. IdleHoldsNothing'
    BY <1>1 DEF IInv, IdleHoldsNothing
  <1>16. QueryInv'
    BY <1>1, <1>5 DEF IInv, QueryInv
  <1>17. ASSUME NEW q \in Request PROVE Waiting(q)' <=> Waiting(q)
    <2>1. ASSUME NEW k \in 1..n, pending[k].cb, pending[k].req = q PROVE Waiting(q)'
      <3>1. k - 1 \in 1..(n - 1) /\ (k - 1) + 1 = k
        <4>1. k # 1
          BY <2>1, <1>9
        <4> QED
          BY <4>1, <1>8
      <3>2. pending'[k - 1] = pending[k]
        BY <3>1, <1>8
      <3> QED
        BY <2>1, <3>1, <3>2, <1>8 DEF Waiting
    <2>2. ASSUME NEW k \in 1..(n - 1), pending'[k].cb, pending'[k].req = q PROVE Waiting(q)
      <3>1. k + 1 \in 1..n /\ pending'[k] = pending[k + 1]
        BY <1>8, <1>12
      <3> QED
        BY <2>2, <3>1 DEF Waiting
    <2>3. Waiting(q)' => Waiting(q)
      <3>1. Waiting(q)' <=> \E k \in 1..(n - 1) : pending'[k].cb /\ pending'[k].req = q
        BY <1>8 DEF Waiting
      <3> QED
        BY <3>1, <2>2
    <2> QED
      BY <2>1, <2>3 DEF Waiting
  <1>18. ASSUME NEW q \in Request PROVE Place(q)'
    <2>1. InSlot(q)' <=> InSlot(q)
      BY <1>1 DEF InSlot
    <2>2. ~InCall(q) /\ ~InCall(q)'
      BY <1>4, <1>5 DEF InCall
    <2>3. /\ url'[q] = url[q] /\ answers'[q] = answers[q] /\ started'[q] = started[q]
          /\ Place(q)
      BY <1>1, <1>6 DEF PlaceInv
    <2> QED
      BY <2>1, <2>2, <2>3, <1>17, PlaceKept
  <1>19. ASSUME NEW k \in 1..(n - 1), NEW l \in 1..(n - 1),
                pending'[k].cb, pending'[l].cb, pending'[k].req = pending'[l].req
         PROVE  k = l
    <2>1. /\ k + 1 \in 1..n /\ l + 1 \in 1..n
          /\ pending'[k] = pending[k + 1] /\ pending'[l] = pending[l + 1]
      BY <1>8, <1>12
    <2>2. k + 1 = l + 1
      BY <2>1, <1>6, <1>19 DEF PlaceInv
    <2> QED
      BY <2>2
  <1>20. PlaceInv'
    BY <1>1, <1>6, <1>8, <1>18, <1>19 DEF PlaceInv
  <1> QED
    BY <1>4, <1>10, <1>11, <1>13, <1>14, <1>15, <1>16, <1>20 DEF IInv

-----------------------------------------------------------------------------
(* finishSlot().                                                           *)

FreedSlot(s, i) == [s EXCEPT ![i].state = "IDLE", ![i].bufs = FALSE, ![i].cb = FALSE]
Closed(s, i)    == [s EXCEPT ![i].pcb = FALSE, ![i].rx = <<>>]

\* The slot is free again; the rest of what it held stays to be overwritten.
LEMMA FreedFacts ==
    ASSUME NEW s \in [Slot -> SlotData], NEW i \in Slot
    PROVE  /\ FreedSlot(s, i) \in [Slot -> SlotData]
           /\ FreedSlot(s, i)[i].state = "IDLE"
           /\ ~FreedSlot(s, i)[i].bufs /\ ~FreedSlot(s, i)[i].cb
           /\ \A j \in Slot : j # i => FreedSlot(s, i)[j] = s[j]
  <1> DEFINE e1 == [s[i] EXCEPT !.state = "IDLE"]
             s1 == [s EXCEPT ![i] = e1]
             e2 == [s1[i] EXCEPT !.bufs = FALSE]
             s2 == [s1 EXCEPT ![i] = e2]
             e3 == [s2[i] EXCEPT !.cb = FALSE]
             s3 == [s2 EXCEPT ![i] = e3]
  <1>1. FreedSlot(s, i) = s3
    BY Zenon DEF FreedSlot
  <1>2. e1 \in SlotData /\ e1.state = "IDLE"
    BY DEF SlotData
  <1> HIDE DEF e1
  <1>3. s1 \in [Slot -> SlotData] /\ s1[i] = e1 /\ \A j \in Slot : j # i => s1[j] = s[j]
    BY <1>2
  <1> HIDE DEF s1
  <1>4. e2 \in SlotData /\ e2.state = "IDLE"
    BY <1>2, <1>3 DEF SlotData
  <1>5. ~e2.bufs
    BY <1>2, <1>3 DEF SlotData
  <1> HIDE DEF e2
  <1>6. s2 \in [Slot -> SlotData] /\ s2[i] = e2 /\ \A j \in Slot : j # i => s2[j] = s[j]
    BY <1>3, <1>4
  <1> HIDE DEF s2
  <1>7. e3 \in SlotData /\ e3.state = "IDLE"
    BY <1>4, <1>6 DEF SlotData
  <1>8. ~e3.bufs
    BY <1>4, <1>5, <1>6 DEF SlotData
  <1>9. ~e3.cb
    BY <1>4, <1>6 DEF SlotData
  <1> HIDE DEF e3
  <1>10. s3 \in [Slot -> SlotData] /\ s3[i] = e3 /\ \A j \in Slot : j # i => s3[j] = s[j]
    BY <1>6, <1>7
  <1> HIDE DEF s3
  <1> QED
    BY <1>1, <1>7, <1>8, <1>9, <1>10

\* The pbuf chain of a connection.
LEMMA ChainFacts ==
    ASSUME NEW t \in TcpData, NEW rx \in Seq(Segments)
    PROVE  /\ [t EXCEPT !.rx = rx] \in TcpData /\ [t EXCEPT !.rx = rx].rx = rx
           /\ [t EXCEPT !.rx = rx].pcb <=> t.pcb
  <1>1. [t EXCEPT !.rx = rx] \in TcpData
    BY DEF TcpData
  <1>2. [t EXCEPT !.rx = rx].rx = rx
    BY DEF TcpData
  <1>3. [t EXCEPT !.rx = rx].pcb = t.pcb
    BY DEF TcpData
  <1> QED
    BY <1>1, <1>2, <1>3

LEMMA ClosedFacts ==
    ASSUME NEW s \in [Slot -> TcpData], NEW i \in Slot
    PROVE  /\ Closed(s, i) \in [Slot -> TcpData]
           /\ ~Closed(s, i)[i].pcb /\ Closed(s, i)[i].rx = <<>>
           /\ \A j \in Slot : j # i => Closed(s, i)[j] = s[j]
  <1> DEFINE e1 == [s[i] EXCEPT !.pcb = FALSE]
             s1 == [s EXCEPT ![i] = e1]
             e2 == [s1[i] EXCEPT !.rx = <<>>]
             s2 == [s1 EXCEPT ![i] = e2]
  <1>1. Closed(s, i) = s2
    BY Zenon DEF Closed
  <1>2. e1 \in TcpData
    BY DEF TcpData
  <1>3. ~e1.pcb
    BY DEF TcpData
  <1> HIDE DEF e1
  <1>4. s1 \in [Slot -> TcpData] /\ s1[i] = e1 /\ \A j \in Slot : j # i => s1[j] = s[j]
    BY <1>2
  <1> HIDE DEF s1
  <1>5. <<>> \in Seq(Segments) /\ s1[i] \in TcpData /\ ~s1[i].pcb
    BY <1>2, <1>3, <1>4
  <1>6. e2 \in TcpData /\ e2.rx = <<>> /\ ~e2.pcb
    BY <1>5, ChainFacts
  <1> HIDE DEF e2
  <1>7. s2 \in [Slot -> TcpData] /\ s2[i] = e2 /\ \A j \in Slot : j # i => s2[j] = s[j]
    BY <1>4, <1>6
  <1> HIDE DEF s2
  <1> QED
    BY <1>1, <1>6, <1>7

\* A function that differs at one argument.
LEMMA DiffersAt ==
    ASSUME NEW D, NEW R, NEW a \in [D -> R], NEW b \in [D -> R], NEW i \in D,
           \A j \in D : j # i => b[j] = a[j]
    PROVE  b = [a EXCEPT ![i] = b[i]]
  OBVIOUS

LEMMA FinishStep ==
    ASSUME WebclientAssumption, IInv, Finish
    PROVE  IInv'
  <1> DEFINE i == stack[1].slot
             r == slots[i].req
             t == Tail(stack)
             f == OnDone(r, stack[1].res)
             g == StartNext
  <1>1. /\ stack # <<>> /\ stack[1].op = "finish" /\ ~wild
        /\ slots' = FreedSlot(slots, i) /\ tcp' = Closed(tcp, i)
        /\ stack' = ((IF slots[i].cb THEN <<f>> ELSE <<>>) \o <<g>>) \o t
        /\ UNCHANGED <<pending, nextId, dns, due, url, ghosts>>
    BY DEF Finish, Running, Calls, FreedSlot, Closed
  <1>2. /\ t \in Seq(Frame) /\ Nested(t) /\ LiesOn(stack[1], t) /\ stack \in Seq(Frame)
        /\ Len(t) \in Nat /\ stack[1] \in Frame
    BY <1>1, StackFacts
  <1>3. i \in Slot /\ stack[1].res \in Results
    BY <1>1, <1>2 DEF Frame, AnyFrame
  <1>4. /\ ~At("enqueue") /\ ~At("start") /\ ~At("done") /\ ~At("startFront")
        /\ ~At("pop") /\ At("finish")
    BY <1>1 DEF At
  <1>5. \A q \in dns : q.slot # i
    BY <1>4 DEF IInv, CallInv
  <1>6. /\ slots \in [Slot -> SlotData] /\ tcp \in [Slot -> TcpData] /\ dns \subseteq Query
        /\ PlaceInv
    BY DEF IInv, TInv, Typed
  <1>7. g \in Frame /\ g.op = "next" /\ (slots[i].cb => f \in Frame /\ f.op = "done" /\ f.req = r)
    <2>1. slots[i].cb => r \in Request
      BY <1>3, SlotFields DEF IInv
    <2> QED
      BY <2>1, <1>3, CallTypes DEF OnDone, StartNext
  <1>8. LiesOn(g, t) /\ (slots[i].cb => g.op = Under(f.op))
    BY <1>1, <1>2, <1>7 DEF LiesOn, Under, Lasting
  <1>9. stack' = IF slots[i].cb THEN <<f, g>> \o t ELSE <<g>> \o t
    <2>1. CASE slots[i].cb
      <3>1. stack' = (<<f>> \o <<g>>) \o t
        BY <2>1, <1>1
      <3> HIDE DEF f, g, t
      <3>2. <<f>> \o <<g>> = <<f, g>>
        BY <2>1, <1>7, TwoInOne
      <3>3. stack' = <<f, g>> \o t
        BY <3>1, <3>2, Zenon
      <3> QED
        BY <2>1, <3>3
    <2>2. CASE ~slots[i].cb
      <3>1. stack' = (<<>> \o <<g>>) \o t
        BY <2>2, <1>1
      <3> HIDE DEF f, g, t
      <3>2. <<g>> \in Seq(Frame)
        BY <1>7
      <3>3. <<>> \o <<g>> = <<g>>
        BY <3>2, NoCall
      <3>4. stack' = <<g>> \o t
        BY <3>1, <3>3, Zenon
      <3> QED
        BY <2>2, <3>4
    <2> QED
      BY <2>1, <2>2
  <1> HIDE DEF f, g, t
  <1>10. /\ stack' \in Seq(Frame) /\ Nested(stack') /\ Called(stack') = Len(t) + 2
         /\ ~At("enqueue")' /\ ~At("start")' /\ ~At("startFront")'
         /\ ~At("pop")' /\ ~At("finish")'
         /\ IF slots[i].cb THEN At("done")' /\ stack'[1].req = r ELSE ~At("done")'
    <2>1. CASE slots[i].cb
      <3>1. /\ f \in Frame /\ f.op = "done" /\ f.req = r /\ g \in Frame
            /\ g.op = Under(f.op) /\ stack' = <<f, g>> \o t
        BY <2>1, <1>7, <1>8, <1>9
      <3>2. /\ stack' \in Seq(Frame) /\ Nested(stack') /\ stack' # <<>> /\ stack'[1] = f
            /\ \A op : At(op)' <=> f.op = op
            /\ Called(stack') = IF f.op = "next" THEN Len(t) + 3
                                ELSE IF f.op \in {"done", "callback", "startFront"}
                                     THEN Len(t) + 2
                                ELSE Len(t) + 1
        BY <3>1, <1>2, <1>8, PushesTwo
      <3>3. /\ ~At("enqueue")' /\ ~At("start")' /\ ~At("startFront")' /\ At("done")'
            /\ ~At("pop")' /\ ~At("finish")' /\ Called(stack') = Len(t) + 2
        BY <3>1, <3>2
      <3> QED
        BY <2>1, <3>1, <3>2, <3>3
    <2>2. CASE ~slots[i].cb
      <3>1. /\ g \in Frame /\ g.op = "next" /\ LiesOn(g, t) /\ stack' = <<g>> \o t
        BY <2>2, <1>7, <1>8, <1>9
      <3>2. /\ stack' \in Seq(Frame) /\ Nested(stack') /\ \A op : At(op)' <=> g.op = op
        BY <3>1, <1>2, Pushes
      <3>3. Called(stack') = Len(t) + 2
        BY <3>1, <1>2, CalledPush
      <3>4. /\ ~At("enqueue")' /\ ~At("start")' /\ ~At("startFront")' /\ ~At("done")'
            /\ ~At("pop")' /\ ~At("finish")'
        BY <3>1, <3>2
      <3> QED
        BY <2>2, <3>2, <3>3, <3>4
    <2> QED
      BY <2>1, <2>2
  <1>11. /\ slots' \in [Slot -> SlotData] /\ slots'[i].state = "IDLE"
         /\ ~slots'[i].bufs /\ ~slots'[i].cb
         /\ \A j \in Slot : j # i => slots'[j] = slots[j]
    BY <1>1, <1>3, <1>6, FreedFacts
  <1>12. /\ tcp' \in [Slot -> TcpData] /\ ~tcp'[i].pcb /\ tcp'[i].rx = <<>>
         /\ \A j \in Slot : j # i => tcp'[j] = tcp[j]
    BY <1>1, <1>3, <1>6, ClosedFacts
  <1> HIDE DEF i
  <1>13. /\ Cardinality(IdleSlots') <= Cardinality(IdleSlots) + 1
         /\ Cardinality(IdleSlots) \in Nat /\ Cardinality(IdleSlots') \in Nat
    <2> DEFINE new == slots'[i]
    <2>1. slots' = [slots EXCEPT ![i] = new]
      BY <1>3, <1>6, <1>11, DiffersAt
    <2>2. new \in SlotData /\ new.state = "IDLE"
      BY <1>3, <1>11
    <2> HIDE DEF new
    <2> QED
      BY <2>1, <2>2, <1>3, SlotChanges
  <1>14. TInv'
    <2>1. Typed'
      BY <1>1, <1>10, <1>11, <1>12 DEF IInv, TInv, Typed, ghosts
    <2>2. \A j \in Slot : slots'[j].cb => slots'[j].req \in Request
      BY <1>11 DEF IInv, TInv
    <2> QED
      BY <2>1, <2>2 DEF TInv
  <1>15. CallInv'
    <2>1. slots[i].cb => r \in Request
      BY <1>3, SlotFields DEF IInv
    <2> QED
      BY <2>1, <1>1, <1>10 DEF CallInv, ghosts
  <1>16. WaitInv'
    BY <1>1, <1>4, <1>10 DEF IInv, WaitInv
  <1>17. FreeInv'
    <2>1. Called(stack) = Len(t)
      BY <1>1, <1>2, CalledBelow DEF IInv, t
    <2>2. pending' # <<>> => 2 * Cardinality(IdleSlots) <= Len(t)
      BY <2>1, <1>1 DEF IInv, FreeInv
    <2>3. Called(stack') = Len(t) + 2 /\ Len(t) \in Nat
      BY <1>2, <1>10
    <2> QED
      BY <2>2, <2>3, <1>13 DEF FreeInv
  <1>18. IdleHoldsNothing'
    BY <1>11, <1>12 DEF IInv, IdleHoldsNothing
  <1>19. QueryInv'
    <2>1. \A j \in Slot : slots'[j].state = "RESOLVING" => j # i /\ slots'[j] = slots[j]
      BY <1>11
    <2>2. \A q \in dns : q.slot \in Slot /\ slots'[q.slot] = slots[q.slot]
      BY <1>5, <1>6, <1>11 DEF Query
    <2> QED
      BY <2>1, <2>2, <1>1 DEF IInv, QueryInv, i
  <1>20. ASSUME NEW q \in Request
         PROVE  InSlot(q)' <=> InSlot(q) /\ ~(slots[i].cb /\ q = r)
    <2>1. ASSUME NEW j \in Slot, slots'[j].cb, slots'[j].req = q
          PROVE  InSlot(q) /\ ~(slots[i].cb /\ q = r)
      <3>1. j # i /\ slots[j].cb /\ slots[j].req = q
        BY <2>1, <1>11
      <3> QED
        BY <3>1, <1>3, <1>6 DEF InSlot, PlaceInv
    <2>2. ASSUME NEW j \in Slot, slots[j].cb, slots[j].req = q, ~(slots[i].cb /\ q = r)
          PROVE  InSlot(q)'
      <3>1. j # i
        BY <2>2
      <3> QED
        BY <2>2, <3>1, <1>11 DEF InSlot
    <2> QED
      BY <2>1, <2>2 DEF InSlot
  <1>21. ASSUME NEW q \in Request PROVE Place(q)'
    <2>1. (Waiting(q)' <=> Waiting(q)) /\ ~InCall(q)
      BY <1>1, <1>4 DEF Waiting, InCall
    <2>2. InCall(q)' <=> slots[i].cb /\ q = r
      BY <1>10 DEF InCall
    <2>3. /\ url'[q] = url[q] /\ answers'[q] = answers[q] /\ started'[q] = started[q]
          /\ Place(q)
      BY <1>1, <1>6 DEF ghosts, PlaceInv
    <2>4. slots[i].cb /\ q = r => InSlot(q)
      BY <1>3 DEF InSlot
    <2>5. InCall(q)' => At("done")'
      BY <1>10 DEF InCall
    <2> QED
      BY <2>1, <2>2, <2>3, <2>4, <2>5, <1>20 DEF Place
  <1>22. \A j \in Slot : slots'[j].cb => slots[j].cb /\ slots'[j] = slots[j]
    BY <1>11
  <1>23. PlaceInv'
    BY <1>1, <1>6, <1>21, <1>22 DEF PlaceInv
  <1> QED
    BY <1>10, <1>14, <1>15, <1>16, <1>17, <1>18, <1>19, <1>23 DEF IInv

-----------------------------------------------------------------------------
(* loop() and lwIP: between calls.                                         *)

States == {"RESOLVING", "CONNECTING", "SSL_HANDSHAKE", "SENDING_HDR", "SENDING_BODY",
           "HEADERS", "BODY"}

\* A busy slot goes on, or finishSlot() is called for it.
EndsOrGoesOn(i) == stack' = <<>> \/ \E res \in Results : stack' = <<FinishSlot(i, res)>>

\* A step between calls that leaves all slots but one alone, and that one
\* busy with the request it has.
LEMMA LoopStep ==
    ASSUME WebclientAssumption, IInv, AtTop, NEW i \in Slot,
           slots' \in [Slot -> SlotData], tcp' \in [Slot -> TcpData],
           slots[i].state # "IDLE", slots'[i].state # "IDLE",
           slots'[i].cb <=> slots[i].cb, slots'[i].req = slots[i].req,
           \A j \in Slot : j # i => slots'[j] = slots[j] /\ tcp'[j] = tcp[j],
           UNCHANGED <<pending, nextId, url, ghosts>>,
           dns' \subseteq dns, due' \subseteq Slot, EndsOrGoesOn(i), QueryInv',
           stack' = <<>> \/ \A q \in dns' : q.slot # i
    PROVE  IInv'
  <1>1. stack = <<>> /\ ~wild
    BY DEF AtTop
  <1>2. /\ ~At("enqueue") /\ ~At("start") /\ ~At("done") /\ ~At("startFront")
        /\ ~At("pop") /\ ~At("finish")
    BY <1>1 DEF At
  <1>3. /\ stack' \in Seq(Frame) /\ Nested(stack') /\ Called(stack') = 0
        /\ ~At("enqueue")' /\ ~At("start")' /\ ~At("startFront")' /\ ~At("done")'
        /\ ~At("pop")'
        /\ At("finish")' => stack' # <<>> /\ stack'[1].slot = i
    <2>1. CASE stack' = <<>>
      <3>1. Len(stack') = 0 /\ stack' \in Seq(Frame)
        BY <2>1
      <3>2. Nested(stack')
        BY <3>1 DEF Nested
      <3> QED
        BY <2>1, <3>1, <3>2 DEF Called, At
    <2>2. ASSUME NEW res \in Results, stack' = <<FinishSlot(i, res)>>
          PROVE  /\ stack' \in Seq(Frame) /\ Nested(stack') /\ Called(stack') = 0
                 /\ ~At("enqueue")' /\ ~At("start")' /\ ~At("startFront")' /\ ~At("done")'
                 /\ ~At("pop")'
                 /\ At("finish")' => stack' # <<>> /\ stack'[1].slot = i
      <3> DEFINE f == FinishSlot(i, res)
      <3>1. f \in Frame /\ f.op = "finish" /\ f.slot = i
        BY CallTypes DEF FinishSlot
      <3> HIDE DEF f
      <3>2. /\ stack' \in Seq(Frame) /\ Len(stack') = 1 /\ stack'[1] = f /\ stack' # <<>>
        BY <2>2, <3>1 DEF f
      <3>3. Nested(stack')
        BY <3>1, <3>2 DEF Nested, Lasting
      <3>4. Called(stack') = 0
        BY <3>1, <3>2 DEF Called
      <3> QED
        BY <3>1, <3>2, <3>3, <3>4 DEF At
    <2> QED
      BY <2>1, <2>2 DEF EndsOrGoesOn
  <1>4. /\ slots \in [Slot -> SlotData] /\ dns \subseteq Query /\ PlaceInv
    BY DEF IInv, TInv, Typed
  <1>5. \A j \in Slot : slots'[j].state = "IDLE" <=> slots[j].state = "IDLE"
    OBVIOUS
  <1>6. IdleSlots' = IdleSlots
    BY <1>5 DEF IdleSlots
  <1>7. \A j \in Slot : (slots'[j].cb <=> slots[j].cb) /\ slots'[j].req = slots[j].req
    OBVIOUS
  <1>8. TInv'
    <2>1. Typed'
      BY <1>3, <1>4 DEF IInv, TInv, Typed, ghosts
    <2>2. \A j \in Slot : slots'[j].cb => slots'[j].req \in Request
      BY <1>7 DEF IInv, TInv
    <2> QED
      BY <2>1, <2>2 DEF TInv
  <1>9. CallInv'
    <2>1. At("finish")' => \A q \in dns' : q.slot # stack'[1].slot
      BY <1>3
    <2> QED
      BY <2>1, <1>1, <1>3 DEF CallInv, ghosts
  <1>10. WaitInv'
    BY <1>2, <1>3 DEF IInv, WaitInv
  <1>11. FreeInv'
    <2>1. Called(stack) = 0
      BY <1>1 DEF Called
    <2> QED
      BY <2>1, <1>3, <1>6 DEF IInv, FreeInv
  <1>12. IdleHoldsNothing'
    BY DEF IInv, IdleHoldsNothing
  <1>13. ASSUME NEW q \in Request PROVE Place(q)'
    <2>1. (InSlot(q)' <=> InSlot(q)) /\ (Waiting(q)' <=> Waiting(q))
      BY <1>7 DEF InSlot, Waiting
    <2>2. ~InCall(q)' /\ ~InCall(q)
      BY <1>2, <1>3 DEF InCall
    <2>3. /\ url'[q] = url[q] /\ answers'[q] = answers[q] /\ started'[q] = started[q]
          /\ Place(q)
      BY <1>4 DEF ghosts, PlaceInv
    <2> QED
      BY <2>1, <2>2, <2>3, PlaceKept
  <1>14. PlaceInv'
    BY <1>4, <1>7, <1>13 DEF PlaceInv
  <1> QED
    BY <1>3, <1>8, <1>9, <1>10, <1>11, <1>12, <1>14 DEF IInv

\* The slot ends or stays as it is; only its connection changes.
LEMMA ConnectionStep ==
    ASSUME WebclientAssumption, IInv, AtTop, NEW i \in Slot, slots[i].state # "IDLE",
           tcp' \in [Slot -> TcpData], \A j \in Slot : j # i => tcp'[j] = tcp[j],
           UNCHANGED <<slots, pending, nextId, dns, url, ghosts>>, due' \subseteq Slot,
           EndsOrGoesOn(i), stack' = <<>> \/ slots[i].state # "RESOLVING"
    PROVE  IInv'
  <1>1. slots \in [Slot -> SlotData] /\ dns \subseteq Query
    BY DEF IInv, TInv, Typed
  <1>2. slots' \in [Slot -> SlotData] /\ dns' \subseteq dns
    BY <1>1
  <1>3. QueryInv'
    <2>1. ~At("finish")
      BY DEF AtTop, At
    <2> QED
      BY <2>1 DEF IInv, QueryInv
  <1>4. stack' = <<>> \/ \A q \in dns' : q.slot # i
    BY DEF IInv, QueryInv
  <1> QED
    BY <1>2, <1>3, <1>4, LoopStep

\* The slot's state changes.
LEMMA StateFacts ==
    ASSUME IInv, NEW i \in Slot, NEW state \in States,
           slots' = [slots EXCEPT ![i].state = state]
    PROVE  /\ slots' \in [Slot -> SlotData] /\ slots'[i].state = state
           /\ slots'[i].cb <=> slots[i].cb
           /\ slots'[i].req = slots[i].req /\ slots'[i].id = slots[i].id
           /\ \A j \in Slot : j # i => slots'[j] = slots[j]
  <1> DEFINE new == [slots[i] EXCEPT !.state = state]
  <1>1. slots \in [Slot -> SlotData]
    BY DEF IInv, TInv, Typed
  <1>2. new \in SlotData /\ new.state = state
    BY <1>1 DEF SlotData, States
  <1>3. new.cb = slots[i].cb
    BY <1>1 DEF SlotData
  <1>4. new.req = slots[i].req /\ new.id = slots[i].id
    BY <1>1 DEF SlotData
  <1>5. slots' = [slots EXCEPT ![i] = new]
    OBVIOUS
  <1> HIDE DEF new
  <1>6. slots' \in [Slot -> SlotData] /\ slots'[i] = new /\ \A j \in Slot : j # i => slots'[j] = slots[j]
    BY <1>1, <1>2, <1>5
  <1> QED
    BY <1>2, <1>3, <1>4, <1>6

\* A slot that is not RESOLVING goes on in another state.
LEMMA SlotStep ==
    ASSUME WebclientAssumption, IInv, AtTop, NEW i \in Slot,
           slots[i].state \notin {"IDLE", "RESOLVING"},
           slots' \in [Slot -> SlotData], slots'[i].state \notin {"IDLE", "RESOLVING"},
           slots'[i].cb <=> slots[i].cb, slots'[i].req = slots[i].req,
           \A j \in Slot : j # i => slots'[j] = slots[j],
           tcp' \in [Slot -> TcpData], \A j \in Slot : j # i => tcp'[j] = tcp[j],
           UNCHANGED <<pending, nextId, dns, due, stack, url, ghosts>>
    PROVE  IInv'
  <1>1. /\ dns \subseteq Query /\ due \subseteq Slot /\ stack = <<>>
        /\ \A q \in dns : slots[q.slot].state = "RESOLVING"
    BY DEF IInv, TInv, Typed, QueryInv, AtTop
  <1>2. \A q \in dns : q.slot # i /\ slots'[q.slot] = slots[q.slot]
    BY <1>1 DEF Query
  <1>3. ~At("finish")
    BY <1>1 DEF At
  <1>4. \A j \in Slot : slots'[j].state = "RESOLVING" => slots'[j] = slots[j]
    OBVIOUS
  <1>5. QueryInv'
    BY <1>2, <1>3, <1>4 DEF IInv, QueryInv
  <1>6. EndsOrGoesOn(i) /\ dns' \subseteq dns /\ due' \subseteq Slot
    BY <1>1 DEF EndsOrGoesOn
  <1> QED
    BY <1>1, <1>5, <1>6, LoopStep

\* The slot may take what has come in.
TakesIn(i) == tcp' = tcp \/ (tcp[i].rx # <<>> /\ Reads(i))

LEMMA TakesInFacts ==
    ASSUME IInv, NEW i \in Slot, TakesIn(i)
    PROVE  tcp' \in [Slot -> TcpData] /\ \A j \in Slot : j # i => tcp'[j] = tcp[j]
  <1>1. tcp \in [Slot -> TcpData]
    BY DEF IInv, TInv, Typed
  <1>2. CASE tcp[i].rx # <<>> /\ Reads(i)
    <2> DEFINE rx == Tail(tcp[i].rx)
               new == [tcp[i] EXCEPT !.rx = rx]
    <2>1. tcp[i] \in TcpData /\ tcp[i].rx \in Seq(Segments)
      BY <1>1 DEF TcpData
    <2>2. rx \in Seq(Segments)
      BY <2>1, <1>2, TailFacts
    <2>3. tcp' = [tcp EXCEPT ![i] = new]
      BY <1>2 DEF Reads
    <2> HIDE DEF rx
    <2>4. new \in TcpData
      BY <2>1, <2>2, ChainFacts
    <2> HIDE DEF new
    <2> QED
      BY <1>1, <2>3, <2>4
  <1> QED
    BY <1>1, <1>2 DEF TakesIn

LEMMA GoesStep ==
    ASSUME WebclientAssumption, IInv, AtTop, NEW i \in Slot,
           slots[i].state \notin {"IDLE", "RESOLVING"}, TakesIn(i),
           NEW state \in States \ {"RESOLVING"}, Goes(i, state)
    PROVE  IInv'
  <1>1. state \in States /\ state \notin {"IDLE", "RESOLVING"}
    BY DEF States
  <1>2. slots' = [slots EXCEPT ![i].state = state]
    BY DEF Goes
  <1>3. /\ slots' \in [Slot -> SlotData] /\ slots'[i].state = state
        /\ slots'[i].cb <=> slots[i].cb
        /\ slots'[i].req = slots[i].req
        /\ \A j \in Slot : j # i => slots'[j] = slots[j]
    BY <1>1, <1>2, StateFacts
  <1>4. tcp' \in [Slot -> TcpData] /\ \A j \in Slot : j # i => tcp'[j] = tcp[j]
    BY TakesInFacts
  <1>5. UNCHANGED <<pending, nextId, dns, due, stack, url, ghosts>>
    BY DEF Goes
  <1> QED
    BY <1>1, <1>3, <1>4, <1>5, SlotStep

LEMMA EndsStep ==
    ASSUME WebclientAssumption, IInv, AtTop, NEW i \in Slot,
           slots[i].state \notin {"IDLE", "RESOLVING"}, TakesIn(i),
           NEW res \in Results, Ends(i, res)
    PROVE  IInv'
  <1>1. tcp' \in [Slot -> TcpData] /\ \A j \in Slot : j # i => tcp'[j] = tcp[j]
    BY TakesInFacts
  <1>2. EndsOrGoesOn(i) /\ UNCHANGED <<slots, pending, nextId, dns, due, url, ghosts>>
    BY DEF Ends, EndsOrGoesOn
  <1>3. due' \subseteq Slot
    BY <1>2 DEF IInv, TInv, Typed
  <1> QED
    BY <1>1, <1>2, <1>3, ConnectionStep

\* The headers have ended and the body begins.
LEMMA BodyStep ==
    ASSUME WebclientAssumption, IInv, AtTop, NEW i \in Slot,
           slots[i].state \notin {"IDLE", "RESOLVING"}, TakesIn(i),
           NEW framing \in {"length", "close"},
           slots' = [slots EXCEPT ![i].state = "BODY", ![i].framing = framing],
           UNCHANGED <<pending, nextId, dns, due, stack, url, ghosts>>
    PROVE  IInv'
  <1> DEFINE e1 == [slots[i] EXCEPT !.state = "BODY"]
             s1 == [slots EXCEPT ![i] = e1]
             e2 == [s1[i] EXCEPT !.framing = framing]
  <1>1. slots \in [Slot -> SlotData]
    BY DEF IInv, TInv, Typed
  <1>2. e1 \in SlotData /\ e1.state = "BODY" /\ e1.req = slots[i].req
    BY <1>1 DEF SlotData
  <1>3. e1.cb = slots[i].cb
    BY <1>1 DEF SlotData
  <1>4. slots' = [s1 EXCEPT ![i] = e2]
    BY Zenon
  <1> HIDE DEF e1
  <1>5. s1 \in [Slot -> SlotData] /\ s1[i] = e1 /\ \A j \in Slot : j # i => s1[j] = slots[j]
    BY <1>1, <1>2
  <1> HIDE DEF s1
  <1>6. e2 \in SlotData /\ e2.state = "BODY" /\ e2.req = slots[i].req
    BY <1>2, <1>5 DEF SlotData
  <1>7. e2.cb = slots[i].cb
    BY <1>2, <1>3, <1>5 DEF SlotData
  <1> HIDE DEF e2
  <1>8. /\ slots' \in [Slot -> SlotData] /\ slots'[i] = e2
        /\ \A j \in Slot : j # i => slots'[j] = slots[j]
    BY <1>4, <1>5, <1>6
  <1>9. /\ slots'[i].state \notin {"IDLE", "RESOLVING"}
        /\ slots'[i].req = slots[i].req /\ (slots'[i].cb <=> slots[i].cb)
    BY <1>6, <1>7, <1>8
  <1>10. tcp' \in [Slot -> TcpData] /\ \A j \in Slot : j # i => tcp'[j] = tcp[j]
    BY TakesInFacts
  <1> QED
    BY <1>8, <1>9, <1>10, SlotStep

\* processSlot() leaves the slot busy or calls finishSlot().
LEMMA ProcessSlotOutcome ==
    ASSUME NEW i \in Slot, ProcessSlot(i)
    PROVE  /\ AtTop /\ slots[i].state \notin {"IDLE", "RESOLVING"} /\ TakesIn(i)
           /\ \/ \E state \in States \ {"RESOLVING"} : Goes(i, state)
              \/ \E res \in Results : Ends(i, res)
              \/ \E framing \in {"length", "close"} :
                    /\ slots' = [slots EXCEPT ![i].state = "BODY", ![i].framing = framing]
                    /\ UNCHANGED <<pending, nextId, dns, due, online, stack, url, ghosts>>
  <1>1. /\ "failed" \in Results /\ "truncated" \in Results /\ "complete" \in Results
        /\ "SSL_HANDSHAKE" \in States \ {"RESOLVING"}
        /\ "SENDING_HDR" \in States \ {"RESOLVING"}
        /\ "SENDING_BODY" \in States \ {"RESOLVING"}
        /\ "HEADERS" \in States \ {"RESOLVING"} /\ "BODY" \in States \ {"RESOLVING"}
    BY DEF Results, States
  <1>2. ASSUME NEW seg, tcp[i].rx = <<seg>>, Reads(i) PROVE TakesIn(i)
    BY <1>2 DEF TakesIn
  <1>3. ASSUME tcp' = tcp PROVE TakesIn(i)
    BY <1>3 DEF TakesIn
  <1>4. CASE Timeout(i)
    <2>1. (IF slots[i].state = "BODY" THEN "truncated" ELSE "failed") \in Results
      BY <1>1
    <2> QED
      BY <2>1, <1>3, <1>4 DEF Timeout
  <1>5. CASE ProcessConnecting(i)
    BY <1>1, <1>3, <1>5 DEF ProcessConnecting, InState
  <1>6. CASE ProcessHandshake(i)
    BY <1>1, <1>3, <1>6 DEF ProcessHandshake, InState
  <1>7. CASE ProcessSending(i)
    BY <1>1, <1>3, <1>7 DEF ProcessSending, InState, Sends
  <1>8. CASE ProcessHeaders(i)
    <2>1. AtTop /\ slots[i].state = "HEADERS"
      BY <1>8 DEF ProcessHeaders, InState
    <2>2. CASE SslEnded(i)
      BY <2>1, <2>2, <1>1, <1>3 DEF SslEnded
    <2>3. CASE tcp[i].rx = <<"part">> /\ Reads(i) /\ Goes(i, "HEADERS")
      BY <2>1, <2>3, <1>1, <1>2
    <2>4. CASE tcp[i].rx = <<"bad">> /\ Reads(i) /\ Ends(i, "failed")
      BY <2>1, <2>4, <1>1, <1>2
    <2>5. CASE tcp[i].rx = <<"nobody">> /\ Reads(i) /\ Ends(i, "complete")
      BY <2>1, <2>5, <1>1, <1>2
    <2>6. CASE /\ tcp[i].rx \in {<<"length">>, <<"close">>} /\ Reads(i)
               /\ slots' = [slots EXCEPT ![i].state = "BODY", ![i].framing = tcp[i].rx[1]]
               /\ UNCHANGED <<pending, nextId, dns, due, online, stack, url, ghosts>>
      <3>1. <<"length">>[1] = "length" /\ <<"close">>[1] = "close"
        OBVIOUS
      <3>2. tcp[i].rx[1] \in {"length", "close"}
        BY <2>6, <3>1
      <3>3. TakesIn(i)
        BY <2>6, <1>2
      <3> QED
        BY <2>1, <2>6, <3>2, <3>3
    <2>7. CASE /\ ~Connected(tcp[i]) /\ tcp[i].rx = <<>>
               /\ Ends(i, "failed") /\ UNCHANGED tcp
      BY <2>1, <2>7, <1>1, <1>3
    <2> QED
      BY <2>2, <2>3, <2>4, <2>5, <2>6, <2>7, <1>8 DEF ProcessHeaders
  <1>9. CASE ProcessBody(i)
    <2>1. AtTop /\ slots[i].state = "BODY"
      BY <1>9 DEF ProcessBody, InState
    <2>2. ASSUME Dropped(i) PROVE \E res \in Results : Ends(i, res)
      <3>1. (IF slots[i].framing = "close" THEN "complete" ELSE "truncated") \in Results
        BY <1>1
      <3> QED
        BY <3>1, <2>2 DEF Dropped
    <2>3. CASE SslEnded(i)
      BY <2>1, <2>3, <1>1, <1>3 DEF SslEnded
    <2>4. CASE /\ tcp[i].rx = <<"data">> /\ Reads(i)
               /\ IF Connected(tcp'[i]) THEN Goes(i, "BODY") ELSE Dropped(i)
      BY <2>1, <2>2, <2>4, <1>1, <1>2
    <2>5. CASE tcp[i].rx = <<"last">> /\ Reads(i) /\ Ends(i, "complete")
      BY <2>1, <2>5, <1>1, <1>2
    <2>6. CASE tcp[i].rx = <<"over">> /\ Reads(i) /\ Ends(i, "truncated")
      BY <2>1, <2>6, <1>1, <1>2
    <2>7. CASE ~Connected(tcp[i]) /\ tcp[i].rx = <<>> /\ Dropped(i) /\ UNCHANGED tcp
      BY <2>1, <2>2, <2>7, <1>3
    <2> QED
      BY <2>3, <2>4, <2>5, <2>6, <2>7, <1>9 DEF ProcessBody
  <1> QED
    BY <1>4, <1>5, <1>6, <1>7, <1>8, <1>9 DEF ProcessSlot

LEMMA ProcessSlotStep ==
    ASSUME WebclientAssumption, IInv, NEW i \in Slot, ProcessSlot(i)
    PROVE  IInv'
  BY ProcessSlotOutcome, GoesStep, EndsStep, BodyStep

\* A slot with a connection is busy.
LEMMA NetworkFacts ==
    ASSUME IInv, NEW i \in Slot, Network(i)
    PROVE  /\ AtTop /\ stack = <<>> /\ slots[i].state # "IDLE"
           /\ tcp \in [Slot -> TcpData] /\ tcp[i] \in TcpData
  BY DEF IInv, TInv, Typed, IdleHoldsNothing, Network, AtTop

LEMMA LwipStep ==
    ASSUME WebclientAssumption, IInv, NEW i \in Slot, Lwip(i)
    PROVE  IInv'
  <1>1. Network(i) /\ Quiet
    BY DEF Lwip, LwipConnected, LwipErr, LwipClosed, LwipRecv
  <1>2. /\ AtTop /\ stack = <<>> /\ slots[i].state # "IDLE"
        /\ tcp \in [Slot -> TcpData] /\ tcp[i] \in TcpData
    BY <1>1, NetworkFacts
  <1>3. \E new \in TcpData : tcp' = [tcp EXCEPT ![i] = new]
    <2>1. CASE LwipConnected(i)
      <3>1. [tcp[i] EXCEPT !.est = TRUE] \in TcpData
        BY <1>2 DEF TcpData
      <3> QED
        BY <2>1, <3>1 DEF LwipConnected
    <2>2. CASE LwipErr(i)
      <3> DEFINE e1 == [tcp[i] EXCEPT !.pcb = FALSE]
                 s1 == [tcp EXCEPT ![i] = e1]
                 e2 == [s1[i] EXCEPT !.err = TRUE]
      <3>1. e1 \in TcpData
        BY <1>2 DEF TcpData
      <3>2. tcp' = [s1 EXCEPT ![i] = e2]
        BY <2>2, Zenon DEF LwipErr
      <3> HIDE DEF e1
      <3>3. s1[i] = e1 /\ s1 \in [Slot -> TcpData]
        BY <3>1, <1>2
      <3> HIDE DEF s1
      <3>4. e2 \in TcpData
        BY <3>1, <3>3 DEF TcpData
      <3> HIDE DEF e2
      <3>5. tcp' = [tcp EXCEPT ![i] = e2]
        BY <3>2, <3>4, <1>2 DEF s1
      <3> QED
        BY <3>4, <3>5
    <2>3. CASE LwipClosed(i)
      <3>1. [tcp[i] EXCEPT !.pcb = FALSE] \in TcpData
        BY <1>2 DEF TcpData
      <3> QED
        BY <2>3, <3>1 DEF LwipClosed
    <2>4. ASSUME NEW seg \in Segments, LwipRecv(i, seg)
          PROVE  \E new \in TcpData : tcp' = [tcp EXCEPT ![i] = new]
      <3>1. <<seg>> \in Seq(Segments)
        OBVIOUS
      <3>2. [tcp[i] EXCEPT !.rx = <<seg>>] \in TcpData
        BY <3>1, <1>2 DEF TcpData
      <3> QED
        BY <2>4, <3>2 DEF LwipRecv
    <2> QED
      BY <2>1, <2>2, <2>3, <2>4 DEF Lwip
  <1>4. tcp' \in [Slot -> TcpData] /\ \A j \in Slot : j # i => tcp'[j] = tcp[j]
    BY <1>3, TcpChanges
  <1>5. UNCHANGED <<slots, pending, nextId, dns, due, stack, url, ghosts>>
    BY <1>1 DEF Quiet
  <1>6. EndsOrGoesOn(i) /\ stack' = <<>>
    BY <1>2, <1>5 DEF EndsOrGoesOn
  <1>7. due' \subseteq Slot
    BY <1>5 DEF IInv, TInv, Typed
  <1> QED
    BY <1>2, <1>4, <1>5, <1>6, <1>7, ConnectionStep

LEMMA TimeElapsesStep ==
    ASSUME WebclientAssumption, IInv, NEW i \in Slot, TimeElapses(i)
    PROVE  IInv'
  <1>1. /\ AtTop /\ stack = <<>> /\ slots[i].state # "IDLE" /\ due' = due \cup {i}
        /\ UNCHANGED <<slots, tcp, pending, nextId, dns, stack, url, ghosts>>
    BY DEF TimeElapses, AtTop
  <1>2. tcp' \in [Slot -> TcpData] /\ due' \subseteq Slot
    BY <1>1 DEF IInv, TInv, Typed
  <1>3. EndsOrGoesOn(i) /\ stack' = <<>> /\ \A j \in Slot : j # i => tcp'[j] = tcp[j]
    BY <1>1 DEF EndsOrGoesOn
  <1> QED
    BY <1>1, <1>2, <1>3, ConnectionStep

\* The answer of a DNS query reaches the slot that asked for it.
LEMMA DnsAnsweredStep ==
    ASSUME WebclientAssumption, IInv, NEW q \in dns, DnsAnswered(q)
    PROVE  IInv'
  <1> DEFINE i == q.slot
  <1>1. /\ AtTop /\ stack = <<>> /\ slots[i].state = "RESOLVING" /\ dns' = dns \ {q}
        /\ slots[i].id = q.id
        /\ UNCHANGED <<pending, nextId, due, url, ghosts>>
    BY DEF DnsAnswered, AtTop
  <1>2. /\ dns \subseteq Query /\ due' \subseteq Slot /\ i \in Slot
        /\ slots \in [Slot -> SlotData] /\ tcp \in [Slot -> TcpData]
    BY <1>1 DEF IInv, TInv, Typed, Query
  <1>3. ASSUME NEW p \in dns, p # q PROVE p.slot # i
    <2>1. slots[p.slot].id = p.id
      BY DEF IInv, QueryInv
    <2>2. p.slot = i => p.id = q.id
      BY <2>1, <1>1
    <2>3. p = [slot |-> p.slot, id |-> p.id] /\ q = [slot |-> q.slot, id |-> q.id]
      BY <1>2 DEF Query
    <2> QED
      BY <2>2, <2>3, <1>3
  <1>4. ~At("finish")
    BY <1>1 DEF At
  <1>5. ASSUME NEW j \in Slot, j # i, slots[j].state = "RESOLVING"
        PROVE  [slot |-> j, id |-> slots[j].id] \in dns'
    <2>1. [slot |-> j, id |-> slots[j].id] \in dns
      BY <1>4, <1>5 DEF IInv, QueryInv
    <2>2. [slot |-> j, id |-> slots[j].id].slot # q.slot
      BY <1>5
    <2> QED
      BY <2>1, <2>2, <1>1
  <1>6. CASE Connects(i) /\ slots' = [slots EXCEPT ![i].state = "CONNECTING"] /\ UNCHANGED stack
    <2>1. "CONNECTING" \in States
      BY DEF States
    <2>2. /\ slots' \in [Slot -> SlotData] /\ slots'[i].state = "CONNECTING"
          /\ slots'[i].cb <=> slots[i].cb
          /\ slots'[i].req = slots[i].req
          /\ \A j \in Slot : j # i => slots'[j] = slots[j]
      BY <2>1, <1>2, <1>6, StateFacts
    <2>3. tcp' \in [Slot -> TcpData] /\ \A j \in Slot : j # i => tcp'[j] = tcp[j]
      <3>1. tcp' = [tcp EXCEPT ![i] = [NoTcp EXCEPT !.pcb = TRUE]]
        BY <1>6 DEF Connects
      <3> QED
        BY <3>1, <1>2, ConnectedTcp, TcpChanges
    <2>4. \A p \in dns' : slots'[p.slot].state = "RESOLVING" /\ slots'[p.slot].id = p.id
      <3>1. ASSUME NEW p \in dns'
            PROVE  slots'[p.slot].state = "RESOLVING" /\ slots'[p.slot].id = p.id
        <4>1. p \in dns /\ p # q /\ p.slot \in Slot
          BY <1>1, <1>2 DEF Query
        <4>2. slots'[p.slot] = slots[p.slot]
          BY <4>1, <1>3, <2>2
        <4> QED
          BY <4>1, <4>2 DEF IInv, QueryInv
      <3> QED
        BY <3>1
    <2>5. \A j \in Slot : slots'[j].state = "RESOLVING" =>
              [slot |-> j, id |-> slots'[j].id] \in dns'
      BY <1>5, <2>2
    <2>6. QueryInv'
      BY <2>4, <2>5 DEF QueryInv
    <2>7. EndsOrGoesOn(i) /\ stack' = <<>> /\ dns' \subseteq dns
      BY <1>1, <1>6 DEF EndsOrGoesOn
    <2>8. slots[i].state # "IDLE" /\ slots'[i].state # "IDLE"
      BY <1>1, <2>2
    <2> HIDE DEF i
    <2> QED
      BY <1>1, <1>2, <2>2, <2>3, <2>6, <2>7, <2>8, LoopStep
  <1>7. CASE stack' = <<FinishSlot(i, "failed")>> /\ UNCHANGED <<slots, tcp>>
    <2>1. EndsOrGoesOn(i)
      BY <1>7 DEF EndsOrGoesOn, Results
    <2>2. \A p \in dns' : p.slot # i
      BY <1>1, <1>3
    <2>3. At("finish")' /\ stack'[1].slot = i
      BY <1>7 DEF At, FinishSlot
    <2>4. \A p \in dns' : slots'[p.slot].state = "RESOLVING" /\ slots'[p.slot].id = p.id
      BY <1>1, <1>7 DEF IInv, QueryInv
    <2>5. \A j \in Slot : slots'[j].state = "RESOLVING" =>
              [slot |-> j, id |-> slots'[j].id] \in dns' \/ (At("finish")' /\ stack'[1].slot = j)
      BY <1>5, <1>7, <2>3
    <2>6. QueryInv'
      BY <2>4, <2>5 DEF QueryInv
    <2>7. /\ slots' \in [Slot -> SlotData] /\ tcp' \in [Slot -> TcpData]
          /\ \A j \in Slot : slots'[j] = slots[j] /\ tcp'[j] = tcp[j]
          /\ dns' \subseteq dns /\ slots[i].state # "IDLE"
      BY <1>1, <1>2, <1>7
    <2> HIDE DEF i
    <2> QED
      BY <1>1, <1>2, <2>1, <2>2, <2>6, <2>7, LoopStep
  <1> QED
    BY <1>6, <1>7 DEF DnsAnswered

-----------------------------------------------------------------------------
(* The invariant.                                                          *)

LEMMA InitInv ==
    ASSUME WebclientAssumption, Init
    PROVE  IInv
  <1>1. stack = <<>> /\ pending = <<>> /\ dns = {} /\ wild = FALSE /\ due = {}
    BY DEF Init
  <1>2. Len(stack) = 0 /\ Len(pending) = 0 /\ stack \in Seq(Frame) /\ pending \in Seq(Element)
    BY <1>1
  <1>3. EmptySlot \in SlotData /\ ~EmptySlot.cb /\ ~EmptySlot.bufs /\ EmptySlot.state = "IDLE"
    BY DEF EmptySlot, SlotData
  <1>4. NoTcp \in TcpData /\ ~NoTcp.pcb /\ NoTcp.rx = <<>>
    BY DEF NoTcp, TcpData
  <1>5. \A op : ~At(op)
    BY <1>1 DEF At
  <1>6. \A i \in Slot : slots[i] = EmptySlot /\ tcp[i] = NoTcp
    BY DEF Init
  <1>7. Typed
    <2>1. slots \in [Slot -> SlotData] /\ tcp \in [Slot -> TcpData]
      BY <1>3, <1>4 DEF Init
    <2>2. /\ url \in [Request -> Urls \cup {"new"}] /\ started \in [Request -> Nat]
          /\ answers \in [Request -> Nat] /\ nextId \in Nat \ {0}
      BY DEF Init
    <2> QED
      BY <2>1, <2>2, <1>1, <1>2 DEF Typed
  <1>8. TInv
    BY <1>3, <1>6, <1>7 DEF TInv
  <1>9. Nested(stack) /\ CallInv /\ WaitInv /\ FreeInv
    BY <1>1, <1>2, <1>5 DEF Nested, CallInv, WaitInv, FreeInv
  <1>10. IdleHoldsNothing /\ QueryInv
    BY <1>1, <1>3, <1>4, <1>6 DEF IdleHoldsNothing, QueryInv
  <1>11. ASSUME NEW r \in Request PROVE Place(r)
    <2>1. ~InSlot(r) /\ ~Waiting(r) /\ ~InCall(r)
      BY <1>2, <1>3, <1>5, <1>6 DEF InSlot, Waiting, InCall
    <2>2. url[r] = "new" /\ answers[r] = 0 /\ started[r] = 0
      BY DEF Init
    <2> QED
      BY <2>1, <2>2 DEF Place
  <1>12. PlaceInv
    BY <1>2, <1>3, <1>6, <1>11 DEF PlaceInv
  <1> QED
    BY <1>8, <1>9, <1>10, <1>12 DEF IInv

LEMMA MachineryStep ==
    ASSUME WebclientAssumption, FrontFails = FALSE, IInv, Machinery
    PROVE  IInv'
  <1>1. CASE EnqueueStarts
    BY <1>1, EnqueueStartsStep
  <1>2. CASE EnqueueWaits
    BY <1>2, EnqueueWaitsStep
  <1>3. CASE StartRefused
    BY <1>3, StartRefusedStep
  <1>4. CASE StartConnects
    BY <1>4, StartConnectsStep
  <1>5. CASE StartResolves
    BY <1>5, StartResolvesStep
  <1>6. CASE Finish
    BY <1>6, FinishStep
  <1>7. CASE Done
    BY <1>7, DoneStep
  <1>8. CASE CallbackReturns
    BY <1>8, CallbackReturnsStep
  <1>9. CASE NextStarts
    BY <1>9, NextStartsStep
  <1>10. CASE NextReturns
    BY <1>10, NextReturnsStep
  <1>11. CASE Pop
    BY <1>11, PopStep
  <1> QED
    BY <1>1, <1>2, <1>3, <1>4, <1>5, <1>6, <1>7, <1>8, <1>9, <1>10, <1>11 DEF Machinery

\* Nothing happens, or the network goes or comes back.
LEMMA StutterStep ==
    ASSUME IInv, UNCHANGED vars \/ \E on \in BOOLEAN : Switches(on)
    PROVE  IInv'
  <1>1. UNCHANGED <<slots, tcp, pending, nextId, dns, due, stack, url, started, answers, wild>>
    BY DEF Switches, vars, ghosts
  <1>2. TInv' /\ Nested(stack)' /\ IdleHoldsNothing'
    BY <1>1 DEF IInv, TInv, Typed, IdleHoldsNothing
  <1>3. CallInv' /\ WaitInv' /\ FreeInv' /\ QueryInv'
    BY <1>1 DEF IInv, CallInv, WaitInv, FreeInv, QueryInv, At, IdleSlots
  <1>4. PlaceInv'
    BY <1>1 DEF IInv, PlaceInv, Place, InSlot, Waiting, InCall, At
  <1> QED
    BY <1>2, <1>3, <1>4 DEF IInv

LEMMA NextInv ==
    ASSUME WebclientAssumption, FrontFails = FALSE, IInv, [Next]_vars
    PROVE  IInv'
  <1>1. ASSUME NEW r \in Request, NEW kind \in Urls, Send(r, kind) PROVE IInv'
    BY <1>1, SendStep
  <1>2. CASE Machinery
    BY <1>2, MachineryStep
  <1>3. CASE CallbackSends
    BY <1>3, CallbackSendsStep
  <1>4. ASSUME NEW q \in dns, DnsAnswered(q) PROVE IInv'
    BY <1>4, DnsAnsweredStep
  <1>5. ASSUME NEW i \in Slot, ProcessSlot(i) PROVE IInv'
    BY <1>5, ProcessSlotStep
  <1>6. ASSUME NEW i \in Slot, Lwip(i) PROVE IInv'
    BY <1>6, LwipStep
  <1>7. ASSUME NEW i \in Slot, TimeElapses(i) PROVE IInv'
    BY <1>7, TimeElapsesStep
  <1>8. CASE UNCHANGED vars \/ \E on \in BOOLEAN : Switches(on)
    BY <1>8, StutterStep
  <1> QED
    BY <1>1, <1>2, <1>3, <1>4, <1>5, <1>6, <1>7, <1>8 DEF Next

\* Only Switches changes whether loop() is called.
OnlineInv == online \in BOOLEAN

LEMMA OnlineStep ==
    ASSUME OnlineInv, [Next]_vars
    PROVE  OnlineInv'
  <1>1. ASSUME NEW i \in Slot, ProcessSlot(i) PROVE online' = online
    BY <1>1, ProcessSlotOutcome DEF Goes, Ends
  <1>2. ASSUME NEW i \in Slot, Lwip(i) \/ TimeElapses(i) PROVE online' = online
    BY <1>2 DEF Lwip, LwipConnected, LwipErr, LwipClosed, LwipRecv, Quiet, TimeElapses
  <1>3. Machinery => online' = online
    BY DEF Machinery, EnqueueStarts, EnqueueWaits, StartRefused, StartConnects,
           StartResolves, Take, Finish, Done, CallbackReturns, NextStarts, NextReturns, Pop
  <1>4. (\E on \in BOOLEAN : Switches(on)) => online' \in BOOLEAN
    BY DEF Switches
  <1>5. /\ (\E r \in Request, kind \in Urls : Send(r, kind)) => online' = online
        /\ CallbackSends => online' = online
        /\ (\E q \in dns : DnsAnswered(q)) => online' = online
        /\ UNCHANGED vars => online' = online
    BY DEF Send, CallbackSends, DnsAnswered, vars
  <1> QED
    BY <1>1, <1>2, <1>3, <1>4, <1>5 DEF Next, OnlineInv

\* The strengthening holds in every reachable state: frames nest in one way, a
\* free slot has a call of startNextPending() coming while requests wait, and
\* each onDone has one place.
THEOREM Invariance ==
    WebclientAssumption /\ FrontFails = FALSE => (Spec => []IInv)
  <1> SUFFICES ASSUME WebclientAssumption, FrontFails = FALSE
               PROVE  Spec => []IInv
    OBVIOUS
  <1>1. Init => IInv
    BY InitInv
  <1>2. IInv /\ [Next]_vars => IInv'
    BY NextInv
  <1> QED
    BY <1>1, <1>2, PTL DEF Spec

\* Every variable has its type.
THEOREM TypeCorrect ==
    WebclientAssumption /\ FrontFails = FALSE => (Spec => []TypeOK)
  <1> SUFFICES ASSUME WebclientAssumption, FrontFails = FALSE
               PROVE  Spec => []TypeOK
    OBVIOUS
  <1>1. IInv /\ OnlineInv => TypeOK
    BY TypedFrames DEF IInv, TInv, OnlineInv
  <1>2. Spec => []IInv
    BY Invariance
  <1>3. Init => OnlineInv
    BY DEF Init, OnlineInv
  <1>4. OnlineInv /\ [Next]_vars => OnlineInv'
    BY OnlineStep
  <1> QED
    BY <1>1, <1>2, <1>3, <1>4, PTL DEF Spec

-----------------------------------------------------------------------------
(* The safety invariants.                                                  *)

\* Only the innermost call can hold an onDone.
LEMMA HolderOnTop ==
    ASSUME IInv, NEW k \in 1..Len(stack), stack[k].op \in {"enqueue", "start", "done"}
    PROVE  k = 1
  <1> SUFFICES ASSUME k # 1 PROVE FALSE
    OBVIOUS
  <1>1. stack \in Seq(Frame) /\ Nested(stack) /\ Len(stack) \in Nat
    BY DEF IInv, TInv, Typed
  <1>2. k - 1 \in 1..Len(stack) /\ k - 1 # Len(stack) /\ (k - 1) + 1 = k
    BY <1>1
  <1>3. stack[k].op = Under(stack[k - 1].op)
    BY <1>1, <1>2 DEF Nested
  <1> QED
    BY <1>3 DEF Under

\* The places of an onDone, as OneCallback counts them.
LEMMA HolderFacts ==
    ASSUME IInv, NEW r \in Request
    PROVE  /\ \A i \in Slot : <<"slot", i>> \in Holders(r) <=> slots[i].req = r /\ slots[i].cb
           /\ \A k \in 1..Len(pending) :
                 <<"pending", k>> \in Holders(r) <=> pending[k].req = r /\ pending[k].cb
           /\ <<"call", 1>> \in Holders(r) <=> InCall(r)
           /\ \A h \in Holders(r) :
                 \/ \E i \in Slot : h = <<"slot", i>> /\ slots[i].req = r /\ slots[i].cb
                 \/ \E k \in 1..Len(pending) :
                       h = <<"pending", k>> /\ pending[k].req = r /\ pending[k].cb
                 \/ h = <<"call", 1>> /\ InCall(r)
  <1>1. stack \in Seq(Frame)
    BY DEF IInv, TInv, Typed
  <1>2. stack # <<>> => 1 \in 1..Len(stack)
    BY <1>1
  <1>3. 1 \in 1..Len(stack) => stack # <<>>
    BY <1>1, EmptyLen
  <1>4. ASSUME NEW k \in 1..Len(stack), stack[k].op \in {"enqueue", "start", "done"},
               stack[k].req = r
        PROVE  k = 1 /\ InCall(r)
    <2>1. k = 1
      BY <1>4, HolderOnTop
    <2> QED
      BY <2>1, <1>3, <1>4 DEF InCall, At
  <1>5. InCall(r) => /\ 1 \in 1..Len(stack) /\ stack[1].op \in {"enqueue", "start", "done"}
                     /\ stack[1].req = r
    BY <1>2 DEF InCall, At
  <1> QED
    BY <1>4, <1>5 DEF Holders

LEMMA OneHolder ==
    ASSUME IInv, NEW r \in Request
    PROVE  Cardinality(Holders(r)) = IF InSlot(r) \/ Waiting(r) \/ InCall(r) THEN 1 ELSE 0
  <1>1. PlaceInv /\ Place(r)
    BY DEF IInv, PlaceInv
  <1>2. CASE InSlot(r)
    <2>1. PICK i \in Slot : slots[i].cb /\ slots[i].req = r
      BY <1>2 DEF InSlot
    <2>2. ~Waiting(r) /\ ~InCall(r)
      BY <1>1, <1>2 DEF Place
    <2>3. <<"slot", i>> \in Holders(r)
      BY <2>1, HolderFacts
    <2>4. ASSUME NEW h \in Holders(r) PROVE h = <<"slot", i>>
      <3>1. CASE \E j \in Slot : h = <<"slot", j>> /\ slots[j].req = r /\ slots[j].cb
        BY <3>1, <2>1, <1>1 DEF PlaceInv
      <3>2. CASE \E k \in 1..Len(pending) :
                    h = <<"pending", k>> /\ pending[k].req = r /\ pending[k].cb
        BY <3>2, <2>2 DEF Waiting
      <3>3. CASE h = <<"call", 1>> /\ InCall(r)
        BY <3>3, <2>2
      <3> QED
        BY <3>1, <3>2, <3>3, HolderFacts
    <2>5. Holders(r) = {<<"slot", i>>}
      BY <2>3, <2>4, Zenon
    <2> QED
      BY <2>5, <1>2, FS_Singleton
  <1>3. CASE Waiting(r)
    <2>1. PICK k \in 1..Len(pending) : pending[k].cb /\ pending[k].req = r
      BY <1>3 DEF Waiting
    <2>2. ~InSlot(r) /\ ~InCall(r)
      BY <1>1, <1>3 DEF Place
    <2>3. <<"pending", k>> \in Holders(r)
      BY <2>1, HolderFacts
    <2>4. ASSUME NEW h \in Holders(r) PROVE h = <<"pending", k>>
      <3>1. CASE \E j \in Slot : h = <<"slot", j>> /\ slots[j].req = r /\ slots[j].cb
        BY <3>1, <2>2 DEF InSlot
      <3>2. CASE \E l \in 1..Len(pending) :
                    h = <<"pending", l>> /\ pending[l].req = r /\ pending[l].cb
        BY <3>2, <2>1, <1>1 DEF PlaceInv
      <3>3. CASE h = <<"call", 1>> /\ InCall(r)
        BY <3>3, <2>2
      <3> QED
        BY <3>1, <3>2, <3>3, HolderFacts
    <2>5. Holders(r) = {<<"pending", k>>}
      BY <2>3, <2>4, Zenon
    <2> QED
      BY <2>5, <1>3, FS_Singleton
  <1>4. CASE InCall(r)
    <2>1. ~InSlot(r) /\ ~Waiting(r)
      BY <1>1, <1>4 DEF Place
    <2>2. <<"call", 1>> \in Holders(r)
      BY <1>4, HolderFacts
    <2>3. ASSUME NEW h \in Holders(r) PROVE h = <<"call", 1>>
      BY <2>1, <2>3, HolderFacts DEF InSlot, Waiting
    <2>4. Holders(r) = {<<"call", 1>>}
      BY <2>2, <2>3, Zenon
    <2> QED
      BY <2>4, <1>4, FS_Singleton
  <1>5. CASE ~InSlot(r) /\ ~Waiting(r) /\ ~InCall(r)
    <2>1. ASSUME NEW h \in Holders(r) PROVE FALSE
      BY <1>5, <2>1, HolderFacts DEF InSlot, Waiting
    <2>2. Holders(r) = {}
      BY <2>1
    <2> QED
      BY <2>2, <1>5, FS_EmptySet
  <1> QED
    BY <1>2, <1>3, <1>4, <1>5

\* Each onDone is in one slot, one element of the deque or one call in progress
\* from send() until it is called, once; and no request takes a slot twice.
THEOREM OneCallbackHolds ==
    WebclientAssumption /\ FrontFails = FALSE => (Spec => []OneCallback)
  <1> SUFFICES ASSUME WebclientAssumption, FrontFails = FALSE
               PROVE  Spec => []OneCallback
    OBVIOUS
  <1>1. IInv => OneCallback
    <2> SUFFICES ASSUME IInv, NEW r \in Request
                 PROVE  /\ Cardinality(Holders(r)) + answers[r] = IF url[r] = "new" THEN 0 ELSE 1
                        /\ started[r] <= 1
      BY DEF OneCallback
    <2>1. Place(r) /\ answers[r] \in Nat
      BY DEF IInv, PlaceInv, TInv, Typed
    <2> QED
      BY <2>1, OneHolder DEF Place
  <1>2. Spec => []IInv
    BY Invariance
  <1> QED
    BY <1>1, <1>2, PTL

\* A free slot holds nothing, a slot that is RESOLVING has its own query under
\* way, and no request waits beside a free slot.
THEOREM SlotOwnershipHolds ==
    WebclientAssumption /\ FrontFails = FALSE => (Spec => []SlotOwnership)
  <1> SUFFICES ASSUME WebclientAssumption, FrontFails = FALSE
               PROVE  Spec => []SlotOwnership
    OBVIOUS
  <1>1. IInv => SlotOwnership
    <2> SUFFICES ASSUME IInv PROVE SlotOwnership
      OBVIOUS
    <2>1. ResolvingHasQuery
      <3>1. At("finish") => 1 \in 1..Len(stack) /\ stack[1].op = "finish"
        <4>1. stack \in Seq(Frame)
          BY DEF IInv, TInv, Typed
        <4> QED
          BY <4>1 DEF At
      <3> QED
        BY <3>1 DEF IInv, QueryInv, ResolvingHasQuery
    <2>2. NoIdleSlotWhileWaiting
      <3> SUFFICES ASSUME AtTop, pending # <<>> PROVE IdleSlots = {}
        BY DEF NoIdleSlotWhileWaiting
      <3>1. Called(stack) = 0
        BY DEF AtTop, Called
      <3>2. Cardinality(IdleSlots) = 0
        BY <3>1, IdleCount DEF IInv, FreeInv
      <3> QED
        BY <3>2, IdleCount, FS_EmptySet
    <2> QED
      BY <2>1, <2>2 DEF IInv, SlotOwnership
  <1>2. Spec => []IInv
    BY Invariance
  <1> QED
    BY <1>1, <1>2, PTL

\* The requests that were sent.
Sent == {r \in Request : url[r] # "new"}

\* A step sends a request, calls the onDone of one, or does neither.
LEMMA PromiseStep ==
    ASSUME WebclientAssumption, IInv, [Next]_vars
    PROVE  [Promised!Next]_Promised!vars
  <1>1. /\ url \in [Request -> Urls \cup {"new"}] /\ answers \in [Request -> Nat]
        /\ "new" \notin Urls
    BY DEF IInv, TInv, Typed, WebclientAssumption
  <1>2. ASSUME NEW r \in Request, NEW kind \in Urls, MaySend(r, kind),
               url' = [url EXCEPT ![r] = kind], answers' = answers
        PROVE  Promised!Next
    <2>1. url[r] = "new" /\ kind # "new"
      BY <1>1, <1>2 DEF MaySend
    <2>2. r \notin Sent /\ Sent' = Sent \cup {r}
      BY <2>1, <1>1, <1>2 DEF Sent
    <2> QED
      BY <2>2, <1>2 DEF Promised!Next, Promised!Send, Sent
  <1>3. ASSUME Done PROVE Promised!Next
    <2> DEFINE r == stack[1].req
    <2>1. At("done") /\ r \in Request
      BY <1>3 DEF Done, Running, At, IInv, CallInv
    <2>2. answers[r] = 0 /\ url[r] # "new"
      <3>1. Place(r) /\ InCall(r)
        BY <2>1 DEF IInv, PlaceInv, InCall
      <3> QED
        BY <3>1 DEF Place
    <2>3. answers' = [answers EXCEPT ![r] = 1] /\ url' = url
      BY <2>2, <1>1, <1>3 DEF Done
    <2>4. r \in Sent /\ Sent' = Sent
      BY <2>1, <2>2, <2>3 DEF Sent
    <2> QED
      BY <2>1, <2>2, <2>3, <2>4 DEF Promised!Next, Promised!Answer, Sent
  <1>4. ASSUME url' = url, answers' = answers
        PROVE  UNCHANGED Promised!vars
    BY <1>4 DEF Promised!vars
  <1>5. ASSUME NEW i \in Slot, ProcessSlot(i) PROVE url' = url /\ answers' = answers
    BY <1>5, ProcessSlotOutcome DEF Goes, Ends, ghosts
  <1>6. ASSUME NEW i \in Slot, Lwip(i) \/ TimeElapses(i)
        PROVE  url' = url /\ answers' = answers
    BY <1>6 DEF Lwip, LwipConnected, LwipErr, LwipClosed, LwipRecv, Quiet, TimeElapses,
                ghosts
  <1>7. ASSUME NEW q \in dns, DnsAnswered(q) PROVE url' = url /\ answers' = answers
    BY <1>7 DEF DnsAnswered, ghosts
  <1>8. ASSUME Machinery, ~Done PROVE url' = url /\ answers' = answers
    BY <1>8 DEF Machinery, EnqueueStarts, EnqueueWaits, StartRefused, StartConnects,
                StartResolves, Take, Finish, CallbackReturns, NextStarts, NextReturns,
                Pop, ghosts
  <1>9. ASSUME NEW r \in Request, NEW kind \in Urls, Send(r, kind) PROVE Promised!Next
    BY <1>2, <1>9 DEF Send, ghosts
  <1>10. ASSUME CallbackSends PROVE Promised!Next
    BY <1>2, <1>10 DEF CallbackSends, ghosts
  <1>11. CASE UNCHANGED vars \/ \E on \in BOOLEAN : Switches(on)
    BY <1>4, <1>11 DEF Switches, vars, ghosts
  <1> QED
    BY <1>3, <1>4, <1>5, <1>6, <1>7, <1>8, <1>9, <1>10, <1>11 DEF Next

\* The safety half of the promise of WebRequests: onDone is called for requests
\* that were sent, and for none of them twice.
THEOREM AnsweredOnce ==
    WebclientAssumption /\ FrontFails = FALSE =>
        (Spec => Promised!Init /\ [][Promised!Next]_Promised!vars)
  <1> SUFFICES ASSUME WebclientAssumption, FrontFails = FALSE
               PROVE  Spec => Promised!Init /\ [][Promised!Next]_Promised!vars
    OBVIOUS
  <1>1. Init => Promised!Init
    BY DEF Init, Promised!Init
  <1>2. IInv /\ [Next]_vars => [Promised!Next]_Promised!vars
    BY PromiseStep
  <1>3. Spec => []IInv
    BY Invariance
  <1> QED
    BY <1>1, <1>2, <1>3, PTL DEF Spec

=============================================================================
