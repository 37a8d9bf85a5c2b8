------------------------- MODULE NetworkModuleProofs -------------------------
(***************************************************************************)
(* The safety invariants of the network module for every set of addresses, *)
(* either platform, every setting of the update over the air and of NTP,   *)
(* and every number of changes of the interface and of waiting events.     *)
(***************************************************************************)
EXTENDS NetworkModule, TLAPS

-----------------------------------------------------------------------------
(* The calls loop() runs inside of.                                        *)

Kinds == {"ota", "ntp"}

\* A call that is not on the stack yet may be pushed.
LEMMA PushFacts ==
    ASSUME NEW s \in Seq(Kinds), NEW k \in Kinds, k \notin ToSet(s), IsInjective(s)
    PROVE  /\ <<k>> \o s \in Seq(Kinds)
           /\ Len(<<k>> \o s) = Len(s) + 1
           /\ IsInjective(<<k>> \o s)
           /\ ToSet(<<k>> \o s) = ToSet(s) \cup {k}
  <1> DEFINE t == <<k>> \o s
  <1>1. /\ t \in Seq(Kinds) /\ Len(s) \in Nat /\ Len(t) = Len(s) + 1
        /\ t[1] = k /\ \A i \in 2..Len(s) + 1 : t[i] = s[i - 1]
    OBVIOUS
  <1>2. \A i \in 2..Len(s) + 1 : i - 1 \in 1..Len(s)
    BY <1>1
  <1>3. \A i \in 1..Len(s) : i + 1 \in 2..Len(s) + 1 /\ (i + 1) - 1 = i
    BY <1>1
  <1>4. 1..Len(t) = {1} \cup 2..Len(s) + 1
    BY <1>1
  <1>5. DOMAIN t = 1..Len(t) /\ DOMAIN s = 1..Len(s)
    BY <1>1
  <1>6. \A i \in 1..Len(s) : t[i + 1] = s[i]
    BY <1>1, <1>3
  <1>7. ToSet(t) = ToSet(s) \cup {k}
    <2>1. \A x \in ToSet(t) : x \in ToSet(s) \cup {k}
      BY <1>1, <1>2, <1>4, <1>5 DEF ToSet
    <2>2. \A i \in 1..Len(s) : i + 1 \in 1..Len(t)
      BY <1>1
    <2>3. \A x \in ToSet(s) : x \in ToSet(t)
      BY <2>2, <1>5, <1>6 DEF ToSet
    <2>4. k \in ToSet(t)
      BY <1>1, <1>4, <1>5 DEF ToSet
    <2> QED
      BY <2>1, <2>3, <2>4
  <1>8. IsInjective(t)
    <2>1. \A i \in 2..Len(s) + 1 : t[i] # k
      BY <1>1, <1>2, <1>5 DEF ToSet
    <2>2. \A i, j \in 2..Len(s) + 1 : t[i] = t[j] => i = j
      BY <1>1, <1>2, <1>5 DEF IsInjective
    <2> QED
      BY <1>1, <1>4, <1>5, <2>1, <2>2 DEF IsInjective
  <1> QED
    BY <1>1, <1>7, <1>8

\* The innermost call returns: it alone leaves the stack.
LEMMA PopFacts ==
    ASSUME NEW s \in Seq(Kinds), s # <<>>, IsInjective(s)
    PROVE  /\ Tail(s) \in Seq(Kinds)
           /\ Len(Tail(s)) = Len(s) - 1
           /\ IsInjective(Tail(s))
           /\ ToSet(Tail(s)) = ToSet(s) \ {s[1]}
  <1>1. /\ Tail(s) \in Seq(Kinds) /\ Len(s) \in Nat \ {0}
        /\ Len(Tail(s)) = Len(s) - 1
        /\ \A i \in 1..Len(s) - 1 : Tail(s)[i] = s[i + 1]
    OBVIOUS
  <1>2. DOMAIN Tail(s) = 1..Len(s) - 1 /\ DOMAIN s = 1..Len(s)
    BY <1>1
  <1>3. \A i \in 1..Len(s) - 1 : i + 1 \in 1..Len(s) /\ i + 1 # 1
    BY <1>1
  <1>4. \A i \in 1..Len(s) : i = 1 \/ (i - 1 \in 1..Len(s) - 1 /\ (i - 1) + 1 = i)
    BY <1>1
  <1>5. IsInjective(Tail(s))
    <2>1. ASSUME NEW i \in 1..Len(s) - 1, NEW j \in 1..Len(s) - 1,
                 Tail(s)[i] = Tail(s)[j]
          PROVE  i = j
      <3>1. i + 1 = j + 1
        BY <1>1, <1>2, <1>3, <2>1 DEF IsInjective
      <3> QED
        BY <3>1, <1>1
    <2> QED
      BY <1>2, <2>1 DEF IsInjective
  <1>6. \A x \in ToSet(Tail(s)) : x \in ToSet(s) /\ x # s[1]
    BY <1>1, <1>2, <1>3 DEF ToSet, IsInjective
  <1>7. ASSUME NEW i \in 1..Len(s), i # 1
        PROVE  s[i] \in ToSet(Tail(s))
    <2>1. /\ i - 1 \in DOMAIN Tail(s) /\ (i - 1) + 1 = i
          /\ Tail(s)[i - 1] = s[(i - 1) + 1]
      BY <1>1, <1>2, <1>4, <1>7
    <2>2. Tail(s)[i - 1] = s[i]
      BY <2>1
    <2> QED
      BY <2>1, <2>2 DEF ToSet
  <1>8. \A x \in ToSet(s) : x # s[1] => x \in ToSet(Tail(s))
    BY <1>2, <1>7 DEF ToSet
  <1> QED
    BY <1>1, <1>5, <1>6, <1>8

\* Two kinds of call: no stack without repetitions is deeper than two.
LEMMA StackDepth ==
    ASSUME NEW s \in Seq(Kinds), IsInjective(s)
    PROVE  Len(s) <= 2
  <1>1. Len(s) \in Nat /\ DOMAIN s = 1..Len(s)
    OBVIOUS
  <1>2. ASSUME Len(s) > 2
        PROVE  FALSE
    <2>1. 1 \in 1..Len(s) /\ 2 \in 1..Len(s) /\ 3 \in 1..Len(s)
      BY <1>1, <1>2
    <2>2. s[1] # s[2] /\ s[1] # s[3] /\ s[2] # s[3]
      BY <1>1, <2>1 DEF IsInjective
    <2>3. s[1] \in Kinds /\ s[2] \in Kinds /\ s[3] \in Kinds
      BY <2>1
    <2> QED
      BY <2>2, <2>3 DEF Kinds
  <1> QED
    BY <1>1, <1>2

-----------------------------------------------------------------------------
(* The three invariants together are inductive: the guards of the nested   *)
(* calls need their types and agree with the stack.                        *)

IInv == TypeOK /\ NeverNested /\ ToldInTurn

EventKinds == {"connected", "disconnected", "gotIp", "renewed", "lostIp"}

\* An event is queued, or the first one taken.
LEMMA EventFacts ==
    ASSUME NetworkModuleAssumption, TypeOK
    PROVE  /\ \A e \in EventKinds : Len(events) < MaxEvents =>
                  /\ Append(events, e) \in Seq(EventKinds)
                  /\ Len(Append(events, e)) <= MaxEvents
           /\ events # <<>> => /\ Tail(events) \in Seq(EventKinds)
                               /\ Len(Tail(events)) <= MaxEvents
  BY DEF NetworkModuleAssumption, TypeOK, EventKinds

\* The socket of the KNX stack stays one.
LEMMA SetsKnxType ==
    ASSUME TypeOK, NEW enable \in BOOLEAN, SetsKnx(enable)
    PROVE  knx' \in [on : BOOLEAN, ip : Ip \cup {NoIp}]
  BY DEF TypeOK, SetsKnx, Closed

\* At start nobody has been told anything and nothing runs.
LEMMA InitInv == NetworkModuleAssumption /\ Init => IInv
  <1> SUFFICES ASSUME NetworkModuleAssumption, Init
               PROVE  IInv
    OBVIOUS
  <1>1. TypeOK
    <2>1. /\ platform \in Platforms /\ link \in BOOLEAN /\ ip \in Ip \cup {NoIp}
          /\ espConnected \in BOOLEAN /\ boundIp \in Ip \cup {NoIp}
      BY DEF Init
    <2>2. events \in Seq(EventKinds) /\ Len(events) <= MaxEvents
      <3>1. events = <<>> /\ MaxEvents \in Nat
        BY DEF NetworkModuleAssumption, Init
      <3> QED
        BY <3>1
    <2>3. /\ handler \in [at : {"idle", "open", "note", "down"}, ip : Ip \cup {NoIp}]
          /\ knx \in [on : BOOLEAN, ip : Ip \cup {NoIp}]
      BY DEF Init
    <2>4. /\ pc = "start" /\ told = "nothing" /\ led = "none"
          /\ {seen, newLink, currentLink, shown, heartbeat, powerSave, progMode,
              otaAllowed, otaHandle, syncing, synced} \subseteq BOOLEAN
      BY DEF Init
    <2>5. stack \in Seq({"ota", "ntp"}) /\ Len(stack) <= 2 /\ changes \in 0..MaxChanges
      BY DEF NetworkModuleAssumption, Init
    <2> QED
      BY <2>1, <2>2, <2>3, <2>4, <2>5 DEF TypeOK, EventKinds
  <1>2. IsInjective(stack) /\ "ota" \notin ToSet(stack) /\ "ntp" \notin ToSet(stack)
    BY DEF Init, IsInjective, ToSet
  <1> QED
    <2>1. otaHandle = ("ota" \in ToSet(stack)) /\ syncing = ("ntp" \in ToSet(stack))
      <3>1. ("ota" \in ToSet(stack)) = FALSE /\ ("ntp" \in ToSet(stack)) = FALSE
        BY <1>2
      <3>2. otaHandle = FALSE /\ syncing = FALSE
        BY DEF Init
      <3> QED
        BY ONLY <3>1, <3>2
    <2>2. ToldInTurn
      BY DEF Init, ToldInTurn
    <2> QED
      BY <1>1, <1>2, <2>1, <2>2 DEF IInv, NeverNested

\* The interface, power save and the prog mode.
LEMMA InterfaceStep ==
    ASSUME NetworkModuleAssumption, IInv, Interface
    PROVE  IInv'
  <1> USE DEF eventVars, knxVars, checkVars, nestVars, Happens, HandlerAt
  <1>1. stack' = stack /\ otaHandle' = otaHandle /\ syncing' = syncing
    BY DEF Interface, LinkUp, LinkDown, GetsIp, Renews, LosesIp, Switches
  <1>2. shown' = shown /\ told' = told /\ currentLink' = currentLink
    BY DEF Interface, LinkUp, LinkDown, GetsIp, Renews, LosesIp, Switches
  <1>3. TypeOK'
    <2>1. changes' \in 0..MaxChanges
      BY DEF Interface, LinkUp, LinkDown, GetsIp, Renews, LosesIp, Switches,
             NetworkModuleAssumption, IInv, TypeOK
    <2>2. events' \in Seq(EventKinds) /\ Len(events') <= MaxEvents
      <3>1. \/ events' = events
            \/ \E e \in EventKinds : Len(events) < MaxEvents /\ events' = Append(events, e)
        BY DEF Interface, LinkUp, LinkDown, GetsIp, Renews, LosesIp, Switches, EventKinds
      <3> QED
        BY <3>1, EventFacts DEF IInv, TypeOK, EventKinds
    <2>3. /\ link' \in BOOLEAN /\ ip' \in Ip \cup {NoIp}
          /\ powerSave' \in BOOLEAN /\ progMode' \in BOOLEAN
      BY DEF Interface, LinkUp, LinkDown, GetsIp, Renews, LosesIp, Switches, IInv, TypeOK
    <2>4. /\ platform' = platform
          /\ UNCHANGED <<eventVars, knxVars, pc, checkVars, nestVars>>
      BY DEF Interface, LinkUp, LinkDown, GetsIp, Renews, LosesIp, Switches
    <2> QED
      BY <2>1, <2>2, <2>3, <2>4 DEF IInv, TypeOK, EventKinds
  <1> QED
    BY <1>1, <1>2, <1>3 DEF IInv, NeverNested, ToldInTurn

\* esp32NetworkEvent().
LEMMA EventTaskStep ==
    ASSUME NetworkModuleAssumption, IInv, EventTask
    PROVE  IInv'
  <1>1. /\ UNCHANGED <<pc, checkVars, nestVars>>
        /\ UNCHANGED <<platform, link, ip, powerSave, progMode, changes>>
    BY DEF EventTask, OnConnected, OnSameIp, OnGotIp, OpensKnx, NotesIp, OnLostIp,
           OnDisconnected, GoesDown, netVars
  <1>2. events' \in Seq(EventKinds) /\ Len(events') <= MaxEvents
    <2>1. events' = events \/ (events # <<>> /\ events' = Tail(events))
      BY DEF EventTask, OnConnected, OnSameIp, OnGotIp, OpensKnx, NotesIp, OnLostIp,
             OnDisconnected, GoesDown, netVars, Handles, Takes
    <2> QED
      BY <2>1, EventFacts DEF IInv, TypeOK, EventKinds
  <1>3. /\ handler' \in [at : {"idle", "open", "note", "down"}, ip : Ip \cup {NoIp}]
        /\ espConnected' \in BOOLEAN
    <2>1. \/ handler' = handler
          \/ handler' = [at |-> "idle", ip |-> NoIp]
          \/ handler' = [at |-> "open", ip |-> ip]
          \/ handler' = [handler EXCEPT !.at = "note"]
          \/ handler' = [handler EXCEPT !.at = "down"]
      BY DEF EventTask, OnConnected, OnSameIp, OnGotIp, OpensKnx, NotesIp, OnLostIp,
             OnDisconnected, GoesDown, eventVars
    <2>2. espConnected' \in {espConnected, TRUE, FALSE}
      BY DEF EventTask, OnConnected, OnSameIp, OnGotIp, OpensKnx, NotesIp, OnLostIp,
             OnDisconnected, GoesDown, eventVars
    <2>3. /\ handler \in [at : {"idle", "open", "note", "down"}, ip : Ip \cup {NoIp}]
          /\ ip \in Ip \cup {NoIp} /\ espConnected \in BOOLEAN
      BY DEF IInv, TypeOK
    <2>4. handler' \in [at : {"idle", "open", "note", "down"}, ip : Ip \cup {NoIp}]
      BY <2>1, <2>3
    <2> QED
      BY <2>2, <2>3, <2>4
  <1>4. boundIp' \in Ip \cup {NoIp} /\ knx' \in [on : BOOLEAN, ip : Ip \cup {NoIp}]
    <2>1. knx' = knx \/ \E b \in BOOLEAN : SetsKnx(b)
      BY DEF EventTask, OnConnected, OnSameIp, OnGotIp, OpensKnx, NotesIp, OnLostIp,
             OnDisconnected, GoesDown, knxVars, ControlKnxIp
    <2>2. boundIp' \in {boundIp, NoIp, handler.ip}
      BY DEF EventTask, OnConnected, OnSameIp, OnGotIp, OpensKnx, NotesIp, OnLostIp,
             OnDisconnected, GoesDown, knxVars, ControlKnxIp
    <2> QED
      BY <2>1, <2>2, SetsKnxType DEF IInv, TypeOK
  <1>5. TypeOK'
    BY <1>1, <1>2, <1>3, <1>4 DEF IInv, TypeOK, checkVars, nestVars, EventKinds
  <1> QED
    BY <1>1, <1>5 DEF IInv, NeverNested, ToldInTurn, checkVars, nestVars

\* checkLinkStatus() and resetNetwork().
LEMMA CheckStep ==
    ASSUME NetworkModuleAssumption, IInv, Check \/ ResetNetwork \/ ResetOpens
    PROVE  IInv'
  <1> USE DEF Steps, ControlKnxIp
  <1>1. UNCHANGED nestVars
    BY DEF Check, CheckReads, CheckControls, CheckForgets, CheckLed, CheckTells,
           CheckBeats, ResetNetwork, ResetOpens
  <1>2. Connected \in BOOLEAN /\ Established \in BOOLEAN
    BY DEF Connected, Established, IInv, TypeOK
  <1>3. /\ UNCHANGED <<platform, powerSave, progMode, handler, espConnected>>
        /\ link' \in BOOLEAN /\ ip' \in Ip \cup {NoIp} /\ changes' \in 0..MaxChanges
        /\ events' \in Seq(EventKinds) /\ Len(events') <= MaxEvents
    <2>1. CASE ResetNetwork
      <3>1. /\ events' = events \/ (Len(events) < MaxEvents
                                   /\ events' = Append(events, "disconnected"))
            /\ link' = FALSE /\ ip' = NoIp /\ changes < MaxChanges /\ changes' = changes + 1
            /\ UNCHANGED <<platform, powerSave, progMode, handler, espConnected>>
        BY <2>1 DEF ResetNetwork, eventVars
      <3>2. events' \in Seq(EventKinds) /\ Len(events') <= MaxEvents
        BY <3>1, EventFacts DEF IInv, TypeOK, EventKinds
      <3>3. changes' \in 0..MaxChanges
        BY <3>1 DEF NetworkModuleAssumption, IInv, TypeOK
      <3> QED
        BY <3>1, <3>2, <3>3
    <2>2. CASE ~ResetNetwork
      <3>1. UNCHANGED <<netVars, eventVars>>
        BY <2>2 DEF Check, CheckReads, CheckControls, CheckForgets, CheckLed,
                    CheckTells, CheckBeats, ResetOpens
      <3> QED
        BY <3>1 DEF netVars, eventVars, IInv, TypeOK, EventKinds
    <2> QED
      BY <2>1, <2>2
  <1>4. /\ boundIp' \in Ip \cup {NoIp} /\ knx' \in [on : BOOLEAN, ip : Ip \cup {NoIp}]
        /\ pc' \in {"start", "reset", "control", "forget", "led", "tell", "beat", "ota"}
    <2>1. knx' = knx \/ SetsKnx(seen) \/ \E b \in BOOLEAN : SetsKnx(b)
      BY DEF Check, CheckReads, CheckControls, CheckForgets, CheckLed, CheckTells,
             CheckBeats, ResetNetwork, ResetOpens, knxVars
    <2>2. boundIp' \in {boundIp, NoIp}
      BY DEF Check, CheckReads, CheckControls, CheckForgets, CheckLed, CheckTells,
             CheckBeats, ResetNetwork, ResetOpens, knxVars
    <2>3. pc' \in {"start", "reset", "control", "forget", "led", "tell", "beat", "ota"}
      BY DEF Check, CheckReads, CheckControls, CheckForgets, CheckLed, CheckTells,
             CheckBeats, ResetNetwork, ResetOpens
    <2>4. seen \in BOOLEAN
      BY DEF IInv, TypeOK
    <2> QED
      BY <2>1, <2>2, <2>3, <2>4, SetsKnxType DEF IInv, TypeOK
  <1>5. CASE CheckTells
    <2>1. /\ currentLink' \in BOOLEAN /\ shown' \in BOOLEAN
          /\ told' \in {"nothing", "up", "down"}
          /\ UNCHANGED <<seen, newLink, led, heartbeat>>
      BY <1>5 DEF CheckTells, IInv, TypeOK
    <2>2. ToldInTurn'
      BY <1>2, <1>5 DEF CheckTells, ToldInTurn, IInv, TypeOK
    <2> QED
      BY <1>1, <1>3, <1>4, <2>1, <2>2 DEF IInv, TypeOK, NeverNested, nestVars, EventKinds
  <1>6. CASE ~CheckTells
    <2>1. /\ seen' \in BOOLEAN /\ newLink' \in BOOLEAN /\ heartbeat' \in BOOLEAN
          /\ led' \in {"none", "green", "yellow", "red"}
      BY <1>2, <1>6 DEF Check, CheckReads, CheckControls, CheckForgets, CheckLed,
             CheckBeats, ResetNetwork, ResetOpens, checkVars, IInv, TypeOK
    <2>2. UNCHANGED <<currentLink, shown, told>>
      BY <1>6 DEF Check, CheckReads, CheckControls, CheckForgets, CheckLed,
             CheckBeats, ResetNetwork, ResetOpens, checkVars
    <2> QED
      BY <1>1, <1>3, <1>4, <2>1, <2>2 DEF IInv, TypeOK, NeverNested, ToldInTurn, nestVars,
                                         EventKinds
  <1> QED
    BY <1>5, <1>6

\* The steps of loop() that call nothing.
LEMMA PlainStep ==
    ASSUME IInv, LoopReturns \/ CheckNotDue \/ OtaIdle \/ NtpIdle \/ LoopEnds
    PROVE  IInv'
  <1>1. /\ UNCHANGED <<netVars, eventVars, knxVars, checkVars>>
        /\ UNCHANGED <<otaHandle, syncing, synced, stack>>
        /\ otaAllowed' \in BOOLEAN /\ pc' \in {"start", "ota", "ntp", "end"}
    BY DEF LoopReturns, CheckNotDue, OtaIdle, NtpIdle, LoopEnds, Steps, nestVars,
           Allowed, IInv, TypeOK
  <1> QED
    BY <1>1 DEF IInv, TypeOK, NeverNested, ToldInTurn, netVars, eventVars, knxVars,
                checkVars

\* An update or a wait for the time begins, and with it a loop() inside.
LEMMA NestStep ==
    ASSUME IInv, OtaReceives \/ NtpWaits
    PROVE  IInv'
  <1> DEFINE k == IF OtaReceives THEN "ota" ELSE "ntp"
  <1>1. stack \in Seq(Kinds) /\ k \in Kinds /\ IsInjective(stack)
    BY DEF IInv, TypeOK, NeverNested, Kinds
  <1>2. k \notin ToSet(stack)
    BY DEF OtaReceives, NtpWaits, IInv, NeverNested
  <1>3. stack' = <<k>> \o stack
    BY DEF OtaReceives, NtpWaits
  <1>4. /\ stack' \in Seq(Kinds) /\ IsInjective(stack')
        /\ ToSet(stack') = ToSet(stack) \cup {k} /\ Len(stack') <= 2
    BY <1>1, <1>2, <1>3, PushFacts, StackDepth
  <1>5. /\ UNCHANGED <<netVars, eventVars, knxVars, checkVars, synced>>
        /\ otaAllowed' \in BOOLEAN /\ pc' = "start"
        /\ otaHandle' \in BOOLEAN /\ syncing' \in BOOLEAN
    BY DEF OtaReceives, NtpWaits, Steps, IInv, TypeOK
  <1>6. TypeOK'
    BY <1>4, <1>5 DEF IInv, TypeOK, netVars, eventVars, knxVars, checkVars, Kinds
  <1>7. NeverNested'
    <2>1. CASE OtaReceives
      <3>1. otaHandle' = TRUE /\ syncing' = syncing /\ k = "ota"
        BY <2>1 DEF OtaReceives
      <3>2. /\ ("ota" \in ToSet(stack')) = TRUE
            /\ ("ntp" \in ToSet(stack')) = ("ntp" \in ToSet(stack))
        BY <1>4, <3>1
      <3>3. syncing = ("ntp" \in ToSet(stack))
        BY DEF IInv, NeverNested
      <3>4. otaHandle' = ("ota" \in ToSet(stack')) /\ syncing' = ("ntp" \in ToSet(stack'))
        BY ONLY <3>1, <3>2, <3>3
      <3> QED
        BY <1>4, <3>4 DEF NeverNested
    <2>2. CASE NtpWaits /\ ~OtaReceives
      <3>1. syncing' = TRUE /\ otaHandle' = otaHandle /\ k = "ntp"
        BY <2>2 DEF NtpWaits
      <3>2. /\ ("ntp" \in ToSet(stack')) = TRUE
            /\ ("ota" \in ToSet(stack')) = ("ota" \in ToSet(stack))
        BY <1>4, <3>1
      <3>3. otaHandle = ("ota" \in ToSet(stack))
        BY DEF IInv, NeverNested
      <3>4. otaHandle' = ("ota" \in ToSet(stack')) /\ syncing' = ("ntp" \in ToSet(stack'))
        BY ONLY <3>1, <3>2, <3>3
      <3> QED
        BY <1>4, <3>4 DEF NeverNested
    <2> QED
      BY <2>1, <2>2
  <1> QED
    BY <1>5, <1>6, <1>7 DEF IInv, ToldInTurn, checkVars

\* The innermost call returns.
LEMMA ReturnStep ==
    ASSUME IInv, Returns
    PROVE  IInv'
  <1>1. stack \in Seq(Kinds) /\ IsInjective(stack) /\ stack # <<>>
    BY DEF Returns, OtaReturns, NtpReturns, IInv, TypeOK, NeverNested, Kinds
  <1>2. stack' = Tail(stack)
    BY DEF Returns, OtaReturns, NtpReturns
  <1>3. /\ stack' \in Seq(Kinds) /\ IsInjective(stack')
        /\ ToSet(stack') = ToSet(stack) \ {stack[1]} /\ Len(stack') <= 2
    BY <1>1, <1>2, PopFacts, StackDepth
  <1>4. /\ UNCHANGED <<netVars, eventVars, knxVars, checkVars, otaAllowed>>
        /\ pc' \in {"ntp", "end"} /\ otaHandle' \in BOOLEAN /\ syncing' \in BOOLEAN
        /\ synced' \in BOOLEAN
    BY DEF Returns, OtaReturns, NtpReturns, Steps, IInv, TypeOK
  <1>5. TypeOK'
    BY <1>3, <1>4 DEF IInv, TypeOK, netVars, eventVars, knxVars, checkVars, Kinds
  <1>6. NeverNested'
    <2>1. CASE OtaReturns
      <3>1. otaHandle' = FALSE /\ syncing' = syncing /\ stack[1] = "ota"
        BY <2>1 DEF OtaReturns
      <3>2. "ota" \notin ToSet(stack') /\ ("ntp" \in ToSet(stack') <=> "ntp" \in ToSet(stack))
        BY <1>3, <3>1
      <3> QED
        BY <1>3, <1>4, <3>1, <3>2 DEF IInv, NeverNested
    <2>2. CASE NtpReturns
      <3>1. syncing' = FALSE /\ otaHandle' = otaHandle /\ stack[1] = "ntp"
        BY <2>2 DEF NtpReturns
      <3>2. "ntp" \notin ToSet(stack') /\ ("ota" \in ToSet(stack') <=> "ota" \in ToSet(stack))
        BY <1>3, <3>1
      <3> QED
        BY <1>3, <1>4, <3>1, <3>2 DEF IInv, NeverNested
    <2> QED
      BY <2>1, <2>2 DEF Returns
  <1> QED
    BY <1>4, <1>5, <1>6 DEF IInv, ToldInTurn, checkVars

\* Every step keeps the invariant.
LEMMA NextStep ==
    ASSUME NetworkModuleAssumption, IInv, [Next]_vars
    PROVE  IInv'
  <1>1. CASE UNCHANGED vars
    BY <1>1 DEF vars, netVars, eventVars, knxVars, checkVars, nestVars, IInv, TypeOK,
                NeverNested, ToldInTurn
  <1>2. CASE Next
    BY <1>2, InterfaceStep, EventTaskStep, CheckStep, PlainStep, NestStep, ReturnStep
       DEF Next, Loop
  <1> QED
    BY <1>1, <1>2

\* The inductive invariant, for every value of the constants.
THEOREM Invariance == Spec => []IInv
  <1>1. Init => IInv
    BY InitInv, NetworkModuleAssumption
  <1>2. IInv /\ [Next]_vars => IInv'
    BY NextStep, NetworkModuleAssumption
  <1> QED
    BY <1>1, <1>2, PTL DEF Spec

\* Every variable keeps its type; loop() is never more than three deep.
THEOREM TypeCorrect == Spec => []TypeOK
  BY Invariance, PTL DEF IInv

\* Neither an update nor a synchronisation runs inside itself, and their
\* guards are up exactly while they run.
THEOREM Nesting == Spec => []NeverNested
  BY Invariance, PTL DEF IInv

\* The callbacks hear of the network and of its loss in turn.
THEOREM Telling == Spec => []ToldInTurn
  BY Invariance, PTL DEF IInv
=============================================================================
