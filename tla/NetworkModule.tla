---------------------------- MODULE NetworkModule ----------------------------
(***************************************************************************)
(* Module.cpp and NtpTimeProvider.cpp.  The module watches the network     *)
(* interface: on ESP32 through events, which another task handles in the   *)
(* order they came, and on both platforms through checkLinkStatus(), every *)
(* 500 ms in loop().  On ESP32 both open and close the multicast socket of *)
(* the KNX stack.  An update over the air and the NTP client call          *)
(* openknx.loop() while they wait, so that loop() runs inside loop().      *)
(***************************************************************************)
EXTENDS Integers, Sequences, FiniteSets, SequencesExt

CONSTANTS
    Ip,         \* addresses the interface may get
    NoIp,       \* 0.0.0.0
    Platforms,  \* the platforms a behaviour may be of: "ESP32", "RP2040"
    OtaUpdate,  \* ParamNET_OTAUpdate on each: 0 in prog mode, 1 always, 2 off
    Ntp,        \* platforms with NTP configured
    MaxChanges, \* bound: changes of the interface, of power and of prog mode
    MaxEvents   \* bound: events that wait

ASSUME NetworkModuleAssumption ==
    /\ NoIp \notin Ip /\ Platforms \subseteq {"ESP32", "RP2040"}
    /\ OtaUpdate \in [Platforms -> 0..2] /\ Ntp \subseteq Platforms
    /\ MaxChanges \in Nat /\ MaxEvents \in Nat

VARIABLES
    platform,
    link, ip,     \* the interface KNX_NETIF
    events,       \* events of the interface that wait for the event task
    handler,      \* where esp32NetworkEvent() is, and the address it read
    espConnected,
    boundIp,      \* _boundIp
    knx,          \* whether the KNX socket is open, and to which address
    pc,           \* where the innermost loop() is
    seen,         \* checkLinkStatus(): establishedState
    newLink,      \* ... and newLinkState
    currentLink,  \* _currentLinkState
    shown,        \* _ipShown
    told,         \* the last value given to the registered callbacks (ghost)
    led,          \* _ipLedState
    heartbeat,    \* the network bit of the heartbeat
    powerSave,    \* _powerSave
    progMode,
    otaAllowed,   \* _otaAllowed, and ArduinoOTA begun
    otaHandle,    \* _otaHandle
    syncing,      \* _syncInProgress
    synced,       \* _lastSync is set
    stack,        \* the calls loop() runs inside of, innermost first (ghost)
    changes       \* changes there were (bound)

netVars   == <<platform, link, ip, events, powerSave, progMode, changes>>
eventVars == <<handler, espConnected>>
knxVars   == <<boundIp, knx>>
checkVars == <<seen, newLink, currentLink, shown, told, led, heartbeat>>
nestVars  == <<otaAllowed, otaHandle, syncing, synced, stack>>
vars == <<netVars, eventVars, knxVars, pc, checkVars, nestVars>>

Closed == [on |-> FALSE, ip |-> NoIp]

\* The KNX stack has opened its socket when the first loop() runs.
Init ==
    /\ platform \in Platforms
    /\ link = FALSE /\ ip = NoIp /\ events = <<>>
    /\ handler = [at |-> "idle", ip |-> NoIp] /\ espConnected = FALSE
    /\ boundIp = NoIp /\ knx = [on |-> TRUE, ip |-> NoIp]
    /\ pc = "start" /\ seen = FALSE /\ newLink = FALSE /\ currentLink = FALSE
    /\ shown = FALSE /\ told = "nothing" /\ led = "none" /\ heartbeat = FALSE
    /\ powerSave = FALSE /\ progMode = FALSE
    /\ otaAllowed = FALSE /\ otaHandle = FALSE
    /\ syncing = FALSE /\ synced = FALSE /\ stack = <<>> /\ changes = 0

\* connected() and established().
Connected == ~powerSave /\ IF platform = "ESP32" THEN espConnected ELSE link
Established == Connected /\ ip # NoIp

\* The KNX stack opens a socket bound to the address of the moment, or closes
\* it; what is so already stays.
SetsKnx(enable) ==
    knx' = IF ~enable THEN Closed
           ELSE IF knx.on THEN knx ELSE [on |-> TRUE, ip |-> ip]

\* Mutant: closing the socket leaves _boundIp as it was.
ControlKnxIpKeepsBound(enable) == SetsKnx(enable) /\ UNCHANGED boundIp

\* controlKnxIp(), where nothing comes between its two steps.
ControlKnxIp(enable) ==
    /\ SetsKnx(enable)
    /\ boundIp' = IF enable THEN boundIp ELSE NoIp

-----------------------------------------------------------------------------
(* The interface.  RP2040 has no events.                                   *)

HandlerAt(where) == handler.at = where

Happens(event) ==
    /\ changes < MaxChanges /\ changes' = changes + 1
    /\ IF platform = "ESP32"
       THEN Len(events) < MaxEvents /\ events' = Append(events, event)
       ELSE UNCHANGED events
    /\ UNCHANGED <<platform, powerSave, progMode, eventVars, knxVars, pc, checkVars,
                   nestVars>>

\* The link is back; an address kept through a short loss gives no GOT_IP.
LinkUp == ~link /\ link' = TRUE /\ UNCHANGED ip /\ Happens("connected")

LinkDown ==
    /\ link /\ link' = FALSE
    /\ ip' \in {ip, NoIp}
    /\ Happens("disconnected")

\* An exchange with the DHCP server is slower than esp32NetworkEvent(): the
\* event of an address is handled before there is another address.
GetsIp ==
    /\ link /\ HandlerAt("idle") /\ "gotIp" \notin ToSet(events)
    /\ ip' \in Ip \ {ip}
    /\ UNCHANGED link /\ Happens("gotIp")

\* The DHCP lease is renewed: a GOT_IP too.
Renews == link /\ ip # NoIp /\ UNCHANGED <<link, ip>> /\ Happens("renewed")

\* The interface loses its address; a start of the interface is handled alike.
LosesIp == ip # NoIp /\ ip' = NoIp /\ UNCHANGED link /\ Happens("lostIp")

\* savePower() and restorePower(), and the prog mode.
Switches ==
    /\ changes < MaxChanges /\ changes' = changes + 1
    /\ \/ powerSave' = ~powerSave /\ UNCHANGED progMode
       \/ progMode' = ~progMode /\ UNCHANGED powerSave
    /\ UNCHANGED <<platform, link, ip, events, eventVars, knxVars, pc, checkVars,
                   nestVars>>

-----------------------------------------------------------------------------
(* esp32NetworkEvent(), in the event task.                                 *)

Handles(kinds) == HandlerAt("idle") /\ events # <<>> /\ events[1] \in kinds
Takes == events' = Tail(events)

OnConnected ==
    /\ Handles({"connected"}) /\ Takes
    /\ espConnected' = TRUE
    /\ UNCHANGED <<platform, link, ip, powerSave, progMode, changes, handler,
                   knxVars, pc, checkVars, nestVars>>

\* GOT_IP with the address the socket is known to be bound to.
OnSameIp ==
    /\ Handles({"gotIp", "renewed"}) /\ Takes /\ ip = boundIp
    /\ UNCHANGED <<platform, link, ip, powerSave, progMode, changes, eventVars,
                   knxVars, pc, checkVars, nestVars>>

\* GOT_IP with another one: the socket is closed ...
OnGotIp ==
    /\ Handles({"gotIp", "renewed"}) /\ Takes /\ ip # boundIp
    /\ ControlKnxIp(FALSE)
    /\ handler' = [at |-> "open", ip |-> ip]
    /\ UNCHANGED <<platform, link, ip, powerSave, progMode, changes, espConnected,
                   pc, checkVars, nestVars>>

\* ... opened ...
OpensKnx ==
    /\ HandlerAt("open")
    /\ ControlKnxIp(TRUE)
    /\ handler' = [handler EXCEPT !.at = "note"]
    /\ UNCHANGED <<netVars, espConnected, pc, checkVars, nestVars>>

\* ... and the address that was read noted.
NotesIp ==
    /\ HandlerAt("note")
    /\ boundIp' = handler.ip
    /\ handler' = [at |-> "idle", ip |-> NoIp]
    /\ UNCHANGED <<netVars, espConnected, knx, pc, checkVars, nestVars>>

OnLostIp ==
    /\ Handles({"lostIp"}) /\ Takes
    /\ ControlKnxIp(FALSE)
    /\ UNCHANGED <<platform, link, ip, powerSave, progMode, changes, eventVars,
                   pc, checkVars, nestVars>>

\* DISCONNECTED or STOP: the socket first, then the flag.
OnDisconnected ==
    /\ Handles({"disconnected"}) /\ Takes
    /\ ControlKnxIp(FALSE)
    /\ handler' = [handler EXCEPT !.at = "down"]
    /\ UNCHANGED <<platform, link, ip, powerSave, progMode, changes, espConnected,
                   pc, checkVars, nestVars>>

GoesDown ==
    /\ HandlerAt("down")
    /\ espConnected' = FALSE
    /\ handler' = [at |-> "idle", ip |-> NoIp]
    /\ UNCHANGED <<netVars, knxVars, pc, checkVars, nestVars>>

-----------------------------------------------------------------------------
(* loop() and checkLinkStatus().  A step reads the state it finds, which   *)
(* the event task may have changed since the step before.                  *)

Steps(from, to) == pc = from /\ pc' = to

\* In power save loop() returns; less than 500 ms after the last check the
\* rest of it runs.
LoopReturns == /\ powerSave /\ Steps("start", "ntp")
               /\ UNCHANGED <<netVars, eventVars, knxVars, checkVars, nestVars>>

CheckNotDue == /\ ~powerSave /\ Steps("start", "ota")
               /\ UNCHANGED <<netVars, eventVars, knxVars, checkVars, nestVars>>

CheckReads ==
    /\ ~powerSave /\ Steps("start", "control")
    /\ seen' = Established
    /\ UNCHANGED <<netVars, eventVars, knxVars, newLink, currentLink, shown, told,
                   led, heartbeat, nestVars>>

\* RP2040 has no events and leaves the socket to the KNX stack.
CheckControls ==
    /\ Steps("control", IF platform = "ESP32" /\ ~seen THEN "forget" ELSE "led")
    /\ IF platform = "ESP32" THEN SetsKnx(seen) ELSE UNCHANGED knx
    /\ UNCHANGED <<netVars, eventVars, boundIp, checkVars, nestVars>>

CheckForgets ==
    /\ Steps("forget", "led")
    /\ boundIp' = NoIp
    /\ UNCHANGED <<netVars, eventVars, knx, checkVars, nestVars>>

\* newLinkState, and the LED.
CheckLed ==
    /\ Steps("led", "tell")
    /\ newLink' = (seen \/ Connected)
    /\ led' = IF newLink' /\ Established THEN "green"
              ELSE IF newLink' THEN "yellow" ELSE "red"
    /\ UNCHANGED <<netVars, eventVars, knxVars, seen, currentLink, shown, told,
                   heartbeat, nestVars>>

\* Mutant: a lost link does not clear _ipShown.
CheckTellsKeepsShown ==
    /\ Steps("tell", "beat")
    /\ currentLink' = newLink
    /\ LET lost == ~newLink /\ currentLink
           got  == newLink /\ ~shown /\ Established
       IN  /\ shown' = (shown \/ got)
           /\ told' = IF got THEN "up" ELSE IF lost THEN "down" ELSE told
    /\ UNCHANGED <<netVars, eventVars, knxVars, seen, newLink, led, heartbeat,
                   nestVars>>

\* The callbacks: false when the link is lost, true by checkIpStatus() when
\* there is an address for the first time since.
CheckTells ==
    /\ Steps("tell", "beat")
    /\ currentLink' = newLink
    /\ LET lost == ~newLink /\ currentLink
           got  == newLink /\ ~shown /\ Established
       IN  /\ shown' = ((shown /\ ~lost) \/ got)
           /\ told' = IF got THEN "up" ELSE IF lost THEN "down" ELSE told
    /\ UNCHANGED <<netVars, eventVars, knxVars, seen, newLink, led, heartbeat,
                   nestVars>>

CheckBeats ==
    /\ Steps("beat", "ota")
    /\ heartbeat' = Established
    /\ UNCHANGED <<netVars, eventVars, knxVars, seen, newLink, currentLink, shown,
                   told, led, nestVars>>

\* resetNetwork(), a console command: the socket is closed, the interface
\* restarted with a delay, and the socket opened whether there is a link or not.
ResetNetwork ==
    /\ Steps("start", "reset")
    /\ changes < MaxChanges /\ changes' = changes + 1
    /\ link' = FALSE /\ ip' = NoIp
    /\ IF platform = "ESP32"
       THEN Len(events) < MaxEvents /\ events' = Append(events, "disconnected")
       ELSE UNCHANGED events
    /\ ControlKnxIp(FALSE)
    /\ UNCHANGED <<platform, powerSave, progMode, eventVars, checkVars, nestVars>>

ResetOpens ==
    /\ Steps("reset", "start")
    /\ SetsKnx(TRUE)
    /\ UNCHANGED <<netVars, eventVars, boundIp, checkVars, nestVars>>

-----------------------------------------------------------------------------
(* handleOTA(), NtpTimeProvider::loop(), and loop() inside them.           *)

Allowed == OtaUpdate[platform] = 1 \/ (OtaUpdate[platform] = 0 /\ progMode)

\* ArduinoOTA.begin() or end(), and no handle(): not allowed, or inside one;
\* or handle() finds nothing to do.
OtaIdle ==
    /\ Steps("ota", "ntp")
    /\ otaAllowed' = Allowed
    /\ UNCHANGED <<netVars, eventVars, knxVars, checkVars, otaHandle, syncing,
                   synced, stack>>

\* Mutant: handle() inside handle().
OtaReceivesAgain ==
    /\ Steps("ota", "start") /\ Allowed /\ Len(stack) < 3
    /\ otaAllowed' = TRUE /\ otaHandle' = TRUE
    /\ stack' = <<"ota">> \o stack
    /\ UNCHANGED <<netVars, eventVars, knxVars, checkVars, syncing, synced>>

\* handle() receives an update; onProgress calls openknx.loop().
OtaReceives ==
    /\ Steps("ota", "start") /\ Allowed /\ ~otaHandle
    /\ otaAllowed' = TRUE /\ otaHandle' = TRUE
    /\ stack' = <<"ota">> \o stack
    /\ UNCHANGED <<netVars, eventVars, knxVars, checkVars, syncing, synced>>

NtpIdle ==
    /\ Steps("ntp", "end")
    /\ \/ platform \notin Ntp \/ platform = "ESP32" \/ syncing
       \/ ~Established \/ synced
    /\ UNCHANGED <<netVars, eventVars, knxVars, checkVars, nestVars>>

\* Mutant: waitSet() inside waitSet().
NtpWaitsAgain ==
    /\ Steps("ntp", "start") /\ Len(stack) < 3
    /\ platform \in Ntp /\ platform = "RP2040" /\ Established
    /\ syncing' = TRUE
    /\ stack' = <<"ntp">> \o stack
    /\ UNCHANGED <<netVars, eventVars, knxVars, checkVars, otaAllowed, otaHandle,
                   synced>>

\* Never synchronised, or an hour ago: NTP.waitSet() calls openknx.loop().
NtpWaits ==
    /\ Steps("ntp", "start")
    /\ platform \in Ntp /\ platform = "RP2040" /\ ~syncing /\ Established
    /\ syncing' = TRUE
    /\ stack' = <<"ntp">> \o stack
    /\ UNCHANGED <<netVars, eventVars, knxVars, checkVars, otaAllowed, otaHandle,
                   synced>>

\* The end of openknx.loop(): of the main loop, or one of those nested, after
\* which more of the update is received or waited for.
LoopEnds ==
    /\ Steps("end", "start")
    /\ UNCHANGED <<netVars, eventVars, knxVars, checkVars, nestVars>>

\* The transfer is over; the loop() around goes on.
OtaReturns ==
    /\ stack # <<>> /\ stack[1] = "ota" /\ Steps("end", "ntp")
    /\ otaHandle' = FALSE /\ stack' = Tail(stack)
    /\ UNCHANGED <<netVars, eventVars, knxVars, checkVars, otaAllowed, syncing, synced>>

\* The time is set, or waitSet() timed out.
NtpReturns ==
    /\ stack # <<>> /\ stack[1] = "ntp" /\ pc = "end" /\ UNCHANGED pc
    /\ syncing' = FALSE /\ synced' = TRUE /\ stack' = Tail(stack)
    /\ UNCHANGED <<netVars, eventVars, knxVars, checkVars, otaAllowed, otaHandle>>

-----------------------------------------------------------------------------
Interface == LinkUp \/ LinkDown \/ GetsIp \/ Renews \/ LosesIp \/ Switches

EventTask == \/ OnConnected \/ OnSameIp \/ OnGotIp \/ OpensKnx \/ NotesIp
             \/ OnLostIp \/ OnDisconnected \/ GoesDown

Returns == OtaReturns \/ NtpReturns

Check == CheckReads \/ CheckControls \/ CheckForgets \/ CheckLed \/ CheckTells \/ CheckBeats

Loop == \/ ResetOpens \/ LoopReturns \/ CheckNotDue \/ Check
        \/ OtaIdle \/ OtaReceives \/ NtpIdle \/ NtpWaits \/ LoopEnds \/ Returns

Next == Interface \/ EventTask \/ Loop \/ ResetNetwork

Spec == Init /\ [][Next]_vars

(* The event task and loop() go on, a check is due again and again, and    *)
(* updates and waits end.                                                  *)
Fairness ==
    /\ WF_vars(EventTask) /\ WF_vars(Loop)
    /\ SF_vars(CheckReads) /\ SF_vars(Returns)

FairSpec == Spec /\ Fairness

-----------------------------------------------------------------------------
(* Properties.                                                             *)

\* Every variable has its type.
TypeOK ==
    /\ platform \in Platforms /\ link \in BOOLEAN /\ ip \in Ip \cup {NoIp}
    /\ events \in Seq({"connected", "disconnected", "gotIp", "renewed", "lostIp"})
    /\ Len(events) <= MaxEvents
    /\ handler \in [at : {"idle", "open", "note", "down"}, ip : Ip \cup {NoIp}]
    /\ espConnected \in BOOLEAN /\ boundIp \in Ip \cup {NoIp}
    /\ knx \in [on : BOOLEAN, ip : Ip \cup {NoIp}]
    /\ pc \in {"start", "reset", "control", "forget", "led", "tell", "beat", "ota", "ntp", "end"}
    /\ {seen, newLink, currentLink, shown, heartbeat, powerSave, progMode,
        otaAllowed, otaHandle, syncing, synced} \subseteq BOOLEAN
    /\ told \in {"nothing", "up", "down"} /\ led \in {"none", "green", "yellow", "red"}
    /\ stack \in Seq({"ota", "ntp"}) /\ Len(stack) <= 2
    /\ changes \in 0..MaxChanges

\* Neither an update nor a synchronisation runs inside itself, through however
\* many loops in between; the guards are up exactly while they run.
NeverNested ==
    /\ IsInjective(stack)
    /\ otaHandle = ("ota" \in ToSet(stack)) /\ syncing = ("ntp" \in ToSet(stack))

\* Whoever was told that the network is there is told of the loss of the link
\* before it is told again.
ToldInTurn ==
    /\ shown = (told = "up")
    /\ told = "up" => currentLink

\* Once the interface is left alone, all that is derived from it is right: on
\* ESP32 the KNX socket is open exactly when there is an address, and bound to
\* it; the callbacks, the LED and the heartbeat agree.
Settles ==
    <>[](~powerSave =>
            /\ platform = "ESP32" =>
                  knx = IF Established THEN [on |-> TRUE, ip |-> ip] ELSE Closed
            /\ Established => told = "up" /\ led = "green"
            /\ ~Established => led # "green"
            /\ ~Connected => told # "up"
            /\ heartbeat = Established)
=============================================================================
