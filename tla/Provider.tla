------------------------------ MODULE Provider ------------------------------
(***************************************************************************)
(* The BlueZ battery provider (daemon/src/battery_provider.cpp), fed by the *)
(* pump (module Feed), and as much of bluetoothd as it talks to: the battery*)
(* manager it registers with, and the one battery it has bluetoothd show.  *)
(*                                                                         *)
(* An action is one dispatch of the daemon's main loop.  Messages in each  *)
(* direction are delivered in order; GetManagedObjects on bluetoothd is    *)
(* synchronous and overtakes them.  adapter_ is not kept: it is the target *)
(* of the call that follows resolve_paths(), and nothing else reads it     *)
(* before the destructor.                                                  *)
(***************************************************************************)
EXTENDS Feed, Integers, Sequences, FiniteSetsExt, Functions

CONSTANTS
    NoLevel,            \* a component without a readable level
    Paths,              \* object paths bluetoothd may give the device
    NoPath,             \* no such device: the empty path
    ScanMayFail,        \* may GetManagedObjects time out with bluetoothd up?
    ReplyMayTimeOut,    \* may RegisterBatteryProvider succeed unheard?
    AdapterMayMove,     \* may the adapter come and go under bluetoothd?
    DeviceMayMove,      \* may the device be removed under bluetoothd?
    MaxEvents,          \* bound: things bluetoothd does by itself
    QueueCap            \* bound: undelivered messages to bluetoothd

ASSUME ProviderAssumption ==
    /\ NoPath \notin Paths
    /\ NoReading \notin Readings
    /\ NoLevel \notin Nat
    /\ \A r \in Readings : \A c \in DOMAIN r : r[c] \in Nat \cup {NoLevel}
    /\ {ScanMayFail, ReplyMayTimeOut, AdapterMayMove, DeviceMayMove}
           \subseteq BOOLEAN
    /\ MaxEvents \in Nat /\ QueueCap \in Nat

VARIABLES
    registered,     \* registered_
    device,         \* device_
    exported,       \* exported_
    objectReg,      \* battery_reg_ # 0
    percentage,     \* percentage_
    source,         \* source_
    bluez,          \* bluetoothd: [up, mgr, dev, client, shown] (external)
    toBluez,        \* undelivered messages to bluetoothd (external)
    fromBluez,      \* undispatched messages from it (external)
    events,         \* bound: how many things bluetoothd has done by itself
    fresh,          \* history: a report has come since the channel opened
    trouble         \* history: faults met since this bluetoothd started

announced == <<exported, objectReg, percentage, source>>
providerVars == <<registered, device, announced>>
busVars == <<bluez, toBluez, fromBluez, events, trouble>>
feedVars == <<feed, fresh>>
vars == <<feedVars, providerVars, busVars>>

-----------------------------------------------------------------------------
(***************************************************************************)
(* The number.  A reading maps each component the report holds to its level*)
(* or to NoLevel.                                                          *)
(***************************************************************************)
Components(b) == IF b = NoReading THEN <<>> ELSE b

Readable(b, comps) ==
    {c \in comps \cap DOMAIN Components(b) : Components(b)[c] # NoLevel}

\* derive_percentage(): the lower of the pods that can be read.
DerivePercentage(b) ==
    LET pods == Readable(b, {"left", "right"})
    IN  IF pods = {} THEN NoLevel ELSE Min({b[c] : c \in pods})

\* derive_source(): the string names every component of the report with its
\* level, or with -- for none, and so tells apart what the reading tells apart.
DeriveSource(b) == Components(b)

Percentages == ({DerivePercentage(r) : r \in Readings} \cup {0}) \ {NoLevel}

-----------------------------------------------------------------------------
(***************************************************************************)
(* Messages.                                                               *)
(***************************************************************************)
Msg(kind, dev, pct) == [kind |-> kind, dev |-> dev, pct |-> pct]

ToBluez ==
    [kind : {"register", "added", "changed", "removed", "objects"},
     dev : Paths \cup {NoPath}, pct : Percentages \cup {NoLevel}]

FromBluez == {"appeared", "vanished", "registered", "refused", "getObjects"}

\* What the code has no remedy for until bluetoothd restarts: a scan that failed
\* when there was a manager to find, a reply that was lost, an adapter that left,
\* a device removed after device_ held its path, which is looked up only while it
\* is empty, and a registration that overtook the news of the restart before it.
Troubles == {"scan", "reply", "adapter", "device", "overtaken"}
Meets(t) == trouble' = trouble \cup {t}

NoBluez ==
    [up |-> FALSE, mgr |-> FALSE, dev |-> NoPath, client |-> FALSE,
     shown |-> NoLevel]

\* A bluetoothd that has just started, with or without an adapter.
NewBluez ==
    [up : {TRUE}, mgr : BOOLEAN, dev : Paths \cup {NoPath}, client : {FALSE},
     shown : {NoLevel}]

Init ==
    /\ FeedInit
    /\ registered = FALSE
    /\ device = NoPath
    /\ exported = FALSE
    /\ objectReg = FALSE
    /\ percentage = 0
    /\ source = <<>>
    /\ bluez \in NewBluez \cup {NoBluez}
    /\ toBluez = <<>>
    /\ fromBluez = <<IF bluez.up THEN "appeared" ELSE "vanished">>
    /\ events = 0
    /\ fresh = FALSE
    /\ trouble = {}

\* Signals go to whoever is there.
Send(m) == toBluez' = IF bluez.up THEN Append(toBluez, m) ELSE toBluez

-----------------------------------------------------------------------------
(***************************************************************************)
(* publish()                                                               *)
(***************************************************************************)
\* add_object(): the bus refuses a second object at the same path.
AddObject ==
    IF objectReg
    THEN UNCHANGED <<exported, objectReg, toBluez>>
    ELSE /\ objectReg' = TRUE
         /\ exported' = TRUE
         /\ Send(Msg("added", device', percentage'))

\* Mutant: the object is dropped without a word to bluetoothd.
RemoveObjectSilently ==
    /\ exported' = FALSE
    /\ objectReg' = IF exported THEN FALSE ELSE objectReg
    /\ UNCHANGED toBluez

RemoveObject ==
    /\ exported' = FALSE
    /\ objectReg' = IF exported THEN FALSE ELSE objectReg
    /\ IF exported THEN Send(Msg("removed", NoPath, NoLevel))
                   ELSE UNCHANGED toBluez

EmitPropertiesChanged ==
    /\ IF percentage' # percentage \/ source' # source
       THEN Send(Msg("changed", device', percentage'))
       ELSE UNCHANGED toBluez
    /\ UNCHANGED <<exported, objectReg>>

\* What resolve_paths() may leave in an empty device_.
Resolvable == {bluez.dev} \cup (IF ScanMayFail THEN {NoPath} ELSE {})

\* Mutant: a closed channel does not withdraw the reading.
PublishThoughClosed ==
    IF ~registered
    THEN UNCHANGED <<providerVars, toBluez>>
    ELSE LET pct == DerivePercentage(feed'.battery) IN
         /\ device' \in IF device = NoPath THEN Resolvable ELSE {device}
         /\ IF pct = NoLevel \/ device' = NoPath
            THEN RemoveObject /\ UNCHANGED <<percentage, source>>
            ELSE /\ percentage' = pct
                 /\ source' = DeriveSource(feed'.battery)
                 /\ IF exported THEN EmitPropertiesChanged ELSE AddObject
         /\ UNCHANGED registered

\* Mutant: a report without a readable pod is announced like any other.
PublishUnreadable ==
    IF ~registered
    THEN UNCHANGED <<providerVars, toBluez>>
    ELSE LET pct == DerivePercentage(feed'.battery) IN
         /\ device' \in IF device = NoPath THEN Resolvable ELSE {device}
         /\ IF ~feed'.open \/ device' = NoPath
            THEN RemoveObject /\ UNCHANGED <<percentage, source>>
            ELSE /\ percentage' = pct
                 /\ source' = DeriveSource(feed'.battery)
                 /\ IF exported THEN EmitPropertiesChanged ELSE AddObject
         /\ UNCHANGED registered

\* Mutant: a percentage that has not moved is not announced again.
PublishUnlessUnmoved ==
    IF ~registered
    THEN UNCHANGED <<providerVars, toBluez>>
    ELSE LET pct == DerivePercentage(feed'.battery) IN
         /\ device' \in IF device = NoPath THEN Resolvable ELSE {device}
         /\ IF ~feed'.open \/ pct = NoLevel \/ device' = NoPath
            THEN RemoveObject /\ UNCHANGED <<percentage, source>>
            ELSE /\ percentage' = pct
                 /\ source' = DeriveSource(feed'.battery)
                 /\ IF exported \/ pct = percentage
                    THEN EmitPropertiesChanged ELSE AddObject
         /\ UNCHANGED registered

\* publish(), of the State the feed now holds.
Publish ==
    IF ~registered
    THEN UNCHANGED <<providerVars, toBluez>>
    ELSE LET pct == DerivePercentage(feed'.battery) IN
         /\ device' \in IF device = NoPath THEN Resolvable ELSE {device}
         /\ IF ~feed'.open \/ pct = NoLevel \/ device' = NoPath
            THEN RemoveObject /\ UNCHANGED <<percentage, source>>
            ELSE /\ percentage' = pct
                 /\ source' = DeriveSource(feed'.battery)
                 /\ IF exported THEN EmitPropertiesChanged ELSE AddObject
         /\ UNCHANGED registered

\* The pump publishes.
Published(isFresh) ==
    /\ Len(toBluez) < QueueCap
    /\ Publish
    /\ fresh' = isFresh
    /\ UNCHANGED <<bluez, fromBluez, events, trouble>>

ChannelOpens == FeedOpens /\ Published(FALSE)
ChannelCloses == FeedCloses /\ Published(FALSE)
PodsReport == FeedReports /\ Published(TRUE)
PumpRepeats == FeedRepeats /\ Published(fresh)

-----------------------------------------------------------------------------
(***************************************************************************)
(* The registration.                                                       *)
(***************************************************************************)
Receive(kind) ==
    /\ fromBluez # <<>>
    /\ Head(fromBluez) = kind
    /\ fromBluez' = Tail(fromBluez)
    /\ UNCHANGED <<feedVars, bluez, events>>

\* register_with_bluez(): a scan that fails, one that finds no manager, or one
\* that does and the asynchronous call that follows it.
ScanFails ==
    /\ \/ ScanMayFail /\ bluez.up /\ Meets("scan")
       \/ ~bluez.up /\ UNCHANGED trouble
    /\ UNCHANGED <<device, toBluez>>

\* bluetoothd has gone, or been replaced, since it sent the message at the head
\* of the queue.
SenderGone == "vanished" \in Range(Tail(fromBluez))

ScanRegisters ==
    /\ bluez.up
    /\ device' = bluez.dev
    /\ IF bluez.mgr THEN Send(Msg("register", NoPath, NoLevel))
                    ELSE UNCHANGED toBluez
    /\ IF SenderGone THEN Meets("overtaken") ELSE UNCHANGED trouble

OnBluezAppeared ==
    /\ Receive("appeared")
    /\ IF registered
       THEN UNCHANGED <<device, toBluez, trouble>>
       ELSE ScanFails \/ ScanRegisters
    /\ UNCHANGED <<registered, announced>>

\* Mutant: registered_ survives bluetoothd.
OnBluezVanishedKeepsFlag ==
    /\ Receive("vanished")
    /\ device' = NoPath
    /\ exported' = FALSE
    /\ objectReg' = FALSE
    /\ UNCHANGED <<registered, percentage, source, toBluez, trouble>>

\* Mutant: the exported object outlives the announcement.
OnBluezVanishedKeepsObject ==
    /\ Receive("vanished")
    /\ registered' = FALSE
    /\ device' = NoPath
    /\ exported' = FALSE
    /\ UNCHANGED <<objectReg, percentage, source, toBluez, trouble>>

OnBluezVanished ==
    /\ Receive("vanished")
    /\ registered' = FALSE
    /\ device' = NoPath
    /\ exported' = FALSE
    /\ objectReg' = FALSE
    /\ UNCHANGED <<percentage, source, toBluez, trouble>>

\* on_register_done(): the flag is set, and nothing is published.
OnRegisterDone ==
    /\ \/ Receive("registered") /\ registered' = TRUE
       \/ Receive("refused") /\ UNCHANGED registered
    /\ UNCHANGED <<device, announced, toBluez, trouble>>

\* Mutant: GetManagedObjects always answers with the object.
OmMethodCallAlways ==
    /\ Receive("getObjects")
    /\ IF SenderGone
       THEN UNCHANGED toBluez
       ELSE Send(Msg("objects", device, percentage))
    /\ UNCHANGED <<providerVars, trouble>>

\* om_method_call(): the object is in the answer while it is announced; nobody
\* gets an answer to a question of the bluetoothd before.
OmMethodCall ==
    /\ Receive("getObjects")
    /\ IF SenderGone
       THEN UNCHANGED toBluez
       ELSE Send(Msg("objects", device, IF exported THEN percentage ELSE NoLevel))
    /\ UNCHANGED <<providerVars, trouble>>

-----------------------------------------------------------------------------
(***************************************************************************)
(* bluetoothd.                                                             *)
(***************************************************************************)
Delivered(kinds) ==
    /\ toBluez # <<>>
    /\ Head(toBluez).kind \in kinds
    /\ toBluez' = Tail(toBluez)
    /\ UNCHANGED <<feedVars, providerVars, events>>

\* RegisterBatteryProvider: a client that is new is asked for its objects.
BluezRegisters ==
    /\ Delivered({"register"})
    /\ IF bluez.mgr /\ ~bluez.client
       THEN /\ bluez' = [bluez EXCEPT !.client = TRUE]
            /\ \/ /\ fromBluez' = fromBluez \o <<"registered", "getObjects">>
                  /\ UNCHANGED trouble
               \/ /\ ReplyMayTimeOut
                  /\ fromBluez' = fromBluez \o <<"refused", "getObjects">>
                  /\ Meets("reply")
       ELSE /\ fromBluez' = Append(fromBluez, "refused")
            /\ UNCHANGED <<bluez, trouble>>

\* What bluetoothd shows after a message of its client.  It takes no notice of
\* a battery for a device it does not have.
ShownAfter(m) ==
    CASE m.kind \in {"added", "objects"} ->
             IF m.dev # NoPath /\ m.dev = bluez.dev /\ m.pct # NoLevel
             THEN m.pct ELSE bluez.shown
      [] m.kind = "changed" ->
             IF bluez.shown = NoLevel THEN NoLevel ELSE m.pct
      [] m.kind = "removed" -> NoLevel

BluezLearns ==
    /\ Delivered({"added", "changed", "removed", "objects"})
    /\ bluez' = IF bluez.client
                THEN [bluez EXCEPT !.shown = ShownAfter(Head(toBluez))]
                ELSE bluez
    /\ UNCHANGED <<fromBluez, trouble>>

Happens ==
    /\ events < MaxEvents
    /\ events' = events + 1
    /\ UNCHANGED <<feedVars, providerVars>>

\* A call that nobody will answer any more is answered by the bus.
BluezStops ==
    /\ bluez.up
    /\ Happens
    /\ bluez' = NoBluez
    /\ toBluez' = <<>>
    /\ trouble' = {}
    /\ LET calls == {i \in DOMAIN toBluez : toBluez[i].kind = "register"}
       IN  fromBluez' = fromBluez \o [i \in 1..Cardinality(calls) |-> "refused"]
                                  \o <<"vanished">>

BluezStarts ==
    /\ ~bluez.up
    /\ Happens
    /\ bluez' \in NewBluez
    /\ fromBluez' = Append(fromBluez, "appeared")
    /\ UNCHANGED <<toBluez, trouble>>

DevicePaired ==
    /\ bluez.up /\ bluez.dev = NoPath
    /\ Happens
    /\ \E p \in Paths : bluez' = [bluez EXCEPT !.dev = p]
    /\ UNCHANGED <<toBluez, fromBluez, trouble>>

\* `bluetoothctl remove`: the object goes, and the battery shown on it.  The next
\* pairing may give the device another path.
DeviceRemoved ==
    /\ DeviceMayMove
    /\ bluez.up /\ bluez.dev # NoPath
    /\ Happens
    /\ bluez' = [bluez EXCEPT !.dev = NoPath, !.shown = NoLevel]
    /\ IF device # NoPath THEN Meets("device") ELSE UNCHANGED trouble
    /\ UNCHANGED <<toBluez, fromBluez>>

\* The manager is an interface of the adapter's object and goes with it.
AdapterLeaves ==
    /\ AdapterMayMove
    /\ bluez.mgr
    /\ Happens
    /\ bluez' = [NoBluez EXCEPT !.up = TRUE]
    /\ Meets("adapter")
    /\ UNCHANGED <<toBluez, fromBluez>>

AdapterArrives ==
    /\ AdapterMayMove
    /\ bluez.up /\ ~bluez.mgr /\ bluez.dev = NoPath
    /\ Happens
    /\ bluez' = [bluez EXCEPT !.mgr = TRUE]
    /\ Meets("adapter")
    /\ UNCHANGED <<toBluez, fromBluez>>

-----------------------------------------------------------------------------
Fed == ChannelOpens \/ ChannelCloses \/ PodsReport \/ PumpRepeats

Dispatched == OnBluezAppeared \/ OnBluezVanished \/ OnRegisterDone \/ OmMethodCall

BluezServes == BluezRegisters \/ BluezLearns

Environment ==
    \/ BluezServes
    \/ BluezStops \/ BluezStarts
    \/ DevicePaired \/ DeviceRemoved
    \/ AdapterLeaves \/ AdapterArrives

Next == Fed \/ Dispatched \/ Environment

Spec == Init /\ [][Next]_vars

\* The main loop and bluetoothd serve what they are sent.
FairSpec == Spec /\ WF_vars(Dispatched) /\ WF_vars(BluezServes)

-----------------------------------------------------------------------------
(***************************************************************************)
(* Properties                                                              *)
(***************************************************************************)

\* The type of every variable of BatteryProvider and its bus.
TypeOK ==
    /\ feed \in [open : BOOLEAN, battery : Readings \cup {NoReading}]
    /\ {registered, exported, objectReg, fresh} \subseteq BOOLEAN
    /\ device \in Paths \cup {NoPath}
    /\ percentage \in Percentages
    /\ source \in Readings \cup {<<>>}
    /\ bluez \in [up : BOOLEAN, mgr : BOOLEAN, dev : Paths \cup {NoPath},
                  client : BOOLEAN, shown : Percentages \cup {NoLevel}]
    /\ toBluez \in Seq(ToBluez)
    /\ fromBluez \in Seq(FromBluez)
    /\ events \in 0..MaxEvents
    /\ trouble \subseteq Troubles

\* p is the level of a readable pod of b and no readable pod is lower.
IsLowerPod(p, b) ==
    LET pods == {"left", "right"} \cap DOMAIN Components(b)
    IN  /\ p # NoLevel
        /\ \E c \in pods : b[c] = p
        /\ \A c \in pods : b[c] # NoLevel => p <= b[c]

\* What is announced is the lower readable pod of the cached report, the case
\* never counting, for a device that is known, on a channel that is open,
\* whatever has happened to the registration since.
OnlyLiveReadings ==
    exported => /\ registered /\ objectReg /\ device # NoPath
                /\ feed.open
                /\ IsLowerPod(percentage, feed.battery)

Settled == toBluez = <<>> /\ fromBluez = <<>>

\* Once the bus is quiet, a provider that believes it is registered is, unless
\* the adapter has moved: no reply that was overtaken by a restart of bluetoothd
\* is believed.
RegistrationAgrees ==
    Settled /\ registered /\ "adapter" \notin trouble => bluez.client

\* What the path of the device, or the manager, was learned from has moved.
Moved == trouble \cap {"adapter", "device"} # {}

\* Once the bus is quiet, bluetoothd shows what is announced and nothing else,
\* in whatever order its question, the announcement and its withdrawal crossed.
\* An adapter that moved, or a device removed and paired afresh, can cost it the
\* number, never give it another.  What an overtaken registration announced is
\* forgotten by the provider alone.
ShownIsExported ==
    Settled /\ bluez.client /\ "overtaken" \notin trouble =>
        \/ bluez.shown = IF exported THEN percentage ELSE NoLevel
        \/ Moved /\ bluez.shown = NoLevel

\* A new reading of a registered provider is announced at once, the first
\* after a restart of bluetoothd included.
ReportsAreAnnounced ==
    [][registered /\ device # NoPath /\ feed' # feed /\ feed'.open
           /\ Readable(feed'.battery, {"left", "right"}) # {}
        => exported' /\ IsLowerPod(percentage', feed'.battery)]_vars

\* A number does not outlive the channel on the desktop, unless it was announced
\* under a registration that overtook the news of a restart.
ShownIsWithdrawn ==
    <>[](~feed.open) => <>[]("overtaken" \notin trouble => bluez.shown = NoLevel)

\* r is on an open channel, with everything in place to show it, and no fault
\* that the provider does not recover from has been met.
Showable(r) ==
    /\ bluez.mgr /\ bluez.dev # NoPath /\ trouble = {}
    /\ feed = [open |-> TRUE, battery |-> r]
    /\ Readable(r, {"left", "right"}) # {}

\* A registration that completes after the reading announces nothing, and a
\* device that is paired later is found by nobody until the next publish.  As
\* long as the pump goes on publishing, the desktop gets the number all the same.
ReadingReachesDesktop ==
    WF_vars(PumpRepeats) =>
        \A r \in Readings :
            <>[]Showable(r) => <>[]IsLowerPod(bluez.shown, r)

\* battery_provider.h: a BlueZ without the manager interface is no failure,
\* the name watch will register later if it appears.
RegistersIfItAppears == <>[](bluez.mgr => registered)

\* battery_provider.cpp: the channel is up, so the reading is current, not
\* cached.
ReadingIsCurrent == exported => fresh

\* battery_provider.cpp: the pods may have been paired after the daemon started,
\* and publish() looks their path up when it needs it.  What a channel that opens
\* on a quiet bus announces is announced for the device that is paired now.
AnnouncedForPairedDevice ==
    [][Settled /\ ChannelOpens /\ exported' /\ bluez.dev # NoPath
        => device' = bluez.dev]_vars

\* battery_provider.cpp: the provider forgets its announcement when it hears that
\* bluetoothd went away, without a word to the bus, because bluetoothd has
\* forgotten it along with everything else.
BluezHasForgotten ==
    [][OnBluezVanished /\ exported => bluez.shown = NoLevel]_vars
=============================================================================
