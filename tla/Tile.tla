-------------------------------- MODULE Tile --------------------------------
(***************************************************************************)
(* The Quick Settings tile of the shell extension (extension.js): a name   *)
(* watch, a proxy that is made asynchronously, an age that is read          *)
(* asynchronously before anything is drawn, and a timer.  It talks to the  *)
(* daemon of module Service over the session bus.                          *)
(*                                                                         *)
(* An action is one callback in the shell's main loop.  calls holds what   *)
(* the tile has asked and nobody has answered; answers, signals and news of *)
(* the name come through bus in the order the bus sent them.  A GDBusProxy  *)
(* reads all properties when it is made, follows PropertiesChanged, forgets *)
(* them when the name vanishes and reads them again when it appears.       *)
(***************************************************************************)
EXTENDS Service

CONSTANTS
    NoProxy,        \* this._proxy === null
    Activatable,    \* is the D-Bus service file installed?
    CallCap         \* bound: unanswered calls before another is provoked

\* What a proxy may have cached: any part of a State.
Partial == {[p \in S |-> s[p]] : S \in SUBSET Properties, s \in States}

ASSUME TileAssumption ==
    /\ NoProxy \notin Partial
    /\ Activatable \in BOOLEAN /\ CallCap \in Nat

VARIABLES
    proxy,          \* the properties this._proxy has cached, or NoProxy
    lost,           \* proxies with a connected handler nobody can disconnect
    ageOf,          \* _ageMs: the reading it is the age of; NoReading for -1
    staleTimer,     \* _staleTimer # 0
    destroyed,      \* destroy() has run: _cancellable is cancelled
    view,           \* what the toggle was last told to draw
    calls,          \* unanswered calls of the tile (external)
    held            \* Gets the bus keeps until the name is owned (external)

tileVars == <<proxy, lost, ageOf, staleTimer, destroyed, view>>
vars == <<feed, serviceVars, bus, events, tileVars, calls, held>>

NoProperties == <<>>

Fallback == [open |-> FALSE, battery |-> NoReading]

-----------------------------------------------------------------------------
(***************************************************************************)
(* _cached(), _render(), _refresh()                                        *)
(***************************************************************************)
\* Mutant: a property that is not cached has no fallback.
CachedOrNull(name) ==
    IF proxy' # NoProxy /\ name \in DOMAIN proxy' THEN proxy'[name] ELSE NoProxy

Cached(name) ==
    IF proxy' # NoProxy /\ name \in DOMAIN proxy'
    THEN proxy'[name] ELSE Fallback[name]

\* The timer runs while an ageing number is on the screen.
Render(daemonPresent) ==
    /\ view' = [present |-> daemonPresent, open |-> Cached("open"),
                battery |-> Cached("battery"), ageOf |-> ageOf']
    /\ staleTimer' =
          (daemonPresent /\ Cached("battery") # NoReading /\ ~Cached("open"))

\* The same call, n times.
Times(n, call) == [i \in 1..n |-> call]

\* _refresh(), called by n handlers: the age is asked for and nothing drawn,
\* unless there is nobody to ask.
Refresh(n) ==
    IF proxy' = NoProxy
    THEN /\ IF n > 0 THEN Render(FALSE) ELSE UNCHANGED <<view, staleTimer>>
         /\ UNCHANGED calls
    ELSE /\ calls' = calls \o Times(n, "get")
         /\ UNCHANGED <<view, staleTimer>>

-----------------------------------------------------------------------------
(***************************************************************************)
(* Callbacks.                                                              *)
(***************************************************************************)
Receive(kind) ==
    /\ bus # <<>>
    /\ Head(bus).kind = kind
    /\ bus' = Tail(bus)
    /\ UNCHANGED <<feed, serviceVars, events, held>>

\* After destroy() every answer is CANCELLED.
Cancelled ==
    /\ destroyed
    /\ Receive("proxy") \/ Receive("age")
    /\ UNCHANGED <<tileVars, calls>>

\* _onAppeared(), while the name is watched: a proxy is asked for unless there
\* is one.  Proxies that exist read their properties again by themselves.
OnAppeared ==
    /\ Receive("appeared")
    /\ calls' = calls \o Times(lost, "reloadLost")
                      \o (CASE destroyed -> <<>>
                           [] ~destroyed /\ proxy = NoProxy -> <<"new">>
                           [] ~destroyed /\ proxy # NoProxy -> <<"reload">>)
    /\ UNCHANGED tileVars

\* Mutant: the call is not cancelled and the callback does not look.
OnProxyThoughDestroyed ==
    /\ Receive("proxy")
    /\ proxy' = Head(bus).props
    /\ lost' = IF proxy = NoProxy THEN lost ELSE lost + 1
    /\ UNCHANGED <<ageOf, destroyed>>
    /\ Refresh(1)

\* The callback of DBusProxy.new: it replaces a proxy that another call has
\* made in the meantime, whose handler stays connected.
OnProxy ==
    /\ ~destroyed
    /\ Receive("proxy")
    /\ proxy' = Head(bus).props
    /\ lost' = IF proxy = NoProxy THEN lost ELSE lost + 1
    /\ UNCHANGED <<ageOf, destroyed>>
    /\ Refresh(1)

\* _onVanished() with _dropProxy().  A lost proxy forgets its properties and
\* its handler draws the same once more.
OnVanished ==
    /\ ~destroyed
    /\ Receive("vanished")
    /\ proxy' = NoProxy
    /\ ageOf' = NoReading
    /\ Render(FALSE)
    /\ UNCHANGED <<lost, destroyed, calls>>

\* The name is no longer watched, but a lost proxy still follows it.
LostProxyVanishes ==
    /\ destroyed
    /\ Receive("vanished")
    /\ UNCHANGED <<proxy, lost, ageOf, destroyed, calls>>
    /\ IF lost > 0 THEN Render(FALSE) ELSE UNCHANGED <<view, staleTimer>>

\* The properties in a signal replace those that are cached.
Merge(changed, cached) ==
    [p \in DOMAIN changed \cup DOMAIN cached |->
        IF p \in DOMAIN changed THEN changed[p] ELSE cached[p]]

\* Mutant: the new properties are drawn at once, the age when it comes.
OnPropertiesChangedDraws ==
    /\ Receive("changed")
    /\ proxy' = IF proxy = NoProxy THEN proxy ELSE Merge(Head(bus).props, proxy)
    /\ UNCHANGED <<lost, ageOf, destroyed>>
    /\ IF proxy = NoProxy
       THEN UNCHANGED <<view, staleTimer, calls>>
       ELSE Render(TRUE) /\ calls' = Append(calls, "get")

\* g-properties-changed, on this._proxy and on every lost one.
OnPropertiesChanged ==
    /\ Receive("changed")
    /\ proxy' = IF proxy = NoProxy THEN proxy ELSE Merge(Head(bus).props, proxy)
    /\ UNCHANGED <<lost, ageOf, destroyed>>
    /\ Refresh(IF proxy = NoProxy THEN lost ELSE lost + 1)

\* g-properties-changed once the properties of a new owner have been read, by
\* this._proxy or by a lost one.
OnReloaded ==
    /\ Receive("reload")
    /\ proxy' = IF proxy = NoProxy THEN proxy ELSE Head(bus).props
    /\ UNCHANGED <<lost, ageOf, destroyed>>
    /\ Refresh(IF proxy = NoProxy THEN 0 ELSE 1)

OnLostReloaded ==
    /\ Receive("reloadLost")
    /\ UNCHANGED <<proxy, lost, ageOf, destroyed>>
    /\ Refresh(IF lost = 0 THEN 0 ELSE 1)

\* The callback of the Get in _refresh(), answered or refused.
OnAge ==
    /\ ~destroyed
    /\ Receive("age")
    /\ ageOf' = Head(bus).ageOf
    /\ UNCHANGED <<proxy, lost, destroyed, calls>>
    /\ Render(TRUE)

StaleTimerFires ==
    /\ staleTimer
    /\ Len(bus) < BusCap /\ Len(calls) + held < CallCap
    /\ UNCHANGED <<feed, serviceVars, bus, events, held>>
    /\ UNCHANGED <<proxy, lost, ageOf, destroyed>>
    /\ Refresh(1)

Destroy ==
    /\ ~destroyed
    /\ destroyed' = TRUE
    /\ staleTimer' = FALSE
    /\ proxy' = NoProxy
    /\ UNCHANGED <<feed, serviceVars, bus, events, held>>
    /\ UNCHANGED <<lost, ageOf, view, calls>>

\* The collector finds a lost proxy, or has not found it yet.
LostProxyCollected ==
    /\ lost > 0
    /\ lost' = lost - 1
    /\ UNCHANGED <<feed, serviceVars, bus, events, held>>
    /\ UNCHANGED <<proxy, ageOf, staleTimer, destroyed, view, calls>>

-----------------------------------------------------------------------------
(***************************************************************************)
(* The bus answers the oldest call: with what the daemon serves, or with    *)
(* nothing when nobody owns the name.                                      *)
(***************************************************************************)
Answer(call) ==
    IF call = "get"
    THEN [kind |-> "age", ageOf |-> IF owned THEN feed.battery ELSE NoReading]
    ELSE [kind |-> IF call = "new" THEN "proxy" ELSE call,
          props |-> IF owned THEN state ELSE NoProperties]

\* Only the Get is sent without NO_AUTO_START, the proxy's own calls are not.
WaitsForOwner == Activatable /\ ~owned /\ Head(calls) = "get"

Answered ==
    /\ calls # <<>> /\ ~WaitsForOwner
    /\ calls' = Tail(calls)
    /\ bus' = Append(bus, Answer(Head(calls)))
    /\ UNCHANGED <<feed, serviceVars, events, tileVars, held>>

\* A Get for a name that nobody owns is kept, and the bus has the daemon started
\* if it is not starting already; the call fails with a unit that does not start.
Activates ==
    /\ calls # <<>> /\ WaitsForOwner
    /\ calls' = Tail(calls)
    /\ \/ /\ DaemonStarts
          /\ held' = held + 1
       \/ /\ running
          /\ held' = held + 1
          /\ UNCHANGED <<feed, serviceVars, bus, events>>
       \/ /\ ~running
          /\ bus' = Append(bus, Answer("get"))
          /\ UNCHANGED <<feed, serviceVars, events, held>>
    /\ UNCHANGED tileVars

HeldAnswered ==
    /\ held > 0
    /\ owned \/ ~running
    /\ held' = held - 1
    /\ bus' = Append(bus, Answer("get"))
    /\ UNCHANGED <<feed, serviceVars, events, tileVars, calls>>

-----------------------------------------------------------------------------
\* The constructor: drawn as absent until the watch reports, with no daemon or
\* with one that has just taken its name.
Init ==
    /\ FeedInit
    /\ running \in BOOLEAN
    /\ exported = running /\ owned = running /\ published = running
    /\ state = DefaultState
    /\ bus = <<[kind |-> IF running THEN "appeared" ELSE "vanished"]>>
    /\ events = 0
    /\ proxy = NoProxy
    /\ lost = 0
    /\ ageOf = NoReading
    /\ staleTimer = FALSE
    /\ destroyed = FALSE
    /\ view = [present |-> FALSE, open |-> FALSE, battery |-> NoReading,
               ageOf |-> NoReading]
    /\ calls = <<>>
    /\ held = 0

Daemon ==
    /\ Len(calls) + held < CallCap
    /\ ServiceNext
    /\ UNCHANGED <<tileVars, calls, held>>

Shell ==
    \/ Cancelled \/ OnAppeared \/ OnProxy \/ OnVanished \/ LostProxyVanishes
    \/ OnPropertiesChanged \/ OnReloaded \/ OnLostReloaded \/ OnAge
    \/ StaleTimerFires \/ Destroy

SessionBus == Answered \/ Activates \/ HeldAnswered

Next == Daemon \/ Shell \/ LostProxyCollected \/ SessionBus

Spec == Init /\ [][Next]_vars

-----------------------------------------------------------------------------
(***************************************************************************)
(* Properties                                                              *)
(***************************************************************************)
\* The type of every variable of the tile, the service and the bus; a proxy may
\* have any part of the properties.
TypeOK ==
    /\ {running, exported, owned, published, staleTimer, destroyed} \subseteq BOOLEAN
    /\ feed \in [open : BOOLEAN, battery : Readings \cup {NoReading}]
    /\ state \in States
    /\ proxy \in Partial \cup {NoProxy}
    /\ lost \in Nat
    /\ ageOf \in Readings \cup {NoReading}
    /\ view \in [present : BOOLEAN, open : BOOLEAN,
                 battery : Readings \cup {NoReading},
                 ageOf : Readings \cup {NoReading}]
    /\ calls \in Seq({"new", "get", "reload", "reloadLost"})
    /\ held \in Nat
    /\ events \in 0..MaxEvents

Quiet == bus = <<>> /\ calls = <<>> /\ held = 0

\* Once the bus is quiet, the tile draws what the pump last published, through
\* every restart, and also what was published before the object was exported or
\* between a proxy's question and its answer.
DrawnIsPublished ==
    Quiet /\ owned /\ ~destroyed =>
        /\ view.present
        /\ view.open = feed.open
        /\ view.battery = feed.battery

\* The age that is drawn beside a reading is the age of that reading, however
\* the signal of a new one and the answer to the Get have crossed.
AgeIsOfReading ==
    view.battery # NoReading => view.ageOf \in {NoReading, view.battery}

\* After destroy() there is no timer and no proxy, and none comes back with an
\* answer that was in flight.
NoTimerNoProxyAfterDestroy == destroyed => ~staleTimer /\ proxy = NoProxy

\* extension.js: the name watch is the source of truth for whether airprobed
\* is there.
DrawnOnlyWhileOwned == Quiet /\ ~owned /\ ~destroyed => ~view.present

\* extension.js: a tile appearing in the panel must never start a daemon that
\* opens a Bluetooth channel.  The user starts airprobed; we watch.
TileStartsNothing == [][~running /\ running' => UNCHANGED calls]_vars
=============================================================================
