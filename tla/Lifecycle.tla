----------------------------- MODULE Lifecycle -----------------------------
(***************************************************************************)
(* The life of the channel inside airprobed: class Pump (daemon/src/pump.cpp)*)
(* driving a Session, here module Channel, as class BluezWatch             *)
(* (daemon/src/bluez_watch.cpp) tells it where the pods are.               *)
(*                                                                         *)
(* Everything runs on one GLib main loop, so one action is one dispatch: a *)
(* signal, a timer, or the start.  bluetoothd is the environment.  Its     *)
(* signals wait in a queue while the loop is busy, and the reply to a      *)
(* synchronous GetManagedObjects overtakes them: a scan sees the present,  *)
(* the signals dispatched after it tell of the past.                       *)
(***************************************************************************)
EXTENDS Channel, Sequences

CONSTANTS
    RetryDelays,    \* kRetryMs, in seconds; when a retry fires is left open
    Paths,          \* object paths bluetoothd may give the device
    NoPath,         \* no such device: the empty path
    RescanMayFail,  \* may GetManagedObjects time out with bluetoothd up?
    MaxRefusals,    \* bound: refused battery packets
    MaxEvents,      \* bound: things bluetoothd does
    SignalCap       \* bound: undispatched signals

ASSUME RetryAssumption ==
    RetryDelays \in Seq(Nat) /\ Len(RetryDelays) > 0
ASSUME PathAssumption == NoPath \notin Paths
ASSUME LifecycleBounds ==
    /\ RescanMayFail \in BOOLEAN
    /\ MaxRefusals \in Nat /\ MaxEvents \in Nat /\ SignalCap \in Nat

VARIABLES
    started,    \* Pump::start() has returned
    watching,   \* watch_ is not null
    timer,      \* timer_id_ # 0: the pump's tick is running
    retry,      \* retry_id_ # 0
    attempts,   \* attempts_
    status,     \* status_, by what it says
    published,  \* the State last handed to publish_; State{} before that
    known,      \* BluezWatch: [connected |-> connected_, path |-> path_]
    rescanDue,  \* BluezWatch: rescan_timer_ # 0
    bluez,      \* bluetoothd: [up, dev], dev as in known (external)
    signals,    \* undispatched signals on the system bus (external)
    events,     \* bound: how many things bluetoothd has done
    opens,      \* history: open() calls since the watch last reported
    deaf        \* history: the last scan failed and missed the device

pumpVars == <<timer, retry, attempts, status, published>>
watchVars == <<watching, known, rescanDue>>
envVars == <<bluez, signals, events>>
vars == <<chVars, started, pumpVars, watchVars, envVars, opens, deaf>>

-----------------------------------------------------------------------------
MaxAttempts == Len(RetryDelays)

Statuses ==
    {"starting", "channel open", "connect failed", "gave up",
     "pods left", "closed by the peer", "not known", "waiting"}

\* What BluezWatch can know, and what bluetoothd can be.
Knowledge == [connected : BOOLEAN, path : Paths \cup {NoPath}]
Absent == [connected |-> FALSE, path |-> NoPath]

Signals ==
    [kind : {"props"}, path : Paths, connected : BOOLEAN]
        \cup [kind : {"interfaces", "appeared", "vanished"}]

\* Pump::snapshot(), of what the session and the pump hold now.
Snapshot ==
    [status |-> status, phase |-> phase, channelOpen |-> phase # "Closed",
     refusals |-> refusals, battery |-> battery]

Snapshots ==
    [status : Statuses, phase : Phases, channelOpen : BOOLEAN,
     refusals : Nat, battery : Readings \cup {NoReading}]

PublishNow == published' = Snapshot'

Init ==
    /\ ChInit
    /\ started = FALSE
    /\ watching = FALSE
    /\ timer = FALSE
    /\ retry = FALSE
    /\ attempts = 0
    /\ status = "starting"
    /\ published = Snapshot
    /\ known = Absent
    /\ rescanDue = FALSE
    /\ \E k \in Knowledge :
          /\ k.path = NoPath => ~k.connected
          /\ bluez \in {[up |-> TRUE, dev |-> k], [up |-> FALSE, dev |-> Absent]}
    /\ signals = <<>>
    /\ events = 0
    /\ opens = 0
    /\ deaf = FALSE

\* What the history remembers of a step.
Remember ==
    opens' = (IF known' # known THEN 0 ELSE opens)
                 + (IF result' # "none" THEN 1 ELSE 0)

-----------------------------------------------------------------------------
(***************************************************************************)
(* Pump                                                                    *)
(***************************************************************************)
GivesUp(n) == n >= MaxAttempts

\* Mutant: a failed attempt is never repeated.
ScheduleRetryNever(n) ==
    /\ retry' = FALSE
    /\ status' = "connect failed"

\* schedule_retry() after the n-th attempt failed.
ScheduleRetry(n) ==
    /\ retry' = (watching' /\ known'.connected /\ ~GivesUp(n))
    /\ status' = IF watching' /\ known'.connected /\ GivesUp(n)
                   THEN "gave up" ELSE "connect failed"

\* attach() with n attempts made so far and no retry pending.  The callers
\* have settled what the watch knows.
Attach(n) ==
    \/ /\ phase # "Closed"
       /\ attempts' = n
       /\ retry' = FALSE
       /\ ChForget
       /\ UNCHANGED <<timer, status, published>>
    \/ /\ ChOpenOk
       /\ attempts' = n + 1
       /\ status' = "channel open"
       /\ timer' = TRUE
       /\ retry' = FALSE
       /\ PublishNow
    \/ /\ ChOpenFails
       /\ attempts' = n + 1
       /\ ScheduleRetry(n + 1)
       /\ PublishNow
       /\ UNCHANGED timer

\* Mutant: the tick outlives the channel.
DetachKeepsTimer(why) ==
    /\ UNCHANGED timer
    /\ ChClose
    /\ status' = why
    /\ PublishNow

\* detach(): the cached reading stays in the session.
Detach(why) ==
    /\ timer' = FALSE
    /\ ChClose
    /\ status' = why
    /\ PublishNow

\* Mutant: a report does not start a new budget of attempts.
OnBluezKeepsBudget(k) ==
    IF k.connected
    THEN Attach(attempts)
    ELSE /\ retry' = FALSE
         /\ UNCHANGED attempts
         /\ \/ /\ phase # "Closed"
               /\ Detach("pods left")
            \/ /\ phase = "Closed"
               /\ status' = "waiting"
               /\ ChForget
               /\ PublishNow
               /\ UNCHANGED timer

\* Mutant: a pending retry is not cancelled when the pods leave.
OnBluezKeepsRetry(k) ==
    IF k.connected
    THEN Attach(0)
    ELSE /\ attempts' = 0
         /\ UNCHANGED retry
         /\ \/ /\ phase # "Closed"
               /\ Detach("pods left")
            \/ /\ phase = "Closed"
               /\ status' = "waiting"
               /\ ChForget
               /\ PublishNow
               /\ UNCHANGED timer

\* Mutant: an open channel is left for the peer to close.
OnBluezKeepsChannel(k) ==
    IF k.connected
    THEN Attach(0)
    ELSE /\ attempts' = 0
         /\ retry' = FALSE
         /\ status' = "waiting"
         /\ ChForget
         /\ PublishNow
         /\ UNCHANGED timer

\* on_bluez(): every report starts a new budget of attempts.
OnBluez(k) ==
    IF k.connected
    THEN Attach(0)
    ELSE /\ attempts' = 0
         /\ retry' = FALSE
         /\ \/ /\ phase # "Closed"
               /\ Detach("pods left")
            \/ /\ phase = "Closed"
               /\ status' = IF k.path = NoPath THEN "not known" ELSE "waiting"
               /\ ChForget
               /\ PublishNow
               /\ UNCHANGED timer

\* retry_trampoline()
RetryFires ==
    /\ retry
    /\ UNCHANGED <<started, watchVars, envVars, deaf>>
    /\ Attach(attempts)
    /\ Remember

\* Mutant: only a battery report is published.
TickPublishesBatteryOnly ==
    /\ timer
    /\ ChStep
    /\ refusals' <= MaxRefusals
    /\ IF out'.closed
       THEN /\ timer' = FALSE
            /\ status' = "closed by the peer"
            /\ PublishNow
       ELSE /\ UNCHANGED <<timer, status>>
            /\ IF ~out'.battery THEN UNCHANGED published ELSE PublishNow
    /\ UNCHANGED <<started, retry, attempts, watchVars, envVars, deaf>>
    /\ Remember

\* tick(): one step of the session, and whatever it calls for.
Tick ==
    /\ timer
    /\ ChStep
    /\ refusals' <= MaxRefusals
    /\ IF out'.closed
       THEN /\ timer' = FALSE
            /\ status' = "closed by the peer"
            /\ PublishNow
       ELSE /\ UNCHANGED <<timer, status>>
            /\ IF Idle(out') THEN UNCHANGED published ELSE PublishNow
    /\ UNCHANGED <<started, retry, attempts, watchVars, envVars, deaf>>
    /\ Remember

-----------------------------------------------------------------------------
(***************************************************************************)
(* BluezWatch                                                              *)
(***************************************************************************)

\* Mutant: every scan is reported, changed or not.
UpdateAlwaysReports(k) ==
    /\ known' = k
    /\ OnBluez(k)

\* update(): the pump hears of a change, and only of a change.
Update(k) ==
    /\ known' = k
    /\ IF k # known
       THEN OnBluez(k)
       ELSE ChForget /\ UNCHANGED pumpVars

\* What GetManagedObjects may answer: the truth, or nothing.
ScanResults ==
    {bluez.dev} \cup (IF RescanMayFail THEN {Absent} ELSE {})

Rescan == \E k \in ScanResults : Update(k) /\ deaf' = (k # bluez.dev)

\* rescan_trampoline()
RescanFires ==
    /\ rescanDue
    /\ rescanDue' = FALSE
    /\ UNCHANGED <<started, watching, envVars>>
    /\ Rescan
    /\ Remember

Dispatch(kind) ==
    /\ started /\ watching
    /\ signals # <<>>
    /\ Head(signals).kind = kind
    /\ signals' = Tail(signals)
    /\ UNCHANGED <<started, watching, bluez, events>>

\* on_props_changed(): only for the path the last scan found.
OnPropsChanged ==
    /\ Dispatch("props")
    /\ LET s == Head(signals) IN
         IF known.path = s.path
         THEN Update([connected |-> s.connected, path |-> known.path])
         ELSE ChForget /\ UNCHANGED <<pumpVars, known>>
    /\ UNCHANGED <<rescanDue, deaf>>
    /\ Remember

\* on_interfaces_changed(): rescan_soon().
OnInterfacesChanged ==
    /\ Dispatch("interfaces")
    /\ rescanDue' = TRUE
    /\ ChForget
    /\ UNCHANGED <<pumpVars, known, deaf>>
    /\ Remember

OnBluezAppeared ==
    /\ Dispatch("appeared")
    /\ Rescan
    /\ UNCHANGED rescanDue
    /\ Remember

\* Mutant: bluetoothd going away is only logged.
OnBluezVanishedIgnored ==
    /\ Dispatch("vanished")
    /\ ChForget
    /\ UNCHANGED <<pumpVars, known, rescanDue, deaf>>
    /\ Remember

OnBluezVanished ==
    /\ Dispatch("vanished")
    /\ Update(Absent)
    /\ deaf' = FALSE
    /\ UNCHANGED rescanDue
    /\ Remember

-----------------------------------------------------------------------------
(***************************************************************************)
(* Pump::start(), with and without a system bus.  The first scan is always *)
(* reported; the name watch reports its own first finding by the queue.    *)
(***************************************************************************)
StartWatching ==
    /\ ~started
    /\ started' = TRUE
    /\ watching' = TRUE
    /\ signals' = <<[kind |-> IF bluez.up THEN "appeared" ELSE "vanished"]>>
    /\ known' \in ScanResults
    /\ OnBluez(known')
    /\ deaf' = (known' # bluez.dev)
    /\ UNCHANGED <<rescanDue, bluez, events>>
    /\ Remember

StartBlind ==
    /\ ~started
    /\ started' = TRUE
    /\ UNCHANGED <<watchVars, envVars, deaf>>
    /\ Attach(0)
    /\ Remember

-----------------------------------------------------------------------------
(***************************************************************************)
(* bluetoothd                                                              *)
(***************************************************************************)
Props(path, c) == [kind |-> "props", path |-> path, connected |-> c]
Interfaces == [kind |-> "interfaces"]

\* bluetoothd becomes b and says so in the signals of sigs.  Nobody hears
\* them unless the watch has subscribed.
Happens(b, sigs) ==
    /\ events < MaxEvents
    /\ events' = events + 1
    /\ bluez' = b
    /\ IF watching
       THEN /\ Len(signals) + Len(sigs) <= SignalCap
            /\ signals' = signals \o sigs
       ELSE UNCHANGED signals
    /\ ChForget
    /\ UNCHANGED <<started, pumpVars, watchVars, deaf>>
    /\ Remember

DeviceConnects ==
    /\ bluez.dev.path # NoPath /\ ~bluez.dev.connected
    /\ Happens([bluez EXCEPT !.dev.connected = TRUE],
               <<Props(bluez.dev.path, TRUE)>>)

DeviceDisconnects ==
    /\ bluez.dev.path # NoPath /\ bluez.dev.connected
    /\ Happens([bluez EXCEPT !.dev.connected = FALSE],
               <<Props(bluez.dev.path, FALSE)>>)

\* Services of the device, or other devices, come and go.
TreeMoves ==
    /\ bluez.up
    /\ Happens(bluez, <<Interfaces>>)

DeviceRemoved ==
    /\ bluez.dev.path # NoPath
    /\ Happens([bluez EXCEPT !.dev = Absent],
               (IF bluez.dev.connected THEN <<Props(bluez.dev.path, FALSE)>>
                                       ELSE <<>>) \o <<Interfaces>>)

DeviceAdded ==
    /\ bluez.up /\ bluez.dev.path = NoPath
    /\ \E p \in Paths, c \in BOOLEAN :
          Happens([bluez EXCEPT !.dev = [connected |-> c, path |-> p]],
                  <<Interfaces>>)

BluezStops ==
    /\ bluez.up
    /\ Happens([up |-> FALSE, dev |-> Absent], <<[kind |-> "vanished"]>>)

BluezStarts ==
    /\ ~bluez.up
    /\ \E k \in {Absent} \cup [connected : {FALSE}, path : Paths] :
          Happens([up |-> TRUE, dev |-> k], <<[kind |-> "appeared"]>>)

Environment ==
    \/ DeviceConnects \/ DeviceDisconnects \/ TreeMoves
    \/ DeviceRemoved \/ DeviceAdded \/ BluezStops \/ BluezStarts

-----------------------------------------------------------------------------
Loop ==
    \/ StartWatching \/ StartBlind
    \/ OnPropsChanged \/ OnInterfacesChanged
    \/ OnBluezAppeared \/ OnBluezVanished
    \/ RescanFires \/ RetryFires \/ Tick

Next == Loop \/ Environment

Spec == Init /\ [][Next]_vars

(***************************************************************************)
(* The main loop serves every ready source sooner or later.  Nothing is    *)
(* assumed of bluetoothd.                                                  *)
(***************************************************************************)
Signalled ==
    OnPropsChanged \/ OnInterfacesChanged \/ OnBluezAppeared \/ OnBluezVanished

FairSpec ==
    /\ Spec
    /\ WF_vars(StartWatching \/ StartBlind)
    /\ WF_vars(Signalled)
    /\ WF_vars(RescanFires)
    /\ WF_vars(RetryFires)
    /\ WF_vars(Tick)

-----------------------------------------------------------------------------
(***************************************************************************)
(* Properties                                                              *)
(***************************************************************************)

\* The type of every variable of Pump, BluezWatch and the bus.
TypeOK ==
    /\ phase \in Phases
    /\ battery \in Readings \cup {NoReading}
    /\ refusals \in Nat
    /\ out \in StepResults
    /\ result \in {"none", "ok", "failed"}
    /\ {started, watching, timer, retry, rescanDue, deaf} \subseteq BOOLEAN
    /\ attempts \in 0..MaxAttempts
    /\ status \in Statuses
    /\ published \in Snapshots
    /\ known \in Knowledge
    /\ bluez \in [up : BOOLEAN, dev : Knowledge]
    /\ signals \in Seq(Signals)
    /\ events \in Nat /\ opens \in Nat

\* The tick runs exactly while the channel is open: a channel is never left
\* without the pump that drives its timeouts, nor a closed one pumped.
TimerIffOpen == timer <=> phase # "Closed"

\* A retry is pending only for a channel that is closed, while the watch says
\* the pods are here, and with attempts left: it cannot run while the pods are
\* away.
RetryOnlyWhileHere ==
    retry => /\ watching /\ known.connected
             /\ phase = "Closed"
             /\ attempts \in 1..(MaxAttempts - 1)

\* However long the daemon runs, open() is called at most MaxAttempts times
\* between two reports of the watch, and once if there is no watch.
AttemptsBounded ==
    /\ opens <= MaxAttempts
    /\ started /\ ~watching => opens <= 1

\* What was last published is what the pump would publish now: the steps that
\* do not publish, idle ticks above all, have changed nothing in State.
PublishedIsCurrent == started => published = Snapshot

\* What is published, as the components that are fed with it see it.
Fed == [open |-> published.channelOpen, battery |-> published.battery]

Publishes == INSTANCE Feed WITH feed <- Fed

\* The pump feeds the service and the provider as module Feed promises: the
\* channel opens and closes with the reading it had, a reading changes only to
\* a report parsed on an open channel.
ImplementsFeed == Publishes!FeedSpec

\* Once bluetoothd is quiet the watch knows where the pods are, although scans
\* overtake the signals and signals for an unknown path are dropped.  Only a
\* scan that failed, with nothing of bluetoothd's to cause another, excuses it.
WatchCatchesUp == <>[](watching /\ ~deaf => known = bluez.dev)

\* Pods that stay here are not forgotten: the daemon ends with the channel
\* open, or has said that it gave up or was closed by the peer.
PodsHereAttached ==
    <>[](watching /\ ~deaf /\ bluez.dev.connected =>
            phase # "Closed" \/ status \in {"gave up", "closed by the peer"})

\* Pods that stay away are let go, whatever stale signals were acted upon and
\* whichever scans failed.
PodsAwayDetached ==
    <>[](watching /\ ~bluez.dev.connected => phase = "Closed")
=============================================================================
