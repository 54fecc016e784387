-------------------------- MODULE LifecycleProofs --------------------------
(***************************************************************************)
(* Proofs about Lifecycle for every retry schedule, every set of readings  *)
(* and object paths, and any number of things bluetoothd may do.           *)
(***************************************************************************)
EXTENDS Lifecycle, SequenceTheorems, TLAPS

USE ReadingsAssumption, RetryAssumption, PathAssumption, LifecycleBounds

LEMMA MaxAttemptsType == MaxAttempts \in Nat \ {0}
BY LenProperties DEF MaxAttempts

(***************************************************************************)
(* What every dispatch must re-establish about the session and the pump.   *)
(***************************************************************************)
PumpType ==
    /\ phase \in Phases
    /\ battery \in Readings \cup {NoReading}
    /\ refusals \in Nat
    /\ out \in StepResults
    /\ result \in {"none", "ok", "failed"}
    /\ timer \in BOOLEAN /\ retry \in BOOLEAN
    /\ attempts \in 0..MaxAttempts
    /\ status \in Statuses
    /\ published \in Snapshots

Current == published = Snapshot

PumpInv == PumpType /\ TimerIffOpen /\ RetryOnlyWhileHere /\ Current

\* The rest of the types.
WorldType ==
    /\ {started, watching, rescanDue, deaf} \subseteq BOOLEAN
    /\ known \in Knowledge
    /\ bluez \in [up : BOOLEAN, dev : Knowledge]
    /\ signals \in Seq(Signals)
    /\ events \in Nat /\ opens \in Nat

(***************************************************************************)
(* AttemptsBounded is not inductive.  The attempts the pump counts must be *)
(* the open() calls made since the last report, and a daemon without a     *)
(* watch must have nothing that could make it try again.                   *)
(***************************************************************************)
Budget ==
    /\ opens = attempts
    /\ ~started => attempts = 0 /\ ~watching
    /\ ~watching => attempts <= 1 /\ ~rescanDue

IInv == PumpInv /\ WorldType /\ Budget

\* One open() more or not.
Opened == IF result' # "none" THEN 1 ELSE 0

LEMMA SnapshotType ==
    ASSUME phase \in Phases, battery \in Readings \cup {NoReading},
           refusals \in Nat, status \in Statuses
    PROVE  Snapshot \in Snapshots
BY DEF Snapshot, Snapshots

LEMMA NoStepType == NoStep \in StepResults
BY DEF NoStep, PlainStep, StepResults

\* The open(), close() and the waiting of the session keep its types.
LEMMA ChannelTypes ==
    ASSUME PumpInv, ChOpenOk \/ ChOpenFails \/ ChClose \/ ChForget
    PROVE  /\ phase' \in Phases
           /\ battery' \in Readings \cup {NoReading}
           /\ refusals' \in Nat
           /\ out' \in StepResults
           /\ result' \in {"none", "ok", "failed"}
BY NoStepType DEF PumpInv, PumpType, ChOpenOk, ChOpenFails, ChClose, ChForget, Phases

\* attach() leaves the pump in order, from any dispatch that may call it.
LEMMA AttachKeeps ==
    ASSUME PumpInv, NEW n \in 0..(MaxAttempts - 1), Attach(n)
    PROVE  PumpInv' /\ attempts' = n + Opened
<1> USE MaxAttemptsType
<1>1. CASE /\ phase # "Closed" /\ attempts' = n /\ retry' = FALSE /\ ChForget
           /\ UNCHANGED <<timer, status, published>>
  <2>0. attempts' = n + Opened /\ attempts' \in 0..MaxAttempts
    BY <1>1 DEF ChForget, Opened
  <2>1. PumpType'
    BY <1>1, <2>0, ChannelTypes DEF PumpInv, PumpType
  <2>2. Snapshot' = Snapshot
    BY <1>1 DEF Snapshot, ChForget
  <2> QED BY <1>1, <2>0, <2>1, <2>2
       DEF PumpInv, TimerIffOpen, RetryOnlyWhileHere, Current, ChForget
<1>2. CASE /\ ChOpenOk /\ attempts' = n + 1 /\ status' = "channel open"
           /\ timer' = TRUE /\ retry' = FALSE /\ PublishNow
  <2>1. status' \in Statuses
    BY <1>2 DEF Statuses
  <2>2. published' \in Snapshots
    BY <1>2, <2>1, ChannelTypes DEF PublishNow, Snapshot, Snapshots
  <2>0. attempts' = n + Opened /\ attempts' \in 0..MaxAttempts
    <3>1. Opened = 1
      BY <1>2 DEF ChOpenOk, Opened
    <3>2. attempts' = n + 1
      BY <1>2
    <3> QED BY <3>1, <3>2
  <2>3. PumpType'
    BY <1>2, <2>0, <2>1, <2>2, ChannelTypes DEF PumpType
  <2>4. phase' # "Closed"
    BY <1>2 DEF ChOpenOk
  <2> QED BY <1>2, <2>0, <2>3, <2>4
       DEF PumpInv, TimerIffOpen, RetryOnlyWhileHere, Current, PublishNow
<1>3. CASE /\ ChOpenFails /\ attempts' = n + 1 /\ ScheduleRetry(n + 1)
           /\ PublishNow /\ UNCHANGED timer
  <2>1. status' \in Statuses
    BY <1>3 DEF Statuses, ScheduleRetry
  <2>2. published' \in Snapshots
    BY <1>3, <2>1, ChannelTypes DEF PublishNow, Snapshot, Snapshots
  <2>3. retry' \in BOOLEAN
    BY <1>3 DEF ScheduleRetry
  <2>0. attempts' = n + Opened /\ attempts' \in 0..MaxAttempts
    BY <1>3 DEF ChOpenFails, Opened
  <2>4. PumpType'
    BY <1>3, <2>0, <2>1, <2>2, <2>3, ChannelTypes DEF PumpType, PumpInv
  <2>5. phase = "Closed" /\ phase' = "Closed"
    BY <1>3 DEF ChOpenFails
  <2>6. RetryOnlyWhileHere'
    <3>1. retry' => watching' /\ known'.connected /\ ~GivesUp(n + 1)
      BY <1>3, Zenon DEF ScheduleRetry
    <3>2. ~GivesUp(n + 1) => n + 1 \in 1..(MaxAttempts - 1)
      BY DEF GivesUp
    <3> QED BY <1>3, <2>5, <3>1, <3>2 DEF RetryOnlyWhileHere
  <2> QED BY <1>3, <2>0, <2>4, <2>5, <2>6
       DEF PumpInv, TimerIffOpen, Current, PublishNow
<1> QED BY <1>1, <1>2, <1>3 DEF Attach

\* on_bluez() leaves the pump in order.
LEMMA OnBluezKeeps ==
    ASSUME PumpInv, NEW k \in Knowledge, OnBluez(k)
    PROVE  PumpInv' /\ attempts' = Opened
<1> USE MaxAttemptsType
<1>1. CASE k.connected
  BY <1>1, AttachKeeps DEF OnBluez, Opened
<1>2. CASE ~k.connected /\ phase # "Closed"
  <2>1. Detach("pods left") /\ attempts' = 0 /\ retry' = FALSE
    BY <1>2 DEF OnBluez
  <2>2. status' \in Statuses
    BY <2>1 DEF Detach, Statuses
  <2>3. published' \in Snapshots
    BY <2>1, <2>2, ChannelTypes DEF Detach, PublishNow, Snapshot, Snapshots
  <2>0. attempts' = Opened /\ attempts' \in 0..MaxAttempts
    <3>1. Opened = 0
      BY <2>1 DEF Detach, ChClose, Opened
    <3>2. attempts' = 0
      BY <2>1
    <3> QED BY <3>1, <3>2
  <2>4. PumpType'
    BY <2>0, <2>1, <2>2, <2>3, ChannelTypes DEF PumpType, Detach
  <2> QED BY <2>0, <2>1, <2>4
       DEF PumpInv, TimerIffOpen, RetryOnlyWhileHere, Current, PublishNow, Detach, ChClose
<1>3. CASE ~k.connected /\ phase = "Closed"
  <2>1. /\ attempts' = 0 /\ retry' = FALSE /\ ChForget /\ PublishNow
        /\ UNCHANGED timer /\ status' \in Statuses
    BY <1>3 DEF OnBluez, Statuses
  <2>2. published' \in Snapshots
    BY <2>1, ChannelTypes DEF PublishNow, Snapshot, Snapshots
  <2>0. attempts' = Opened /\ attempts' \in 0..MaxAttempts
    BY <2>1 DEF ChForget, Opened
  <2>3. PumpType'
    BY <2>0, <2>1, <2>2, ChannelTypes DEF PumpType, PumpInv
  <2> QED BY <1>3, <2>0, <2>1, <2>3
       DEF PumpInv, TimerIffOpen, RetryOnlyWhileHere, Current, PublishNow, ChForget
<1> QED BY <1>1, <1>2, <1>3

\* A dispatch that does not reach the pump leaves it as it was.
LEMMA ForgetKeeps ==
    ASSUME PumpInv, ChForget, UNCHANGED <<pumpVars, watching, known>>
    PROVE  PumpInv' /\ attempts' = attempts + Opened
<1>1. PumpType' /\ attempts' = attempts + Opened
  BY ChannelTypes, MaxAttemptsType DEF PumpInv, PumpType, pumpVars, ChForget, Opened
<1>2. Snapshot' = Snapshot
  BY DEF Snapshot, ChForget, pumpVars
<1> QED BY <1>1, <1>2
     DEF PumpInv, TimerIffOpen, RetryOnlyWhileHere, Current, ChForget, pumpVars

\* update() tells the pump of a change, and of nothing else.
LEMMA UpdateKeeps ==
    ASSUME PumpInv, NEW k \in Knowledge, Update(k), UNCHANGED watching
    PROVE  /\ PumpInv'
           /\ known' = k
           /\ attempts' = (IF known' # known THEN 0 ELSE attempts) + Opened
<1>1. CASE k # known
  <2>1. Opened \in Nat
    BY DEF Opened
  <2> QED BY <1>1, <2>1, OnBluezKeeps DEF Update
<1>2. CASE k = known
  BY <1>2, ForgetKeeps DEF Update
<1> QED BY <1>1, <1>2

\* A tick leaves the pump in order: it publishes whenever the step was not
\* idle, and stops the timer exactly when the step closed the channel.
LEMMA TickKeeps ==
    ASSUME PumpInv, Tick
    PROVE  PumpInv' /\ attempts' = attempts + Opened
<1>0. phase # "Closed" /\ timer
  BY DEF Tick, PumpInv, TimerIffOpen
<1>1. ChStepIdle \/ ChStepActive
  BY <1>0 DEF Tick, ChStep, ChStepNotOpen
<1>2. result' = "none"
  BY <1>1 DEF ChStepIdle, ChStepActive
<1>3. UNCHANGED <<retry, attempts, watching, known>>
  BY DEF Tick, watchVars
<1>4. attempts' = attempts + Opened
  BY <1>2, <1>3 DEF Opened, PumpInv, PumpType
<1>5. ~retry
  BY <1>0 DEF PumpInv, RetryOnlyWhileHere
<1>6. CASE ChStepIdle
  <2>1. out' = PlainStep(TRUE, FALSE) /\ UNCHANGED <<phase, battery, refusals>>
    BY <1>6 DEF ChStepIdle
  <2>2. out' \in StepResults /\ ~out'.closed /\ Idle(out')
    BY <2>1 DEF PlainStep, StepResults, Idle
  <2>3. UNCHANGED <<timer, status, published>>
    BY <2>2 DEF Tick
  <2>4. Snapshot' = Snapshot
    BY <2>1, <2>3 DEF Snapshot
  <2>5. PumpType'
    BY <1>2, <1>3, <2>1, <2>2, <2>3 DEF PumpInv, PumpType
  <2> QED BY <1>3, <1>4, <1>5, <2>1, <2>3, <2>4, <2>5
       DEF PumpInv, TimerIffOpen, RetryOnlyWhileHere, Current
<1>7. CASE ChStepActive
  <2>1. /\ out' \in StepResults /\ ~Idle(out') /\ phase' \in Phases
        /\ out'.closed <=> phase' = "Closed"
    BY <1>7 DEF ChStepActive
  <2>2. battery' \in Readings \cup {NoReading} /\ refusals' \in Nat
    BY <1>7 DEF ChStepActive, PumpInv, PumpType
  <2>3. PublishNow
    BY <2>1 DEF Tick
  <2>4. status' \in Statuses
    BY DEF Tick, PumpInv, PumpType, Statuses
  <2>5. timer' \in BOOLEAN /\ (timer' <=> ~out'.closed)
    BY <1>0 DEF Tick, PumpInv, PumpType
  <2>6. published' \in Snapshots
    BY <2>1, <2>2, <2>3, <2>4 DEF PublishNow, Snapshot, Snapshots
  <2>7. PumpType'
    BY <1>2, <1>3, <2>1, <2>2, <2>4, <2>5, <2>6 DEF PumpInv, PumpType
  <2> QED BY <1>3, <1>4, <1>5, <2>1, <2>3, <2>5, <2>7
       DEF PumpInv, TimerIffOpen, RetryOnlyWhileHere, Current, PublishNow
<1> QED BY <1>1, <1>6, <1>7

\* The history counts the open() calls the way the pump counts its attempts.
LEMMA RememberKeeps ==
    ASSUME IInv, PumpInv', Remember,
           attempts' = (IF known' # known THEN 0 ELSE attempts) + Opened
    PROVE  opens' = attempts' /\ opens' \in Nat
<1>1. opens' = (IF known' # known THEN 0 ELSE opens) + Opened
  BY DEF Remember, Opened
<1>2. opens = attempts
  BY DEF IInv, Budget
<1>3. opens' = attempts'
  BY <1>1, <1>2
<1>4. attempts' \in Nat
  BY MaxAttemptsType DEF PumpInv, PumpType
<1> QED BY <1>3, <1>4

\* A scan finds the device, or nothing.
LEMMA ScanType ==
    ASSUME WorldType
    PROVE  ScanResults \subseteq Knowledge
<1>1. Absent \in Knowledge
  BY DEF Absent, Knowledge
<1>2. bluez.dev \in Knowledge
  BY DEF WorldType
<1> QED BY <1>1, <1>2 DEF ScanResults

\* Everything that one dispatch or one event of bluetoothd can do.
LEMMA IInvStep ==
    ASSUME IInv, [Next]_vars
    PROVE  IInv'
<1> USE MaxAttemptsType
<1>p. PumpInv /\ WorldType /\ Budget
  BY DEF IInv
<1>d. deaf' \in BOOLEAN
  BY <1>p DEF WorldType, vars, Next, Loop, Environment, StartWatching, StartBlind,
     OnPropsChanged, OnInterfacesChanged, OnBluezAppeared, OnBluezVanished,
     RescanFires, Rescan, RetryFires, Tick, Happens, DeviceConnects,
     DeviceDisconnects, TreeMoves, DeviceRemoved, DeviceAdded, BluezStops,
     BluezStarts
<1>1. ASSUME StartWatching PROVE IInv'
  <2>1. known' \in Knowledge
    BY <1>1, <1>p, ScanType DEF StartWatching
  <2>2. PumpInv' /\ attempts' = Opened
    BY <1>1, <1>p, <2>1, OnBluezKeeps DEF StartWatching
  <2>3. attempts = 0
    BY <1>1, <1>p DEF StartWatching, Budget
  <2>4. opens' = attempts' /\ opens' \in Nat
    <3>1. attempts' = (IF known' # known THEN 0 ELSE attempts) + Opened
      BY <2>2, <2>3 DEF Opened
    <3> QED BY <1>1, <2>2, <3>1, RememberKeeps DEF StartWatching
  <2>5. signals' \in Seq(Signals)
    <3>1. [kind |-> IF bluez.up THEN "appeared" ELSE "vanished"] \in Signals
      BY DEF Signals
    <3> QED BY <1>1, <3>1 DEF StartWatching
  <2>6. started' = TRUE /\ watching' = TRUE /\ UNCHANGED <<rescanDue, bluez, events>>
    BY <1>1 DEF StartWatching
  <2> QED BY <1>d, <1>p, <2>1, <2>2, <2>4, <2>5, <2>6 DEF IInv, WorldType, Budget
<1>2. ASSUME StartBlind PROVE IInv'
  <2>1. /\ UNCHANGED <<watching, known, rescanDue, bluez, signals, events>>
        /\ started' = TRUE /\ ~started
    BY <1>2 DEF StartBlind, watchVars, envVars
  <2>2. PumpInv' /\ attempts' = 0 + Opened
    BY <1>2, <1>p, AttachKeeps DEF StartBlind
  <2>3. attempts = 0
    BY <2>1, <1>p DEF Budget
  <2>4. opens' = attempts' /\ opens' \in Nat
    <3>1. attempts' = (IF known' # known THEN 0 ELSE attempts) + Opened
      BY <2>2, <2>3 DEF Opened
    <3> QED BY <1>2, <2>2, <3>1, RememberKeeps DEF StartBlind
  <2>5. attempts' <= 1
    BY <2>2 DEF Opened
  <2> QED BY <1>d, <1>p, <2>1, <2>2, <2>4, <2>5 DEF IInv, WorldType, Budget
<1>3. ASSUME watching, started,
             PumpInv', Remember, UNCHANGED <<started, watching>>,
             known' \in Knowledge, rescanDue' \in BOOLEAN,
             bluez' \in [up : BOOLEAN, dev : Knowledge],
             signals' \in Seq(Signals), events' \in Nat,
             attempts' = (IF known' # known THEN 0 ELSE attempts) + Opened
      PROVE  IInv'
  <2>1. opens' = attempts' /\ opens' \in Nat
    BY <1>3, RememberKeeps
  <2> QED BY <1>d, <1>3, <1>p, <2>1 DEF IInv, WorldType, Budget
<1>4. ASSUME NEW kind, Dispatch(kind)
      PROVE  /\ watching /\ started /\ UNCHANGED <<started, watching, bluez, events>>
             /\ signals' \in Seq(Signals)
  BY <1>4, <1>p, HeadTailProperties DEF Dispatch, WorldType
<1>5. rescanDue \in BOOLEAN /\ known \in Knowledge
      /\ bluez \in [up : BOOLEAN, dev : Knowledge] /\ signals \in Seq(Signals)
      /\ events \in Nat
  BY <1>p DEF WorldType
<1>6. ASSUME OnPropsChanged PROVE IInv'
  <2> DEFINE s == Head(signals)
             k == [connected |-> s.connected, path |-> known.path]
  <2>1. /\ Dispatch("props") /\ UNCHANGED rescanDue /\ Remember
        /\ IF known.path = s.path
           THEN Update(k)
           ELSE ChForget /\ UNCHANGED <<pumpVars, known>>
    BY <1>6 DEF OnPropsChanged
  <2>2. s \in Signals /\ s.kind = "props"
    BY <2>1, <1>p, HeadTailProperties DEF Dispatch, WorldType
  <2>3. k \in Knowledge
    BY <1>5, <2>2 DEF Signals, Knowledge
  <2> HIDE DEF s, k
  <2>4. CASE known.path = s.path
    <3>1. /\ PumpInv' /\ known' = k
          /\ attempts' = (IF known' # known THEN 0 ELSE attempts) + Opened
      BY <1>4, <1>p, <2>1, <2>3, <2>4, UpdateKeeps
    <3> QED BY <1>3, <1>4, <1>5, <2>1, <2>3, <3>1
  <2>5. CASE known.path # s.path
    <3>1. PumpInv' /\ known' = known /\ attempts' = attempts + Opened
      BY <1>4, <1>p, <2>1, <2>5, ForgetKeeps
    <3> QED BY <1>3, <1>4, <1>5, <2>1, <3>1
  <2> QED BY <2>4, <2>5
<1>7. ASSUME OnInterfacesChanged PROVE IInv'
  <2>1. /\ Dispatch("interfaces") /\ rescanDue' = TRUE /\ Remember
        /\ ChForget /\ UNCHANGED <<pumpVars, known>>
    BY <1>7 DEF OnInterfacesChanged
  <2>2. PumpInv' /\ known' = known /\ attempts' = attempts + Opened
    BY <1>4, <1>p, <2>1, ForgetKeeps
  <2> QED BY <1>3, <1>4, <1>5, <2>1, <2>2
<1>8. ASSUME UNCHANGED watching, Rescan
      PROVE  /\ PumpInv' /\ known' \in Knowledge
             /\ attempts' = (IF known' # known THEN 0 ELSE attempts) + Opened
  <2>1. PICK k \in ScanResults : Update(k)
    BY <1>8 DEF Rescan
  <2>2. k \in Knowledge
    BY <1>p, ScanType
  <2> QED BY <1>8, <1>p, <2>1, <2>2, UpdateKeeps
<1>9. ASSUME OnBluezAppeared PROVE IInv'
  BY <1>3, <1>4, <1>5, <1>8, <1>9 DEF OnBluezAppeared
<1>10. ASSUME OnBluezVanished PROVE IInv'
  <2>1. Absent \in Knowledge
    BY DEF Absent, Knowledge
  <2>2. Dispatch("vanished") /\ Update(Absent) /\ UNCHANGED rescanDue /\ Remember
    BY <1>10 DEF OnBluezVanished
  <2>3. /\ PumpInv' /\ known' = Absent
        /\ attempts' = (IF known' # known THEN 0 ELSE attempts) + Opened
    BY <1>4, <1>p, <2>1, <2>2, UpdateKeeps
  <2> QED BY <1>3, <1>4, <1>5, <2>1, <2>2, <2>3
<1>11. ASSUME RescanFires PROVE IInv'
  <2>1. watching /\ started
    BY <1>11, <1>p DEF RescanFires, Budget
  <2>2. /\ UNCHANGED <<started, watching, bluez, signals, events>>
        /\ rescanDue' = FALSE /\ Rescan /\ Remember
    BY <1>11 DEF RescanFires, envVars
  <2> QED BY <1>3, <1>5, <1>8, <2>1, <2>2
<1>12. ASSUME RetryFires PROVE IInv'
  <2>1. /\ retry /\ Attach(attempts) /\ Remember
        /\ UNCHANGED <<started, watching, known, rescanDue, bluez, signals, events>>
    BY <1>12 DEF RetryFires, watchVars, envVars
  <2>2. watching /\ started /\ attempts \in 0..(MaxAttempts - 1)
    BY <1>p, <2>1 DEF PumpInv, RetryOnlyWhileHere, Budget
  <2>3. PumpInv' /\ attempts' = attempts + Opened
    BY <1>p, <2>1, <2>2, AttachKeeps
  <2> QED BY <1>3, <1>5, <2>1, <2>2, <2>3
<1>13. ASSUME PumpInv', Remember, attempts' = attempts, Opened = 0,
              UNCHANGED <<started, watching, known, rescanDue>>,
              bluez' \in [up : BOOLEAN, dev : Knowledge],
              signals' \in Seq(Signals), events' \in Nat
       PROVE  IInv'
  <2>1. attempts' = (IF known' # known THEN 0 ELSE attempts) + Opened
    BY <1>13, <1>p DEF PumpInv, PumpType
  <2>2. opens' = attempts' /\ opens' \in Nat
    BY <1>13, <2>1, RememberKeeps
  <2> QED BY <1>d, <1>13, <1>p, <2>2 DEF IInv, WorldType, Budget
<1>14. ASSUME Tick PROVE IInv'
  <2>1. PumpInv' /\ attempts' = attempts + Opened
    BY <1>14, <1>p, TickKeeps
  <2>2. /\ Remember /\ attempts' = attempts
        /\ UNCHANGED <<started, watching, known, rescanDue, bluez, signals, events>>
    BY <1>14 DEF Tick, watchVars, envVars
  <2>3. Opened = 0
    BY <2>1, <2>2, <1>p DEF Opened, PumpInv, PumpType
  <2> QED BY <1>5, <1>13, <2>1, <2>2, <2>3
<1>15. ASSUME NEW b \in [up : BOOLEAN, dev : Knowledge],
              NEW sigs \in Seq(Signals), Happens(b, sigs)
       PROVE  IInv'
  <2>1. /\ ChForget /\ Remember /\ bluez' = b /\ events' = events + 1
        /\ UNCHANGED <<started, pumpVars, watchVars>>
        /\ signals' = signals \/ signals' = signals \o sigs
    BY <1>15 DEF Happens
  <2>2. PumpInv' /\ attempts' = attempts
    BY <1>p, <2>1, ForgetKeeps DEF watchVars, pumpVars
  <2>3. Opened = 0
    BY <2>1 DEF ChForget, Opened
  <2>4. signals' \in Seq(Signals)
    <3>1. signals \o sigs \in Seq(Signals)
      BY <1>5, <1>15, ConcatProperties
    <3> QED BY <1>5, <2>1, <3>1
  <2> QED BY <1>5, <1>13, <2>1, <2>2, <2>3, <2>4 DEF watchVars
<1>16. ASSUME NEW p \in Paths, NEW c \in BOOLEAN
       PROVE  <<Props(p, c)>> \in Seq(Signals)
  <2>1. Props(p, c) \in Signals
    BY DEF Props, Signals
  <2> QED BY <2>1
<1>17. /\ <<Interfaces>> \in Seq(Signals)
       /\ <<[kind |-> "vanished"]>> \in Seq(Signals)
       /\ <<[kind |-> "appeared"]>> \in Seq(Signals)
  <2>1. /\ Interfaces \in Signals /\ [kind |-> "vanished"] \in Signals
        /\ [kind |-> "appeared"] \in Signals
    BY DEF Interfaces, Signals
  <2> QED BY <2>1
<1>18. bluez.dev.path # NoPath => bluez.dev.path \in Paths
  BY <1>5 DEF Knowledge
<1>19. Absent \in Knowledge
  BY DEF Absent, Knowledge
<1>20. ASSUME DeviceConnects PROVE IInv'
  <2>1. [bluez EXCEPT !.dev.connected = TRUE] \in [up : BOOLEAN, dev : Knowledge]
    BY <1>5 DEF Knowledge
  <2>2. <<Props(bluez.dev.path, TRUE)>> \in Seq(Signals)
    BY <1>16, <1>18, <1>20 DEF DeviceConnects
  <2> QED BY <1>15, <1>20, <2>1, <2>2 DEF DeviceConnects
<1>21. ASSUME DeviceDisconnects PROVE IInv'
  <2>1. [bluez EXCEPT !.dev.connected = FALSE] \in [up : BOOLEAN, dev : Knowledge]
    BY <1>5 DEF Knowledge
  <2>2. <<Props(bluez.dev.path, FALSE)>> \in Seq(Signals)
    BY <1>16, <1>18, <1>21 DEF DeviceDisconnects
  <2> QED BY <1>15, <1>21, <2>1, <2>2 DEF DeviceDisconnects
<1>22. ASSUME TreeMoves PROVE IInv'
  BY <1>5, <1>15, <1>17, <1>22 DEF TreeMoves
<1>23. ASSUME DeviceRemoved PROVE IInv'
  <2> DEFINE first == IF bluez.dev.connected THEN <<Props(bluez.dev.path, FALSE)>>
                                             ELSE <<>>
  <2>1. [bluez EXCEPT !.dev = Absent] \in [up : BOOLEAN, dev : Knowledge]
    BY <1>5, <1>19
  <2>2. bluez.dev.path \in Paths
    BY <1>18, <1>23 DEF DeviceRemoved
  <2>3. <<Props(bluez.dev.path, FALSE)>> \in Seq(Signals)
    BY <1>16, <2>2
  <2>4. first \in Seq(Signals)
    BY <2>3, EmptySeq
  <2>5. Happens([bluez EXCEPT !.dev = Absent], first \o <<Interfaces>>)
    BY <1>23 DEF DeviceRemoved
  <2> HIDE DEF first
  <2>6. first \o <<Interfaces>> \in Seq(Signals)
    BY <1>17, <2>4, ConcatProperties
  <2> QED BY <1>15, <2>1, <2>5, <2>6
<1>24. ASSUME DeviceAdded PROVE IInv'
  <2>1. PICK p \in Paths, c \in BOOLEAN :
            Happens([bluez EXCEPT !.dev = [connected |-> c, path |-> p]],
                    <<Interfaces>>)
    BY <1>24 DEF DeviceAdded
  <2>2. [connected |-> c, path |-> p] \in Knowledge
    BY DEF Knowledge
  <2>3. [bluez EXCEPT !.dev = [connected |-> c, path |-> p]]
            \in [up : BOOLEAN, dev : Knowledge]
    BY <1>5, <2>2
  <2> QED BY <1>15, <1>17, <2>1, <2>3
<1>25. ASSUME BluezStops PROVE IInv'
  <2>1. [up |-> FALSE, dev |-> Absent] \in [up : BOOLEAN, dev : Knowledge]
    BY <1>19
  <2> QED BY <1>15, <1>17, <1>25, <2>1 DEF BluezStops
<1>26. ASSUME BluezStarts PROVE IInv'
  <2>1. PICK k \in {Absent} \cup [connected : {FALSE}, path : Paths] :
            Happens([up |-> TRUE, dev |-> k], <<[kind |-> "appeared"]>>)
    BY <1>26 DEF BluezStarts
  <2>2. k \in Knowledge
    BY <1>19 DEF Knowledge
  <2>3. [up |-> TRUE, dev |-> k] \in [up : BOOLEAN, dev : Knowledge]
    BY <2>2
  <2> QED BY <1>15, <1>17, <2>1, <2>3
<1>27. ASSUME UNCHANGED vars PROVE IInv'
  <2>1. PumpInv'
    BY <1>27, <1>p
       DEF vars, chVars, pumpVars, watchVars, PumpInv, PumpType, TimerIffOpen,
           RetryOnlyWhileHere, Current, Snapshot
  <2> QED BY <1>27, <1>p, <2>1
       DEF vars, pumpVars, watchVars, envVars, IInv, WorldType, Budget
<1> QED
  BY <1>1, <1>2, <1>6, <1>7, <1>9, <1>10, <1>11, <1>12, <1>14, <1>20, <1>21,
     <1>22, <1>23, <1>24, <1>25, <1>26, <1>27
     DEF Next, Loop, Environment

LEMMA Invariance == Spec => []IInv
<1>1. Init => IInv
  <2> SUFFICES ASSUME Init PROVE IInv
    OBVIOUS
  <2>1. bluez \in [up : BOOLEAN, dev : Knowledge]
    <3>1. PICK k \in Knowledge :
            bluez \in {[up |-> TRUE, dev |-> k], [up |-> FALSE, dev |-> Absent]}
      BY DEF Init
    <3>2. Absent \in Knowledge
      BY DEF Absent, Knowledge
    <3>3. [up |-> TRUE, dev |-> k] \in [up : BOOLEAN, dev : Knowledge]
      OBVIOUS
    <3>4. [up |-> FALSE, dev |-> Absent] \in [up : BOOLEAN, dev : Knowledge]
      BY <3>2
    <3> QED BY <3>1, <3>3, <3>4
  <2>2. /\ phase = "Closed" /\ battery = NoReading /\ refusals = 0
        /\ status = "starting" /\ out = NoStep /\ result = "none"
    BY DEF Init, ChInit
  <2>3. PumpType
    <3>1. /\ phase \in Phases /\ battery \in Readings \cup {NoReading}
          /\ refusals \in Nat /\ status \in Statuses
      BY <2>2 DEF Phases, Statuses
    <3>2. (phase # "Closed") \in BOOLEAN
      OBVIOUS
    <3>3. Snapshot \in Snapshots
      BY <3>1, <3>2 DEF Snapshot, Snapshots
    <3>4. published \in Snapshots
      BY <3>3 DEF Init
    <3>5. {started, watching, timer, retry, rescanDue} \subseteq BOOLEAN
      BY DEF Init
    <3>6. attempts \in 0..MaxAttempts
      BY MaxAttemptsType DEF Init
    <3>7. out \in StepResults
      BY <2>2, NoStepType
    <3> QED BY <2>2, <3>1, <3>4, <3>5, <3>6, <3>7 DEF PumpType
  <2>4. WorldType
    <3>1. signals \in Seq(Signals)
      BY DEF Init
    <3>2. known \in Knowledge
      BY DEF Init, Absent, Knowledge
    <3> QED BY <2>1, <3>1, <3>2 DEF Init, WorldType
  <2> QED BY <2>3, <2>4
       DEF Init, ChInit, IInv, PumpInv, TimerIffOpen, RetryOnlyWhileHere,
           Current, Budget
<1> QED BY <1>1, IInvStep, PTL DEF Spec

\* Every variable of the pump and the watch keeps its type; in particular
\* attempts_ - 1 stays an index of kRetryMs when a retry is scheduled.
THEOREM TypeCorrect == Spec => []TypeOK
<1>1. IInv => TypeOK
  BY DEF IInv, PumpInv, PumpType, WorldType, TypeOK
<1> QED BY <1>1, Invariance, PTL

\* The tick runs exactly while the channel is open.
THEOREM TimerCorrect == Spec => []TimerIffOpen
<1>1. IInv => TimerIffOpen
  BY DEF IInv, PumpInv
<1> QED BY <1>1, Invariance, PTL

\* The retry cannot run while the watch says the pods are away.
THEOREM RetryCorrect == Spec => []RetryOnlyWhileHere
<1>1. IInv => RetryOnlyWhileHere
  BY DEF IInv, PumpInv
<1> QED BY <1>1, Invariance, PTL

\* However often the link flaps, no report of the watch is worth more than
\* MaxAttempts calls of open().
THEOREM AttemptsCorrect == Spec => []AttemptsBounded
<1>1. IInv => AttemptsBounded
  BY MaxAttemptsType DEF IInv, PumpInv, PumpType, Budget, AttemptsBounded
<1> QED BY <1>1, Invariance, PTL

\* What is published is what is true of the session and the pump.
THEOREM PublishedCorrect == Spec => []PublishedIsCurrent
<1>1. IInv => PublishedIsCurrent
  BY DEF IInv, PumpInv, Current, PublishedIsCurrent
<1> QED BY <1>1, Invariance, PTL

-----------------------------------------------------------------------------
(***************************************************************************)
(* Refinement: every step of the daemon is a step of the channel, and so,  *)
(* what is published being current, a step of the feed.                    *)
(***************************************************************************)
LEMMA OnBluezIsChannelStep ==
    ASSUME NEW k, OnBluez(k)
    PROVE  ChNext
<1>1. ASSUME Attach(0) PROVE ChNext
  BY <1>1 DEF Attach, ChNext
<1> QED BY <1>1 DEF OnBluez, Detach, ChNext

LEMMA NextIsChannelStep == Next => ChNext
<1> SUFFICES ASSUME Next PROVE ChNext
  OBVIOUS
<1>1. ASSUME NEW k, Update(k) PROVE ChNext
  BY <1>1, OnBluezIsChannelStep DEF Update, ChNext
<1>2. ASSUME NEW n, Attach(n) PROVE ChNext
  BY <1>2 DEF Attach, ChNext
<1>3. CASE Environment
  BY <1>3 DEF Environment, DeviceConnects, DeviceDisconnects, TreeMoves,
              DeviceRemoved, DeviceAdded, BluezStops, BluezStarts, Happens, ChNext
<1>4. CASE StartWatching
  BY <1>4, OnBluezIsChannelStep DEF StartWatching
<1>5. CASE StartBlind \/ RetryFires
  BY <1>2, <1>5 DEF StartBlind, RetryFires
<1>6. CASE OnPropsChanged
  BY <1>1, <1>6 DEF OnPropsChanged, ChNext
<1>7. CASE OnInterfacesChanged
  BY <1>7 DEF OnInterfacesChanged, ChNext
<1>8. CASE OnBluezAppeared \/ RescanFires
  BY <1>1, <1>8 DEF OnBluezAppeared, RescanFires, Rescan
<1>9. CASE OnBluezVanished
  BY <1>1, <1>9 DEF OnBluezVanished
<1>10. CASE Tick
  BY <1>10 DEF Tick, ChNext
<1> QED BY <1>3, <1>4, <1>5, <1>6, <1>7, <1>8, <1>9, <1>10 DEF Next, Loop

\* The channel opens, closes, or reports on an open channel, one at a time.
LEMMA ChannelStepFeeds ==
    ASSUME ChNext, phase \in Phases
    PROVE  \/ phase = "Closed" /\ phase' # "Closed" /\ battery' = battery
           \/ phase # "Closed" /\ phase' = "Closed" /\ battery' = battery
           \/ phase # "Closed" /\ phase' # "Closed" /\ battery' \in Readings
           \/ (phase = "Closed" <=> phase' = "Closed") /\ battery' = battery
<1>1. CASE ChStepActive
  BY <1>1 DEF ChStepActive
<1>2. CASE ChOpenOk \/ ChOpenFails \/ ChClose \/ ChForget
  BY <1>2 DEF ChOpenOk, ChOpenFails, ChClose, ChForget
<1>3. CASE ChStepNotOpen \/ ChStepIdle
  BY <1>3 DEF ChStepNotOpen, ChStepIdle
<1> QED BY <1>1, <1>2, <1>3 DEF ChNext, ChStep

\* The daemon feeds its service and its provider as module Feed promises,
\* whatever the pods, bluetoothd and the main loop do.
THEOREM LifecycleImplementsFeed == Spec => ImplementsFeed
<1> DEFINE Now == [open |-> phase # "Closed", battery |-> battery]
<1>1. Current => Fed = Now
  BY DEF Current, Fed, Snapshot
<1>2. Init => Publishes!FeedInit
  <2> SUFFICES ASSUME Init PROVE Fed = [open |-> FALSE, battery |-> NoReading]
    BY DEF Publishes!FeedInit, Publishes!NoState
  <2>1. phase = "Closed" /\ battery = NoReading /\ published = Snapshot
    BY DEF Init, ChInit
  <2> QED BY <2>1 DEF Fed, Snapshot
<1>3. IInv /\ IInv' /\ [Next]_vars => [Publishes!FeedNext]_Fed
  <2> SUFFICES ASSUME IInv, IInv', [Next]_vars
               PROVE  Publishes!FeedNext \/ Fed' = Fed
    OBVIOUS
  <2>1. Fed = Now /\ Fed' = Now' /\ phase \in Phases
    BY <1>1 DEF IInv, PumpInv, PumpType, Current, Fed, Snapshot
  <2>2. CASE UNCHANGED vars
    BY <2>2 DEF vars, pumpVars, Fed
  <2>3. CASE Next
    <3>1. \/ phase = "Closed" /\ phase' # "Closed" /\ battery' = battery
          \/ phase # "Closed" /\ phase' = "Closed" /\ battery' = battery
          \/ phase # "Closed" /\ phase' # "Closed" /\ battery' \in Readings
          \/ (phase = "Closed" <=> phase' = "Closed") /\ battery' = battery
      BY <2>1, <2>3, NextIsChannelStep, ChannelStepFeeds
    <3>a. Fed.open = (phase # "Closed") /\ Fed.battery = battery
      BY <2>1
    <3>2. CASE phase = "Closed" /\ phase' # "Closed" /\ battery' = battery
      <4>1. Fed' = [open |-> TRUE, battery |-> Fed.battery]
        BY <2>1, <3>2, <3>a
      <4> QED BY <3>2, <3>a, <4>1 DEF Publishes!FeedNext, Publishes!FeedOpens
    <3>3. CASE phase # "Closed" /\ phase' = "Closed" /\ battery' = battery
      <4>1. Fed' = [open |-> FALSE, battery |-> Fed.battery]
        BY <2>1, <3>3, <3>a
      <4> QED BY <3>3, <3>a, <4>1 DEF Publishes!FeedNext, Publishes!FeedCloses
    <3>4. CASE phase # "Closed" /\ phase' # "Closed" /\ battery' \in Readings
      <4>1. Fed' = [open |-> TRUE, battery |-> battery']
        BY <2>1, <3>4
      <4> QED BY <3>4, <3>a, <4>1 DEF Publishes!FeedNext, Publishes!FeedReports
    <3>5. CASE (phase = "Closed" <=> phase' = "Closed") /\ battery' = battery
      BY <2>1, <3>5
    <3> QED BY <3>1, <3>2, <3>3, <3>4, <3>5
  <2> QED BY <2>2, <2>3
<1> QED BY <1>2, <1>3, Invariance, PTL DEF Spec, ImplementsFeed, Publishes!FeedSpec
=============================================================================
