# airprobe in TLA+

A verification development of airprobe: TLA+ modules translated from the source,
TLC runs on small instances, and TLAPS proofs of what holds for every instance.
`PROJECT.json` lists the runs, the mutants, the map from definitions to source
lines, the hazards and the findings.

## The system

airprobe reads the battery of a pair of AirPods over Apple's accessory protocol
(AAP, an L2CAP channel) and puts it on the desktop.

| Part | Source | State it keeps | Operations |
|---|---|---|---|
| `AapSocket` | `lib/src/aap_socket.cpp` | a descriptor | connect, write, read one packet, close |
| `Session` | `lib/src/session.cpp` | phase, ack and re-send clocks, cached report, refusals | `open`, `step`, `close` |
| Battery parser | `lib/src/aap_battery.cpp` | none | `parse_battery` |
| `Pump` | `daemon/src/pump.cpp` | the session, tick timer, retry timer, attempts, status | start, attach, retry, detach, tick, publish |
| `BluezWatch` | `daemon/src/bluez_watch.cpp` | where BlueZ says the pods are, a debounced rescan | scan, four callbacks |
| `BatteryProvider` | `daemon/src/battery_provider.cpp` | registration, device path, announced object | register, publish, answer `GetManagedObjects` |
| `DbusService` | `daemon/src/dbus_service.cpp` | the published `State` | own the name, serve properties, signal changes |
| Tile | `shell-extension/.../extension.js` | a proxy, an age, a timer | appear, vanish, refresh, render, destroy |
| Formatting | `shell-extension/.../format.js` | none | ages, subtitles, warnings |
| CLI probe | `cli/src/main.cpp` | a transcript, counters | run loop, capture |

The daemon is one GLib main loop: the tick (200 ms), the retry, the rescan and the
D-Bus callbacks are its sources, so a callback is a critical section and the
hazards are in the order of callbacks. The watch calls the pump, the pump drives
the session and hands every `State` to the service and to the provider. The pods,
bluetoothd and the bus run on their own.

What is hard here: packets, acks, timeouts and hangups in any order, one packet per
step; a session object that is opened again with what it cached; signals that
wait in a queue while a synchronous scan sees the present; three sources that all
open or close the channel; a registration that is in flight while bluetoothd
restarts; a number that must not outlive its truth. The probe has no
main loop: it steps the session by itself and keeps a transcript. `PROJECT.json` lists these as
hazards at their lines, with the properties that cover each.

## Modules

```
Channel <--implements-- Session        Feed <--implements-- Lifecycle
   |                       |             |
   +--composed into-->     +--> Cli      +--composed into--> Provider
      Lifecycle                          +--composed into--> Service --> Tile

Battery --composed into--> Display

proofs:  Session <- SessionProofs        Lifecycle <- LifecycleProofs
         Cli <- CliProofs (over SessionProofs)
         Provider <- ProviderProofs      Tile <- TileProofs
         Battery <- BatteryProofs        Display <- DisplayProofs (over BatteryProofs)

MCSession, MCCli, MCLifecycle, MCProvider, MCTile, MCBattery: instances
```

**Session** models `Session` over `AapSocket`. A call of `open()` or `step()` is one
action per way it can end: `Open` is refused at a stage of `connect_to`, waits for
the ack, writes everything up front, or fails in a write; `Step` is not open, fails
in the write of a timeout or of the re-send, meets a hangup, reads nothing, is
interrupted (EINTR), reads a packet, or reads the ack that advances the sequence,
whose own write may fail. The order inside the call is the code's: timeout, then
re-send, then read, then battery, then ack. `TimedOut`, `ResendDue` and the
`...AfterTimers` operators are what the first two parts leave for the rest.
Packets are kept by what the code tells apart (`Kinds`), clocks as ages in units
that saturate just past the threshold they are compared with. A blocking `poll()`
is the same as time passing between steps. `cfg` is the `SessionConfig`, any of
`Configs`, chosen when the session is made. `rx` and `hup` are the kernel's;
`wire`, `heard` and `waited` are history.

**Cli** is `main()` of the probe over Session: the arguments, `open()` with its two ways
to fail, one turn of the loop per way a step can end, the signal, the summary and the
exit code. It extends Session, so that every write, timeout and refusal of the
handshake happens inside the probe's turn. The transcript is a sequence of entries
(sent, received, note, parsed) and each entry is written where the code writes it: the
hook's inside `step()`, the note, the packet and the parse after it. A packet read in
the step that closes the channel is left out, as in the code. A transcript file that
cannot be opened is the same as `--no-capture`.

**Channel** is what a consumer of `Session` may rely on, in its five visible
values; Session implements it. An idle step changes nothing visible, only an
accepted report replaces the cached one, a refused one is counted and noted,
neither `close()` nor `open()` touches the cache.

**Lifecycle** composes `Pump` and `BluezWatch` with Channel and with bluetoothd as
an environment. One action is one dispatch. Bluetoothd connects and disconnects
the device, moves its object tree, removes and adds the device under another path,
stops and starts; each puts its signals into a queue. A scan answers with the
present, whatever is queued (or fails, `RescanMayFail`). `primed_` is not a
variable: it is false only until the scan in `start()`, which is always reported.
The 200 ms debounce is the flag `rescanDue`, and the delay of a retry is left open.
`opens` and `deaf` (the last scan failed and missed the device) are history.

**Feed** is what the pump promises the publish callback of `main.cpp`: the channel
opens and closes with the reading it had, and a reading changes only to a report
parsed on an open channel. Lifecycle implements it.

**Provider** composes `BatteryProvider` with Feed and with the part of bluetoothd
it talks to, with an ordered queue of messages in each direction. bluetoothd
may stop and start, fail a scan, lose a reply, have its adapter pulled and plugged, and
have the device removed and paired again, under the same path or another. Removal takes
the object and the battery shown on it; the provider is told of neither. A reading is a function from the components it names to a level or
`NoLevel`, so that the minimum over the pods is really computed. `trouble` is history:
the faults met since this bluetoothd started that the code has no remedy for before
the next one, so that one run has all of these and each property says which it excuses. A removal is
in it (`device`) when `device_` held a path, since that is looked up only while it is
empty.

**Service** composes `DbusService` with Feed and with the process around it: the
first publish before the main loop runs, the object that is exported before the
name is owned, `publish()` with its early returns, a daemon that stops and starts
again from nothing. `PropertiesChanged` carries the properties that differ; `Phase`,
`Status` and `ParseRefusals` are one value that may change with every publish.

**Tile** composes the indicator of `extension.js` with Service. One action is one
callback in the shell: the name appears or vanishes, a proxy is made, properties
change, an age arrives, the timer fires, `destroy()`. What the tile has asked waits
in `calls`, what comes back waits in `bus` with the signals and the news of the name.
`lost` counts proxies that another one replaced while it was being made: their
handlers stay connected until the collector finds them. `ageOf` is the reading an
age was measured for. With `Activatable` the service file is installed: a `Get` for a
name nobody owns is kept by the bus (`held`), which starts the daemon; the proxy's own
calls are sent without auto-start.

**Battery** is `parse_battery()` byte by byte and the component map that
`Pump::snapshot()` makes of it. Its state machine puts a report together and damages
it once.

**Display** follows that packet to the words on the tile: the parse, the `Components`
dictionary in which what is not known has no key, `componentsFromDbus()`, and every
function of `format.js`, beside a channel that opens and closes, a daemon that stops
and an age that is read. A line of text is a sequence of words, so that cutting it
short is a prefix. How messages cross on the bus is Tile's subject and is left out here.

**SessionProofs**, **CliProofs**, **LifecycleProofs**, **ProviderProofs**,
**TileProofs**, **BatteryProofs** and **DisplayProofs** hold the theorems. `MC*` modules
and the `.cfg` files are instances.

## Runs

| Run | Shows | States |
|---|---|---|
| `session` | three configurations: wire, cost of missing acks, single re-send, refinement of Channel; under fairness the handshake settles, a silent channel is asked again, a hangup is noticed | 370 000 |
| `cli` | counters, table, exit code and transcript agree with each other and with the session; a run ends | 341 000 |
| `lifecycle` | timer, retry, budget, published state, refinement of Feed; the daemon ends up where the pods are | 162 000 |
| `provider` | what is announced; both sides agree whenever the bus is quiet; a number reaches the desktop and is withdrawn, over restarts, failing scans, lost replies, a moving adapter and a device paired again | 152 000 |
| `tile` | the tile draws what was published, ages belong to readings, `destroy()` releases | 885 000 |
| `battery` | whole report or none, damage is refused, and the words of the tile are the report's: numbers, doubt, ageing, warnings, ages | 1 370 000 |
| `provider_cached`, `provider_hotplug`, `provider_repaired`, `provider_overtaken`, `tile_gone`, `tile_activates` | disagreements, see Findings | |

Every property of a passing run has a mutant, a definition changed the way a
plausible bug would change it (marked `Mutant` in the modules), under which TLC
finds the property violated.

### Bounds

- Times: `AckTimeout` 0 or 1 and `ResendAfter` 1 or 2 units. The code only compares
  an age with a threshold; one unit below, at and above each is reached, and the
  re-send falls before, with and after a second timeout.
- `RxCap = 2`: a late ack behind another packet. One packet is read per step.
- `MaxRefusals = 1`: the count is only copied; a second one adds nothing.
- Two readings where replacing one by another matters; they are interchangeable,
  so symmetry is used in runs without liveness only.
- Session runs the default, the default without capabilities, and everything up front
  without capabilities or link security; Cli adds no handshake with capabilities. The
  remaining configurations are covered by the theorems.
- Cli: three packets, which is an ack, a refused and an accepted report or two acks and
  a report; a duration of two units, reached before or after the handshake ends, and
  none.
- Lifecycle: a retry table as long as the real one, two object paths, three events of
  bluetoothd (a removal, an addition and a connect) and three
  queued signals, which lets a scan overtake every combination the callbacks tell
  apart.
- Provider: four events (two restarts; a stop, a start, a pairing and an adapter; or a
  removal and a pairing beside a restart), two paths, two messages in flight before the pump publishes again.
- Tile: four starts or stops of the daemon, which is what two proxies in flight and a
  third owner need; a signal and an answer that cross (`BusCap`, `CallCap` 2); two
  readings so that an age can be beside the wrong one.
- Battery: two blocks, so that a count may be off by one in both directions; bytes
  on both sides of each condition; damage up to one block's length. Ages: both sides of
  every change of unit. The theorems have every number of blocks, every byte and every
  age.

### Fairness

- Session: `WF(Pumped)`, the consumer keeps calling `step()` (the pump's tick, the
  CLI's loop), and not every `poll()` is interrupted; `WF(Elapse)`, the clock runs.
  Nothing is assumed of the pods or of writes.
- Lifecycle: weak fairness of each source of the main loop, all of equal priority.
  Nothing is assumed of bluetoothd, and `MaxEvents` makes it quiet at last, which is
  when the liveness properties speak. Scans may fail: `WatchCatchesUp` and
  `PodsHereAttached` excuse a watch whose last scan failed, because the code waits for
  the next event then; `PodsAwayDetached` excuses nothing.
- Provider: the main loop dispatches and bluetoothd answers. That the pump publishes
  again and again is not assumed of the specification: it is the hypothesis
  `WF(PumpRepeats)` of `ReadingReachesDesktop`, since the code publishes only when the
  pods or the session give it cause, and without it the property is false.
- Cli: `main()` goes on (not every `poll()` is interrupted) and the clock runs.

Service and Tile have no liveness property: what they promise is stated of the
states in which the bus is quiet.

Deadlock is checked except where the system may really stop: a daemon without
pending work waits for bluetoothd, a tile without a daemon waits for one, a probe has
ended, and a packet is finished.

## Proofs

The theorems hold for every value of the constants: any configuration and
timeouts, any retry table, any sets of readings and paths, any bounds. Every safety
property of the passing runs, and both refinements, is a theorem.

*SessionProofs.* `TypeCorrect` and `WireCorrect` from `WireInv`: types, and the wire
sequence of the phase. `WireMatchesPhase` alone is not inductive, since nothing in it
says that a re-send has not happened before the session listens, or that a closed
session has no half-written sequence behind it. `WaitedCorrect` needs `WaitInv`: the
property counts the waits that are over, so the invariant adds the one under way
(`phaseAge`), and what each missing ack has cost is `Owed`. `RepeatCorrect`, an action
property, needs `SeenInv` (the flag is exactly "a battery packet was heard on this
connection") and the number of requests in a sequence that grows.
`SessionImplementsChannel`: the initial states map, and each action maps to one of
Channel's, with one case per action.

*CliProofs.* The probe's steps are the session's, so `ProbeWire` carries `WireInv` over to
the loop. `CliTypeCorrect` and `ProbeAgrees` come from one invariant that ties `runSeen`
to the session's flag and the last entry of the table to the cached report; the type of
the table needs it, since a report enters the table on the word of a step's flag. The
transcript has three layers. `Grows` says what lines appended to a transcript add to it
(sends, reports, packets, notes) and is proved once for each kind of line. `QuietTurn`,
`ReadingTurn` and `OpenLines` put the lines of a turn and of an open together from them.
`TranscriptInv` is what a run keeps: `TotalsInv` (the account of packets, reports and
refusals), `LoopInv` (the sends are the wire, the packets are those heard, and the acks
that are missing are at most the timeouts noted) and `EndInv` (how a run ended).
`TranscriptTold`, `AdvancesExplained` and `TotalsRecorded` follow with `WireInv`.

*LifecycleProofs.* The inductive invariant `IInv` joins `PumpInv` (types, timer,
retry, published state), the types of watch and bus, and `Budget`: the calls of
`open()` since the last report are bounded by `attempts`, which the bound on
`opens` needs, because `attempts` itself is reset. Most of the argument is made
once, for `Attach`, `OnBluez` and `Update`, as lemmas that every callback cites.
`TypeCorrect` includes that `attempts - 1` indexes the table.
`LifecycleImplementsFeed`: every step of the daemon is a step of the channel
(`NextIsChannelStep`), and because what is published is current that is a step of
the feed.

*ProviderProofs.* `LiveCorrect` and `AnnouncedCorrect` need only `ObjectInv`, and a lemma
that the minimum of the readable pods is one of them. What both sides of the bus agree on
when it is quiet follows from what the messages under way will do. `RegistrationCorrect`:
a provider that believes in a registration nobody has is going to hear that bluetoothd
vanished (`NewsInv`, `RegistrationInv`). `ShownCorrect`: from what bluetoothd shows, the
queue leads step by step to what is announced (`Chain`); that a chain starts afresh with
each bluetoothd is `LifeInv`, and that its paths are this bluetoothd's is `DeviceInv`,
until the adapter or the device moves (`Moved`): from then on the chain may also end in
nothing shown, and in nothing else. A device that is removed before `device_` knows it
leaves no trace, because nothing has been said of it by then (`KnownInv`).
All of these are stated of a bluetoothd whose news no registration has overtaken, the
exception that is described under Findings.

*TileProofs.* `TileTypeCorrect` types the messages of the bus. `DestroyReleases`: after
`destroy()` neither the timer nor the proxy comes back; it is inductive as it stands, and
the case that needs an argument is a handler left connected, whose `_refresh()` finds no
proxy and so draws without a timer. `AgeCorrect` needs `AgesInv`: an age on its way will
find the proxy with no reading or with the one it was measured for, whatever arrives
before it, and so would one that is measured now. `DrawnCorrect` needs that the
name's appearance is never lost (`NameInv`), that a call which fetches the state or
messages that bring it are on their way (`ProxyInv`), and that what the proxy has is drawn
or about to be (`ViewInv`).

*BatteryProofs.* `ParserCorrect` from `PacketInv`: an intact packet is `Composed` of the
blocks that were sent, byte for byte, and a damaged one is refused. One lemma per damage
says which check of `parse_battery()` catches it.

*DisplayProofs.* `ReportsAreWhole` and `DamageRefused` carry the parser's theorem over.
`NumbersAreTrue` needs `ReadingInv` (the reading is the parse of the packet that arrived)
and follows a level through the map, whose entry is that of the last block naming the
component, the dictionary and the words. `DoubtIsFirst` and `AgreeingPlaces` are by the
cases of `Subtitle`. `AgesAreHonest`: for every age, the words of `formatAge()`
name at least one unit, never so many that the next would do, and are off by at most half
of it and of each unit below; `RoundingAddsUp` is the arithmetic.

Assumptions: those named in the modules. `ConfigAssumption`, `CliAssumption`,
`RetryAssumption`, `PathAssumption`, `ReadingsAssumption`, `DisplayAssumption` and the
bounds say that durations and bounds are naturals and that an absent path or reading is
not one. `BatteryAssumption`: a byte is a byte, and neither `nullopt` for a level nor for a
report is a value of the type it is missing from. `ProviderAssumption`: levels are
naturals or missing. `ServiceAssumption` and `TileAssumption`: no proxy is not a set of
properties.

Definitions are written so that they can be reasoned about: lines of the transcript and
requests on the wire are counted by the cardinality of a set of positions rather than by
filtering a sequence, since what a recursive definition computes for every
input needs an induction the provers cannot instantiate.

Only model-checked: everything under fairness (the prover has no liveness or
`ENABLED`), that is `HandshakeSettles`, `SilentChannelAsksAgain`, `HangupNoticed`,
`WatchCatchesUp`, `PodsHereAttached`, `PodsAwayDetached`, `ShownIsWithdrawn`,
`ReadingReachesDesktop` and `RunEnds`; and the violations under Findings.

## Findings

1. `provider_cached`: `publish()` says an open channel means the reading is
   current; when the channel opens a second time the cached reading of the first
   connection is announced until a packet arrives.
2. `provider_hotplug`: the header says the name watch will register later if the
   manager interface appears; with bluetoothd already running it never does, and a
   registration lost with an adapter is not noticed either.
3. `provider_repaired`: `publish()` says it learns the path of the device from BlueZ when
   it needs it, and `bluez_watch.h:33-36` that a removal and a new pairing give another
   one. `device_` is looked up only while it is empty and cleared only with the name, so
   after a re-pairing the readings are announced for the path that is gone and the
   desktop shows none until bluetoothd restarts. `ShownIsExported` and
   `ReadingReachesDesktop` excuse a known device that was removed (`device`), one that is
   back under its old path included; the first still says that no wrong number is shown.
4. `provider_overtaken`: two restarts of bluetoothd while the main loop is busy. The
   registration that answers the first appearance reaches the second bluetoothd, and
   `on_bluez_vanished()` then forgets what was announced to it without
   `InterfacesRemoved`: "bluetoothd has forgotten it along with everything else". The
   number stays shown after the channel has closed. `ShownIsExported` and
   `ShownIsWithdrawn` excuse exactly this (`overtaken`).
5. `tile_gone`: the extension says the name watch is the source of truth and the
   proxy exists only while the daemon does; a proxy or an age asked for before the
   name vanished is accepted after it, and the tile shows a daemon that is gone
   until the name moves again.
6. `tile_activates`: the extension says a tile must never start the daemon; the `Get` of
   the age is sent without `NO_AUTO_START`, so that one which reaches the bus just after
   the daemon has left makes the bus start it again.

Met while modelling and not stated as a run:

- "Three attempts over seven seconds and then silence" (`pump.cpp:103`): the third
  failure gives up, so the delays are 1 s and 2 s and the 4 s entry of `kRetryMs` is never
  used.
- "The transcript hangs off the packet hook, which sees both directions in order"
  (`main.cpp:324`): only what is sent is recorded there, so what an ack makes the session
  send stands before the ack. `AdvancesAreExplained` is what a reader still has.
- "Session already recorded the refusal in s.note and kept the bytes in the transcript"
  (`main.cpp:446`): a step has one note, and a timeout or a re-send in the step that
  refuses a report takes it, so that the transcript has the bytes and no word of the
  refusal.
- "Accent ON means 'these numbers are live'" (`extension.js:137`): it is also on for a
  report on an open channel that has no readable pod, and so no number.
- A status byte outside the enum reaches the bus as `?`, beside the four words
  `state.h:43` lists.
- Two proxies made at once leave a handler connected past `destroy()`, where
  `extension.js:302` says everything is released there.

Behaviour that no text of the repository denies: packets still
unread are dropped when the peer hangs up; a channel closed by the peer is not
reopened while BlueZ goes on saying Connected; a registration that completes after
a reading does not announce it until the next event; a report naming a component
twice is shown by its last block and found by its first.

## Plan

The system's parts are modelled and the safety properties of the runs are proved. What is
left:

1. What does hold where the text of the repository promises more (Findings): that a
   reading announced after the first report of a connection is of that connection, that a
   tile shows a daemon that is gone only until the name moves again, that what an ack made
   the session send stands in the same turn of the transcript as the ack.
2. That the service and the provider, composed with Lifecycle itself rather than with
   Feed, keep what is proved of them: it follows from `LifecycleImplementsFeed`.

## Not modelled

- The wording of the console, hex dumps, opcode labels, diagnoses and log lines: nothing
  reads them back.
- Argument parsing beyond what it configures, in both programs.
- The daemon's self test: it publishes one invented `State`, without a channel or a
  provider.
- `BatteryProvider`'s destructor, whose `UnregisterBatteryProvider` is best effort at the
  end of the process, and `start()` failing, after which there is no provider.
- A bus that refuses the daemon's object, or its name because another daemon has it: both
  are only logged.
- Icons and widgets of the tile.
- Installation and packaging, but for the service file that `Activatable` stands for.
