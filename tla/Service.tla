------------------------------ MODULE Service ------------------------------
(***************************************************************************)
(* The session-bus service of the daemon (daemon/src/dbus_service.cpp), fed *)
(* by the pump (module Feed), the process around it (daemon/src/main.cpp)  *)
(* and the part of the bus that carries its name and its signals.          *)
(*                                                                         *)
(* Of a State the properties HaveBattery and Components are kept as the    *)
(* reading, ChannelOpen as it is, and Phase, Status and ParseRefusals as   *)
(* words: a value that may change with every publish.  Address never does. *)
(* One daemon runs at a time; a second one never gets the name and never   *)
(* speaks to a client.                                                     *)
(***************************************************************************)
EXTENDS Feed, Naturals, Sequences, TLC

CONSTANTS
    MaxEvents,      \* bound: how often the daemon starts or stops
    BusCap          \* bound: undispatched messages before the pump publishes

ASSUME ServiceAssumption ==
    /\ NoReading \notin Readings
    /\ MaxEvents \in Nat /\ BusCap \in Nat

VARIABLES
    running,        \* is there an airprobed?
    exported,       \* conn_ and reg_id_ are set
    owned,          \* it owns io.github.scott8420.Airprobe
    published,      \* published_
    state,          \* state_
    bus,            \* messages on their way to the client, in order (external)
    events          \* bound: how often the daemon has started or stopped

serviceVars == <<running, exported, owned, published, state>>

Words == {"at first", "later"}

DefaultState == [open |-> FALSE, battery |-> NoReading, words |-> "at first"]

Properties == DOMAIN DefaultState

States ==
    [open : BOOLEAN, battery : Readings \cup {NoReading}, words : Words]

-----------------------------------------------------------------------------
(***************************************************************************)
(* publish()                                                               *)
(***************************************************************************)
\* PropertiesChanged: the properties that differ, with their values.
Changed(prev, next) ==
    [kind |-> "changed",
     props |-> [p \in {q \in Properties : prev[q] # next[q]} |-> next[p]]]

\* Clients listen to the name: without it nothing matches their subscription.
Signal(m) == bus' = IF owned THEN Append(bus, m) ELSE bus

\* Mutant: what is published before there is a bus is not kept.
PublishNeedsBus(s) ==
    /\ published' = TRUE
    /\ state' = IF published /\ ~exported THEN state ELSE s
    /\ IF published /\ s # state /\ exported
       THEN Signal(Changed(state, s)) ELSE UNCHANGED bus

\* publish(): kept always; signalled if it is a change, not the first one, and
\* there is a connection to signal it on.
Publish(s) ==
    /\ published' = TRUE
    /\ state' = s
    /\ IF published /\ s # state /\ exported
       THEN Signal(Changed(state, s)) ELSE UNCHANGED bus

\* The publish callback of main(): the State the feed now holds.
Published ==
    /\ running
    /\ Len(bus) < BusCap
    /\ \E w \in Words :
          Publish([open |-> feed'.open, battery |-> feed'.battery, words |-> w])
    /\ UNCHANGED <<running, exported, owned, events>>

ChannelOpens == FeedOpens /\ Published
ChannelCloses == FeedCloses /\ Published
PodsReport == FeedReports /\ Published
PumpRepeats == FeedRepeats /\ Published

-----------------------------------------------------------------------------
(***************************************************************************)
(* The name.                                                               *)
(***************************************************************************)
\* main(): a new process owns nothing yet.  The first publish is in
\* pump.start(), before the main loop runs.
DaemonStarts ==
    /\ ~running
    /\ events < MaxEvents
    /\ running' = TRUE
    /\ published' = TRUE
    /\ feed' = NoState
    /\ \E w \in Words : state' = [DefaultState EXCEPT !.words = w]
    /\ events' = events + 1
    /\ UNCHANGED <<exported, owned, bus>>

\* on_bus_acquired(): the object is there before the name is.
OnBusAcquired ==
    /\ running /\ ~exported
    /\ exported' = TRUE
    /\ UNCHANGED <<feed, running, owned, published, state, bus, events>>

\* The bus gives the name away and tells whoever watches it.
NameAcquired ==
    /\ exported /\ ~owned
    /\ owned' = TRUE
    /\ bus' = Append(bus, [kind |-> "appeared"])
    /\ UNCHANGED <<feed, running, exported, published, state, events>>

\* ~DbusService(), or the process dies: the bus takes the name back.
DaemonStops ==
    /\ running
    /\ events < MaxEvents
    /\ running' = FALSE
    /\ exported' = FALSE
    /\ owned' = FALSE
    /\ published' = FALSE
    /\ state' = DefaultState
    /\ feed' = NoState
    /\ bus' = IF owned THEN Append(bus, [kind |-> "vanished"]) ELSE bus
    /\ events' = events + 1

ServiceNext ==
    \/ ChannelOpens \/ ChannelCloses \/ PodsReport \/ PumpRepeats
    \/ DaemonStarts \/ OnBusAcquired \/ NameAcquired \/ DaemonStops
=============================================================================
