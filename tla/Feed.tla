-------------------------------- MODULE Feed --------------------------------
(***************************************************************************)
(* What the pump promises its publish callback (daemon/src/main.cpp): the  *)
(* State values handed to DbusService and BatteryProvider, by the fields   *)
(* those two act upon.  Module Lifecycle implements it; the components that*)
(* are fed are composed with it.                                           *)
(***************************************************************************)
CONSTANTS
    Readings,       \* the battery reports the parser can produce
    NoReading       \* have_battery == false

VARIABLE feed       \* the State last published: its channel_open, components

NoState == [open |-> FALSE, battery |-> NoReading]

FeedInit == feed = NoState

\* The channel opens: the reading that goes with it is the cached one.
FeedOpens ==
    /\ ~feed.open
    /\ feed' = [open |-> TRUE, battery |-> feed.battery]

\* The channel closes: the reading is kept, to age.
FeedCloses ==
    /\ feed.open
    /\ feed' = [open |-> FALSE, battery |-> feed.battery]

\* A battery packet was parsed, on an open channel.
FeedReports ==
    /\ feed.open
    /\ \E r \in Readings : feed' = [open |-> TRUE, battery |-> r]

\* Published again for a field that is not looked at: status, phase, refusals.
FeedRepeats == UNCHANGED feed

FeedNext == FeedOpens \/ FeedCloses \/ FeedReports \/ FeedRepeats

FeedSpec == FeedInit /\ [][FeedNext]_feed
=============================================================================
