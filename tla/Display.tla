------------------------------ MODULE Display ------------------------------
(***************************************************************************)
(* What a battery packet looks like in the end: the report of module       *)
(* Battery through components_variant() (daemon/src/dbus_service.cpp), over *)
(* the bus, through componentsFromDbus() and into the words of the tile    *)
(* (shell-extension format.js, and render() of extension.js).              *)
(*                                                                         *)
(* How properties and answers cross on the bus is module Tile's subject:   *)
(* here the tile draws what the daemon holds.  A line of text is the       *)
(* sequence of its words; a word is what it says, not how it is spelt.     *)
(***************************************************************************)
EXTENDS Battery, Functions

CONSTANTS
    Ages,           \* bound: the ages, in ms, at which the tile is drawn
    MaxRefusals     \* bound: refused packets

ASSUME DisplayAssumption == Ages \subseteq Nat /\ MaxRefusals \in Nat

VARIABLES
    present,        \* the name is owned
    arrived,        \* the packet that is followed is the reading
    open,           \* State::channel_open
    listening,      \* State::phase is "listening"
    last,           \* Session::last_battery(), Refused while there is none
    refusals,       \* State::parse_refusals
    ageMs           \* _ageMs: the age of last, -1 when it is not known

displayVars == <<present, arrived, open, listening, last, refusals, ageMs>>
allVars == <<vars, displayVars>>

-----------------------------------------------------------------------------
(***************************************************************************)
(* The Components property.  A component is a dictionary; what it does not *)
(* know has no key.                                                        *)
(***************************************************************************)
Dictionary(c) ==
    LET entries == [Status |-> c.status, RawLevel |-> c.rawLevel,
                    Level |-> c.level, FramingAnomaly |-> c.anomaly]
    IN  Restrict(entries,
                 {"Status", "RawLevel"}
                     \cup (IF c.level # NoLevel THEN {"Level"} ELSE {})
                     \cup (IF c.anomaly THEN {"FramingAnomaly"} ELSE {}))

ComponentsVariant(components) ==
    [c \in DOMAIN components |-> Dictionary(components[c])]

\* Mutant: a level that is not there is read as 0.
FromDictionaryOrZero(d) ==
    [level |-> IF "Level" \in DOMAIN d THEN d["Level"] ELSE 0,
     framingAnomaly |-> "FramingAnomaly" \in DOMAIN d /\ d["FramingAnomaly"]]

\* componentsFromDbus(), of one dictionary; NoLevel stands for undefined.  The
\* status and the raw byte are translated too, and no line of text reads them.
FromDictionary(d) ==
    [level |-> IF "Level" \in DOMAIN d THEN d["Level"] ELSE NoLevel,
     framingAnomaly |-> "FramingAnomaly" \in DOMAIN d /\ d["FramingAnomaly"]]

ComponentsFromDbus(raw) == [c \in DOMAIN raw |-> FromDictionary(raw[c])]

-----------------------------------------------------------------------------
(***************************************************************************)
(* Words                                                                   *)
(***************************************************************************)
Word(say, n) == [say |-> say, n |-> n]
Says(line, what) == \E i \in DOMAIN line : line[i].say \in what

\* Math.round(a / b), for a natural number a.
Round(a, b) == (2 * a + b) \div (2 * b)

\* Mutant: minutes are counted up to the hour in seconds, and rounded after.
FormatAgeBySeconds(ms) ==
    LET s == ms \div 1000
        m == Round(s, 60)
        h == Round(s, 3600)
        d == Round(h, 24)
    IN  CASE ms < 0              -> Word("age unknown", 0)
          [] ms >= 0 /\ s < 45   -> Word("just now", 0)
          [] s >= 45 /\ s < 3600 -> Word("min ago", m)
          [] s >= 3600 /\ h < 24 -> Word("hr ago", h)
          [] h >= 24             -> Word("days ago", d)

\* formatAge(): each unit is rounded from the one below it.
FormatAge(ms) ==
    LET s == ms \div 1000
        m == Round(s, 60)
        h == Round(m, 60)
        d == Round(h, 24)
    IN  IF ms < 0       THEN Word("age unknown", 0)
        ELSE IF s < 45  THEN Word("just now", 0)
        ELSE IF m < 60  THEN Word("min ago", m)
        ELSE IF h < 24  THEN Word("hr ago", h)
        ELSE                 Word("days ago", d)

AgeWords == {"age unknown", "just now", "min ago", "hr ago", "days ago"}

HasLevel(components, c) ==
    c \in DOMAIN components /\ components[c].level # NoLevel

ComponentName(c) == CASE c = Left -> "left" [] c = Right -> "right" [] c = Case -> "case"

LevelText(components, c) ==
    IF HasLevel(components, c) THEN Word(ComponentName(c), components[c].level)
                               ELSE Word("dash", 0)

AnyPodReading(components) ==
    HasLevel(components, Left) \/ HasLevel(components, Right)

\* The pods, left before right; the case has no place on the tile.
Pods(v) == <<LevelText(v.components, Left), LevelText(v.components, Right)>>

\* Mutant: only a line with numbers on it says how old they are.
SubtitleAgelessWithoutPods(v) ==
    IF ~v.daemonPresent
    THEN <<Word("airprobed not running", 0)>>
    ELSE IF v.haveBattery /\ AnyPodReading(v.components)
    THEN (IF v.channelOpen THEN <<>> ELSE <<FormatAge(v.ageMs)>>) \o Pods(v)
    ELSE <<Word("no pod reading", 0)>>

\* Mutant: the age follows the numbers.
SubtitleDoubtLast(v) ==
    IF ~v.daemonPresent
    THEN <<Word("airprobed not running", 0)>>
    ELSE IF v.haveBattery /\ AnyPodReading(v.components)
    THEN Pods(v) \o (IF v.channelOpen THEN <<>> ELSE <<FormatAge(v.ageMs)>>)
    ELSE IF v.haveBattery /\ ~v.channelOpen
    THEN <<FormatAge(v.ageMs), Word("no pod reading", 0)>>
    ELSE <<Word("no reading", 0)>>

Subtitle(v) ==
    IF ~v.daemonPresent
    THEN <<Word("airprobed not running", 0)>>
    ELSE IF v.haveBattery /\ AnyPodReading(v.components)
    THEN (IF v.channelOpen THEN <<>> ELSE <<FormatAge(v.ageMs)>>) \o Pods(v)
    ELSE IF v.channelOpen
    THEN <<Word(CASE v.phase # "listening"                   -> "connecting"
                  [] v.phase = "listening" /\ v.haveBattery  -> "no pod reading"
                  [] v.phase = "listening" /\ ~v.haveBattery -> "waiting", 0)>>
    ELSE IF v.haveBattery
    THEN <<FormatAge(v.ageMs), Word("no pod reading", 0)>>
    ELSE <<Word("not connected", 0)>>

\* headerSubtitle(): the daemon's own words, with the age before them.
HeaderSubtitle(v) ==
    IF ~v.daemonPresent
    THEN <<Word("not on the bus", 0)>>
    ELSE (IF v.haveBattery /\ ~v.channelOpen
          THEN <<Word("last reading", 0), FormatAge(v.ageMs)>> ELSE <<>>)
         \o <<Word("status", 0)>>

Odd(v) == {c \in DOMAIN v.components : v.components[c].framingAnomaly}

HasWarning(v) == v.daemonPresent /\ (v.parseRefusals > 0 \/ Odd(v) # {})

WarningText(v) ==
    (IF v.parseRefusals > 0 THEN <<Word("refused", v.parseRefusals)>> ELSE <<>>)
    \o (IF Odd(v) # {} THEN <<Word("unexpected framing", Odd(v))>> ELSE <<>>)

-----------------------------------------------------------------------------
(***************************************************************************)
(* _render() and render().  Without a daemon there is no proxy, and every  *)
(* property has its fallback.                                              *)
(***************************************************************************)
Phase == CASE ~open -> "closed" [] open /\ listening -> "listening"
           [] open /\ ~listening -> "wait-handshake-ack"

View ==
    [daemonPresent |-> present, phase |-> Phase, channelOpen |-> open,
     haveBattery |-> last # Refused, parseRefusals |-> refusals, ageMs |-> ageMs,
     components |->
         ComponentsFromDbus(
             ComponentsVariant(IF last = Refused THEN <<>> ELSE BusComponents(last)))]

\* The accent: these numbers are live.
Checked(v) == v.channelOpen /\ v.haveBattery

NeedsTimer(v) == v.daemonPresent /\ v.haveBattery /\ ~v.channelOpen

-----------------------------------------------------------------------------
(***************************************************************************)
(* The daemon behind the tile, and its channel.                            *)
(***************************************************************************)
DisplayInit ==
    /\ Init
    /\ present = FALSE /\ arrived = FALSE
    /\ open = FALSE /\ listening = FALSE
    /\ last = Refused /\ refusals = 0 /\ ageMs = -1

\* A packet is read whole: nothing happens between its first byte and its last.
Between == arrived \/ packet = EmptyPacket

DaemonStarts ==
    /\ ~present
    /\ present' = TRUE
    /\ UNCHANGED <<vars, arrived, open, listening, last, refusals, ageMs>>

DaemonStops ==
    /\ present /\ Between
    /\ present' = FALSE
    /\ open' = FALSE /\ listening' = FALSE
    /\ last' = Refused /\ refusals' = 0 /\ ageMs' = -1
    /\ UNCHANGED <<vars, arrived>>

ChannelOpens ==
    /\ present /\ ~open
    /\ open' = TRUE
    /\ UNCHANGED <<vars, present, arrived, listening, last, refusals, ageMs>>

HandshakeEnds ==
    /\ open /\ ~listening /\ Between
    /\ listening' = TRUE
    /\ UNCHANGED <<vars, present, arrived, open, last, refusals, ageMs>>

ChannelCloses ==
    /\ open /\ Between
    /\ open' = FALSE
    /\ listening' = FALSE
    /\ UNCHANGED <<vars, present, arrived, last, refusals, ageMs>>

PacketTravels ==
    /\ open /\ ~arrived
    /\ Next
    /\ UNCHANGED displayVars

\* The session parses it: it is the reading from now on.
PacketAccepted ==
    /\ open /\ ~arrived
    /\ ParseBattery(packet) # Refused
    /\ arrived' = TRUE
    /\ last' = ParseBattery(packet)
    /\ ageMs' = 0
    /\ UNCHANGED <<vars, present, open, listening, refusals>>

\* The next packet is followed instead.
Dropped == packet' = EmptyPacket /\ sent' = <<>> /\ intact' = TRUE

\* Or refuses it, this one or one after the reading.  Only a packet that says it
\* is about the battery is counted.
PacketRefused ==
    /\ open
    /\ refusals < MaxRefusals
    /\ refusals' = refusals + 1
    /\ \/ /\ arrived
          /\ UNCHANGED vars
       \/ /\ ~arrived
          /\ OpcodeOf(packet) = OpBattery
          /\ ParseBattery(packet) = Refused
          /\ Dropped
    /\ UNCHANGED <<present, arrived, open, listening, last, ageMs>>

\* A packet that damage has made another kind of packet is none of its business.
PacketIgnored ==
    /\ open /\ ~arrived
    /\ OpcodeOf(packet) # OpBattery
    /\ Dropped
    /\ UNCHANGED displayVars

\* The tile reads the age of the reading; the Get may fail.
AgeRead ==
    /\ last # Refused
    /\ ageMs' \in {a \in Ages : a > ageMs} \cup {-1}
    /\ UNCHANGED <<vars, present, arrived, open, listening, last, refusals>>

DisplayNext ==
    \/ DaemonStarts \/ DaemonStops
    \/ ChannelOpens \/ HandshakeEnds \/ ChannelCloses
    \/ PacketTravels \/ PacketAccepted \/ PacketRefused \/ PacketIgnored
    \/ AgeRead

DisplaySpec == DisplayInit /\ [][DisplayNext]_allVars

-----------------------------------------------------------------------------
(***************************************************************************)
(* Properties                                                              *)
(***************************************************************************)

\* The type of what the tile draws from; without a reading there is no age.
DisplayTypeOK ==
    /\ {present, arrived, open, listening} \subseteq BOOLEAN
    /\ refusals \in Nat
    /\ ageMs \in Nat \cup {-1}
    /\ last = Refused => ageMs = -1

\* The block of the packet that last named component c was believable, and
\* says n.
PodsSaid(c, n) ==
    \E i \in DOMAIN sent :
        /\ sent[i][1] = c /\ sent[i][3] = n
        /\ sent[i][3] <= 100 /\ sent[i][4] # Disconnected
        /\ \A j \in DOMAIN sent : sent[j][1] = c => j <= i

\* From the bytes to the words: a number beside a pod on the tile is what the
\* pods said last of that very pod, and a pod without a number is one they said
\* nothing believable of.  No missing key turns into a number on the way.
NumbersAreThePods ==
    last # Refused /\ AnyPodReading(View.components) =>
        \A c \in {Left, Right}, n \in LevelBytes :
            Word(ComponentName(c), n) \in Range(Subtitle(View)) <=> PodsSaid(c, n)

\* However short the tile cuts its line, a number of a closed channel is never
\* left without its age: truncation eats the number, never the doubt.
DoubtComesFirst ==
    ~open =>
        \A n \in 0..Len(Subtitle(View)) :
            LET kept == SubSeq(Subtitle(View), 1, n)
            IN  Says(kept, {"left", "right"}) => Says(kept, AgeWords)

\* Four places decide by themselves whether the reading is ageing, the tile's
\* line, the menu's line, the accent and the timer, and two whether there is a
\* warning, the icon and its words.  They agree.
PlacesAgree ==
    LET ageing == Says(Subtitle(View), AgeWords)
    IN  /\ ageing <=> Says(HeaderSubtitle(View), AgeWords)
        /\ ageing <=> NeedsTimer(View)
        /\ ageing => ~Checked(View)
        /\ HasWarning(View) <=> present /\ WarningText(View) # <<>>

\* The length of a unit, and by how much rounding unit after unit may be off.
Seconds(unit) ==
    CASE unit = "min ago" -> 60 [] unit = "hr ago" -> 3600
      [] unit = "days ago" -> 86400
RoundingError(unit) ==
    CASE unit = "min ago" -> 30 [] unit = "hr ago" -> 30 + 1800
      [] unit = "days ago" -> 30 + 1800 + 43200

\* The words w for an age of s seconds name at least one whole unit and never so
\* many that the next one would do, and are off by half a unit, and half of each
\* of those below it.
HonestWord(w, s) ==
    /\ w.say = "just now" => s < 45
    /\ w.say = "min ago" => w.n \in 1..59
    /\ w.say = "hr ago" => w.n \in 1..23
    /\ w.say = "days ago" => w.n >= 1
    /\ w.say \in {"min ago", "hr ago", "days ago"} =>
          /\ w.n * Seconds(w.say) <= s + RoundingError(w.say)
          /\ s <= w.n * Seconds(w.say) + RoundingError(w.say)

\* The age on the tile is honest.
AgeIsHonest == ageMs >= 0 => HonestWord(FormatAge(ageMs), ageMs \div 1000)
=============================================================================
