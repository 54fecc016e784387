------------------------------ MODULE Battery ------------------------------
(***************************************************************************)
(* The battery packet: parse_battery() (lib/src/aap_battery.cpp) and the   *)
(* part of the State that Pump::snapshot() makes of its result, against the*)
(* report the pods meant.                                                  *)
(*                                                                         *)
(* The state machine is the packet on its way: the pods put a report       *)
(* together block by block, and the packet may then be damaged once, in its*)
(* length, its count byte or its header.                                   *)
(***************************************************************************)
EXTENDS Integers, Sequences

CONSTANTS
    ComponentBytes, SpacerBytes, LevelBytes, StatusBytes,   \* what blocks hold
    NoLevel,            \* BatteryComponent::level is empty
    Refused,            \* parse_battery() == nullopt
    MaxBlocks,          \* bound: blocks in a report
    MaxJunk             \* bound: bytes added to or taken from a packet

Byte == 0..255

\* struct BatteryComponent
Component ==
    [component : Byte, status : Byte, rawLevel : Byte, anomaly : BOOLEAN,
     level : Byte \cup {NoLevel}]

ASSUME BatteryAssumption ==
    /\ ComponentBytes \cup SpacerBytes \cup LevelBytes \cup StatusBytes
           \subseteq Byte
    /\ NoLevel \notin Byte
    /\ \A n \in Byte : Refused \notin [1..n -> Component]
    /\ MaxBlocks \in Byte /\ MaxJunk \in Nat

VARIABLES
    packet,     \* the bytes
    sent,       \* history: the blocks the pods put into it
    intact      \* history: the packet is as the pods sent it

vars == <<packet, sent, intact>>

-----------------------------------------------------------------------------
(***************************************************************************)
(* The code.  Packets are indexed from 1.                                  *)
(***************************************************************************)
StdHeader == <<4, 0, 4, 0>>

HasStdHeader(p) ==
    Len(p) >= Len(StdHeader) /\ \A i \in DOMAIN StdHeader : p[i] = StdHeader[i]

OpcodeOf(p) ==
    IF ~HasStdHeader(p) \/ Len(p) < 6 THEN 65535 ELSE p[5] + 256 * p[6]

CountOffset == 7
BlockSize == 5
OpBattery == 4
Case == 8
Left == 4
Right == 2
Disconnected == 4

KnownComponent(b) == b \in {Case, Left, Right}

\* The i-th block, from 1: component, spacer, level, status, end.
Block(p, i) ==
    SubSeq(p, CountOffset + (i - 1) * BlockSize + 1, CountOffset + i * BlockSize)

\* A level is believed when the component is reporting and it is a percentage.
LevelOf(level, status) ==
    IF status # Disconnected /\ level <= 100 THEN level ELSE NoLevel

ComponentOf(b) ==
    [component |-> b[1], status |-> b[4], rawLevel |-> b[3],
     level |-> LevelOf(b[3], b[4]), anomaly |-> b[2] # 1 \/ b[5] # 1]

\* Mutant: a packet longer than its count byte says is read as far as it says.
LengthAgreesAtLeast(p) == Len(p) >= CountOffset + p[CountOffset] * BlockSize

LengthAgrees(p) == Len(p) = CountOffset + p[CountOffset] * BlockSize

\* Mutant: blocks of unknown components are skipped.
ParseBatterySkipping(p) ==
    IF /\ HasStdHeader(p)
       /\ OpcodeOf(p) = OpBattery
       /\ Len(p) >= CountOffset
       /\ LengthAgrees(p)
    THEN SelectSeq([i \in 1..p[CountOffset] |-> ComponentOf(Block(p, i))],
                   LAMBDA c : KnownComponent(c.component))
    ELSE Refused

ParseBattery(p) ==
    IF /\ HasStdHeader(p)
       /\ OpcodeOf(p) = OpBattery
       /\ Len(p) >= CountOffset
       /\ LengthAgrees(p)
       /\ \A i \in 1..p[CountOffset] : KnownComponent(Block(p, i)[1])
    THEN [i \in 1..p[CountOffset] |-> ComponentOf(Block(p, i))]
    ELSE Refused

StatusName(s) ==
    CASE s = 0 -> "unknown"
      [] s = 1 -> "charging"
      [] s = 2 -> "discharging"
      [] s = Disconnected -> "disconnected"
      [] OTHER -> "?"

\* snapshot(): keyed by component; a later block for the same one wins.
BusComponents(report) ==
    LET present == {report[i].component : i \in DOMAIN report}
        last(c) == CHOOSE i \in DOMAIN report :
                     /\ report[i].component = c
                     /\ \A j \in DOMAIN report : report[j].component = c => j <= i
    IN  [c \in present |-> [status |-> StatusName(report[last(c)].status),
                            level |-> report[last(c)].level,
                            rawLevel |-> report[last(c)].rawLevel,
                            anomaly |-> report[last(c)].anomaly]]

-----------------------------------------------------------------------------
(***************************************************************************)
(* The pods, and the packet on its way.                                    *)
(***************************************************************************)
Blocks ==
    {<<c, s, l, st, e>> : c \in ComponentBytes, s \in SpacerBytes,
                          l \in LevelBytes, st \in StatusBytes, e \in SpacerBytes}

EmptyPacket == StdHeader \o <<OpBattery, 0, 0>>

Init ==
    /\ packet = EmptyPacket
    /\ sent = <<>>
    /\ intact = TRUE

PodsAddBlock ==
    /\ intact
    /\ Len(sent) < MaxBlocks
    /\ \E b \in Blocks :
          /\ packet' = [packet EXCEPT ![CountOffset] = @ + 1] \o b
          /\ sent' = Append(sent, b)
    /\ UNCHANGED intact

Damaged(p) == intact /\ intact' = FALSE /\ packet' = p /\ UNCHANGED sent

Truncated ==
    \E n \in 1..(MaxJunk + Len(StdHeader)) :
        n <= Len(packet) /\ Damaged(SubSeq(packet, 1, Len(packet) - n))

Extended ==
    \E n \in 1..MaxJunk, b \in SpacerBytes :
        Damaged(packet \o [i \in 1..n |-> b])

Miscounted ==
    /\ intact
    /\ \E n \in 0..(MaxBlocks + 1) :
          n # packet[CountOffset] /\ Damaged([packet EXCEPT ![CountOffset] = n])

Misaddressed ==
    \E i \in 1..(CountOffset - 1) : Damaged([packet EXCEPT ![i] = @ + 1])

Next == PodsAddBlock \/ Truncated \/ Extended \/ Miscounted \/ Misaddressed

Spec == Init /\ [][Next]_vars

-----------------------------------------------------------------------------
(***************************************************************************)
(* Properties                                                              *)
(***************************************************************************)

\* An intact packet gives exactly the components that were sent, in order, the
\* raw byte and a deviating frame reported with each, or nothing at all if one
\* of them is unknown: a report is never a partial one.
WholeReportOrNone ==
    intact =>
        IF \A i \in DOMAIN sent : sent[i][1] \in {Case, Left, Right}
        THEN LET r == ParseBattery(packet) IN
             /\ r # Refused
             /\ Len(r) = Len(sent)
             /\ \A i \in DOMAIN sent :
                    /\ r[i].component = sent[i][1]
                    /\ r[i].status = sent[i][4]
                    /\ r[i].rawLevel = sent[i][3]
                    /\ ~r[i].anomaly <=> sent[i][2] = 1 /\ sent[i][5] = 1
        ELSE ParseBattery(packet) = Refused

\* A packet whose length, count or header was changed alone is refused: the
\* count byte and the length are two claims, and no block is read beyond one.
DamageIsRefused == ~intact => ParseBattery(packet) = Refused
=============================================================================
