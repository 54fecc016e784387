------------------------------ MODULE Session ------------------------------
(***************************************************************************)
(* The AAP handshake machine: class Session (lib/src/session.cpp) over its *)
(* socket (lib/src/aap_socket.cpp), with the pods as an environment that   *)
(* may send any packet at any time, fall silent, or hang up.               *)
(*                                                                         *)
(* One action is one call of open(), step() or close(), split by how the   *)
(* call ends.  step() is one critical section even when it blocks in       *)
(* poll(): a packet that arrives during the wait is the same as one that   *)
(* arrived before the call, and the time spent waiting is the same as time *)
(* that passes after it.                                                   *)
(*                                                                         *)
(* Time is counted in units; the ages saturate just past the threshold     *)
(* they are compared with.                                                 *)
(***************************************************************************)
EXTENDS Integers, Sequences, FiniteSets

CONSTANTS
    Configs,            \* the values of SessionConfig a consumer may choose
    AckTimeout,         \* cfg_.ack_timeout_ms, in time units
    ResendAfter,        \* cfg_.notify_resend_ms, in time units; < 0 disables
    Readings,           \* the battery reports the parser can produce
    NoReading,          \* last_battery_ == nullopt
    RxCap,              \* bound: unread packets held by the kernel
    MaxRefusals         \* bound: refused battery packets in a behaviour

ASSUME ConfigAssumption ==
    /\ Configs \subseteq [hasCaps : BOOLEAN, ackDriven : BOOLEAN,
                          sendHandshake : BOOLEAN, requireSecurity : BOOLEAN]
    /\ AckTimeout \in Nat
    /\ ResendAfter \in Int

ASSUME BoundsAssumption == RxCap \in Nat /\ MaxRefusals \in Nat

ASSUME ReadingAssumption == NoReading \notin Readings

VARIABLES
    cfg,            \* cfg_, set by the constructor
    sock,           \* sock_.is_open()
    phase,          \* phase_
    phaseAge,       \* ms_since(phase_at_), saturating
    notifyAge,      \* elapsed_ms() - notify_sent_at_, or -1; saturating
    batterySeen,    \* battery_seen_
    notifyResent,   \* notify_resent_
    lastBattery,    \* last_battery_
    refusals,       \* refusals_
    out,            \* the Step the last step() returned, or NoStep
    result,         \* the ConnectResult of the last open(), or "none"
    rx,             \* packets the kernel holds for this socket (external)
    hup,            \* the kernel reports POLLHUP or an error (external)
    wire,           \* history: what this connection has written
    heard,          \* history: the kinds of packet this connection has read
    waited          \* history: time since open(), saturating

knowledge == <<lastBattery, refusals>>
bookkeeping == <<phaseAge, notifyAge, batterySeen, notifyResent>>
vars == <<cfg, sock, phase, bookkeeping, knowledge, out, result,
          rx, hup, wire, heard, waited>>

-----------------------------------------------------------------------------
HasCaps == cfg.hasCaps      \* host_caps is not empty

(***************************************************************************)
(* Packets, by what session.cpp tells apart: the handshake ack, the        *)
(* features ack (opcode 0x2B), an opcode 0x04 packet that parse_battery    *)
(* accepts or refuses, and everything else.                                *)
(***************************************************************************)
Kinds == {"handshakeAck", "featuresAck", "battery", "badBattery", "other"}

Packets ==
    [kind : Kinds \ {"battery"}, reading : {NoReading}]
        \cup [kind : {"battery"}, reading : Readings]

Waiting == {"WaitHandshakeAck", "WaitFeaturesAck"}
Phases == Waiting \cup {"Closed", "Listening"}

Notes == {"none", "timeout", "resend", "closedByPeer", "refused"}

NoStep ==
    [called |-> FALSE, packet |-> FALSE, battery |-> FALSE,
     closed |-> FALSE, phaseChanged |-> FALSE, note |-> "none"]

StepResults ==
    [called : BOOLEAN, packet : BOOLEAN, battery : BOOLEAN,
     closed : BOOLEAN, phaseChanged : BOOLEAN, note : Notes]

\* Stages of AapSocket::connect_to at which it can fail.
Stages == {"ParseAddress", "AdapterCheck", "CreateSocket", "SetSecurity", "Connect"}
FailStages == Stages \ (IF cfg.requireSecurity THEN {} ELSE {"SetSecurity"})

\* "Connected" with ok = FALSE is a connect that succeeded and a first write
\* that did not.
Results == {"none", "ok", "writeFailed"} \cup Stages

PhaseCap == AckTimeout + 1
NotifyCap == IF ResendAfter >= 0 THEN ResendAfter ELSE 0
WaitedCap == 2 * PhaseCap

Capped(n, cap) == IF n > cap THEN cap ELSE n

-----------------------------------------------------------------------------
Init ==
    /\ cfg \in Configs
    /\ sock = FALSE
    /\ phase = "Closed"
    /\ phaseAge = 0
    /\ notifyAge = -1
    /\ batterySeen = FALSE
    /\ notifyResent = FALSE
    /\ lastBattery = NoReading
    /\ refusals = 0
    /\ out = NoStep
    /\ result = "none"
    /\ rx = <<>>
    /\ hup = FALSE
    /\ wire = <<>>
    /\ heard = {}
    /\ waited = 0

(***************************************************************************)
(* close(): the descriptor goes, and with it everything the kernel queued. *)
(***************************************************************************)
CloseSocket ==
    /\ sock' = FALSE
    /\ phase' = "Closed"
    /\ rx' = <<>>
    /\ hup' = FALSE
    /\ wire' = <<>>
    /\ heard' = {}
    /\ waited' = 0

Close ==
    /\ CloseSocket
    /\ out' = NoStep
    /\ result' = "none"
    /\ UNCHANGED <<cfg, bookkeeping, knowledge>>

-----------------------------------------------------------------------------
(***************************************************************************)
(* open().  Its callers only open a session that is closed.  The           *)
(* bookkeeping of the handshake starts afresh; the cached knowledge stays. *)
(***************************************************************************)
OpenConnectFails ==
    /\ ~sock
    /\ result' \in FailStages
    /\ out' = NoStep
    /\ UNCHANGED <<cfg, sock, phase, bookkeeping, knowledge,
                   rx, hup, wire, heard, waited>>

\* Mutant: battery_seen_ survives from the previous connection.
ResetBookkeepingKeepsSeen ==
    /\ UNCHANGED batterySeen
    /\ notifyResent' = FALSE
    /\ phaseAge' = 0

ResetBookkeeping ==
    /\ batterySeen' = FALSE
    /\ notifyResent' = FALSE
    /\ phaseAge' = 0

\* The packets open() writes before it returns.
FirstWrite == IF cfg.sendHandshake THEN <<"handshake">> ELSE <<>>
UpFrontWrites ==
    FirstWrite \o (IF HasCaps THEN <<"caps">> ELSE <<>>) \o <<"notify">>

UpFront == ~cfg.ackDriven \/ ~cfg.sendHandshake

OpenWaits ==
    /\ ~sock /\ ~UpFront
    /\ sock' = TRUE
    /\ phase' = "WaitHandshakeAck"
    /\ ResetBookkeeping
    /\ notifyAge' = -1
    /\ wire' = FirstWrite
    /\ result' = "ok"
    /\ out' = NoStep
    /\ UNCHANGED <<cfg, knowledge, rx, hup, heard, waited>>

OpenUpFront ==
    /\ ~sock /\ UpFront
    /\ sock' = TRUE
    /\ phase' = "Listening"
    /\ ResetBookkeeping
    /\ notifyAge' = 0
    /\ wire' = UpFrontWrites
    /\ result' = "ok"
    /\ out' = NoStep
    /\ UNCHANGED <<cfg, knowledge, rx, hup, heard, waited>>

\* The connect succeeded and one of open()'s own writes did not.
OpenWriteFails ==
    /\ ~sock
    /\ CloseSocket
    /\ ResetBookkeeping
    /\ notifyAge' = -1
    /\ result' = "writeFailed"
    /\ out' = NoStep
    /\ UNCHANGED <<cfg, knowledge>>

Open == OpenConnectFails \/ OpenWaits \/ OpenUpFront \/ OpenWriteFails

-----------------------------------------------------------------------------
(***************************************************************************)
(* step().  First the timers: an ack that did not come in time is advanced *)
(* past, and a silent channel has its notification request repeated once.  *)
(* Advancing past p is the same for a timeout and for the ack itself.      *)
(***************************************************************************)
Advance(p) ==
    IF p = "WaitHandshakeAck" /\ HasCaps THEN "WaitFeaturesAck" ELSE "Listening"

AdvanceWrite(p) == IF Advance(p) = "Listening" THEN "notify" ELSE "caps"

\* Mutant: only the first wait has a timeout.
TimedOutFirstOnly == phase = "WaitHandshakeAck" /\ phaseAge > AckTimeout

TimedOut == phase \in Waiting /\ phaseAge > AckTimeout

PhaseAfterTimeout == IF TimedOut THEN Advance(phase) ELSE phase

NotifyAgeAfterTimeout ==
    IF TimedOut /\ Advance(phase) = "Listening" THEN 0 ELSE notifyAge

\* Mutant: the request is repeated every ResendAfter, not once.
ResendDueForever ==
    /\ PhaseAfterTimeout = "Listening"
    /\ ~batterySeen
    /\ ResendAfter >= 0
    /\ NotifyAgeAfterTimeout >= 0
    /\ NotifyAgeAfterTimeout >= ResendAfter

ResendDue ==
    /\ PhaseAfterTimeout = "Listening"
    /\ ~batterySeen
    /\ ~notifyResent
    /\ ResendAfter >= 0
    /\ NotifyAgeAfterTimeout >= 0
    /\ NotifyAgeAfterTimeout >= ResendAfter

TimerNote ==
    IF TimedOut THEN "timeout" ELSE IF ResendDue THEN "resend" ELSE "none"

TimerWrites ==
    (IF TimedOut THEN <<AdvanceWrite(phase)>> ELSE <<>>)
        \o (IF ResendDue THEN <<"notify">> ELSE <<>>)

\* Mutant: entering the next phase does not restart the clock.
PhaseAgeNotRestarted == phaseAge

\* Mutant: the clock is restarted with the sentinel of notify_sent_at_.
PhaseAgeSentinel == IF TimedOut THEN -1 ELSE phaseAge

PhaseAgeAfterTimers == IF TimedOut THEN 0 ELSE phaseAge
NotifyAgeAfterTimers == IF ResendDue THEN 0 ELSE NotifyAgeAfterTimeout
ResentAfterTimers == notifyResent \/ ResendDue

\* Without capabilities to send, the phase is entered before the write.
EntersBeforeWrite(p) == p = "WaitHandshakeAck" /\ ~HasCaps

Returns(o) ==
    /\ out' = [o EXCEPT !.called = TRUE]
    /\ result' = "none"
    /\ UNCHANGED cfg

StepNotOpen ==
    /\ ~sock
    /\ Returns([NoStep EXCEPT !.closed = TRUE])
    /\ UNCHANGED <<sock, phase, bookkeeping, knowledge,
                   rx, hup, wire, heard, waited>>

StepTimeoutWriteFails ==
    /\ sock /\ TimedOut
    /\ CloseSocket
    /\ phaseAge' = IF EntersBeforeWrite(phase) THEN 0 ELSE phaseAge
    /\ Returns([NoStep EXCEPT !.closed = TRUE, !.note = TimerNote])
    /\ UNCHANGED <<notifyAge, batterySeen, notifyResent, knowledge>>

StepResendWriteFails ==
    /\ sock /\ ResendDue
    /\ CloseSocket
    /\ phaseAge' = PhaseAgeAfterTimers
    /\ notifyAge' = NotifyAgeAfterTimeout
    /\ notifyResent' = TRUE
    /\ Returns([NoStep EXCEPT !.closed = TRUE, !.note = TimerNote,
                              !.phaseChanged = TimedOut])
    /\ UNCHANGED <<batterySeen, knowledge>>

\* The timers ran and their writes succeeded.
TimersRun ==
    /\ phase' = PhaseAfterTimeout
    /\ phaseAge' = PhaseAgeAfterTimers
    /\ notifyAge' = NotifyAgeAfterTimers
    /\ notifyResent' = ResentAfterTimers
    /\ wire' = wire \o TimerWrites

\* ... and nothing was read.
TimersOnly ==
    /\ TimersRun
    /\ Returns([NoStep EXCEPT !.phaseChanged = TimedOut, !.note = TimerNote])
    /\ UNCHANGED <<sock, batterySeen, knowledge, rx, hup, heard, waited>>

\* Mutant: a hangup is taken for a timeout of poll().
StepHangupIgnored == sock /\ hup /\ TimersOnly

\* read_packet() looks at POLLHUP before it reads: what the pods sent before
\* they hung up and nobody has read yet is lost with the socket.
StepHangup ==
    /\ sock /\ hup
    /\ CloseSocket
    /\ phaseAge' = PhaseAgeAfterTimers
    /\ notifyAge' = NotifyAgeAfterTimers
    /\ notifyResent' = ResentAfterTimers
    /\ Returns([NoStep EXCEPT !.closed = TRUE, !.phaseChanged = TimedOut,
                    !.note = IF TimerNote = "none" THEN "closedByPeer"
                                                   ELSE TimerNote])
    /\ UNCHANGED <<batterySeen, knowledge>>

StepNothing == sock /\ ~hup /\ rx = <<>> /\ TimersOnly

\* EINTR: poll() was interrupted by a signal although something is pending.
StepInterrupted == sock /\ (hup \/ rx # <<>>) /\ TimersOnly

(***************************************************************************)
(* A packet was read.  Battery first, then the phase transitions.          *)
(***************************************************************************)
\* Mutant: only a report that parses stops the re-send.
AbsorbSeenOnlyIfParsed(p) ==
    /\ rx' = Tail(rx)
    /\ heard' = heard \cup {p.kind}
    /\ batterySeen' = (batterySeen \/ p.kind = "battery")
    /\ lastBattery' = IF p.kind = "battery" THEN p.reading ELSE lastBattery
    /\ refusals' = IF p.kind = "badBattery" THEN refusals + 1 ELSE refusals

\* Mutant: a refused report clears the cached one.
AbsorbRefusalClears(p) ==
    /\ rx' = Tail(rx)
    /\ heard' = heard \cup {p.kind}
    /\ batterySeen' = (batterySeen \/ p.kind \in {"battery", "badBattery"})
    /\ lastBattery' = IF p.kind \in {"battery", "badBattery"} THEN p.reading
                                                              ELSE lastBattery
    /\ refusals' = IF p.kind = "badBattery" THEN refusals + 1 ELSE refusals

Absorb(p) ==
    /\ rx' = Tail(rx)
    /\ heard' = heard \cup {p.kind}
    /\ batterySeen' = (batterySeen \/ p.kind \in {"battery", "badBattery"})
    /\ lastBattery' = IF p.kind = "battery" THEN p.reading ELSE lastBattery
    /\ refusals' = IF p.kind = "badBattery" THEN refusals + 1 ELSE refusals

PacketNote(p) ==
    IF TimerNote = "none" /\ p.kind = "badBattery" THEN "refused" ELSE TimerNote

Acks(p) ==
    \/ PhaseAfterTimeout = "WaitHandshakeAck" /\ p.kind = "handshakeAck"
    \/ PhaseAfterTimeout = "WaitFeaturesAck" /\ p.kind = "featuresAck"

PacketStep(p) ==
    [NoStep EXCEPT !.packet = TRUE,
                   !.battery = (p.kind = "battery"),
                   !.phaseChanged = TimedOut,
                   !.note = PacketNote(p)]

StepPacket ==
    /\ sock /\ ~hup /\ rx # <<>>
    /\ ~Acks(Head(rx))
    /\ Absorb(Head(rx))
    /\ TimersRun
    /\ Returns(PacketStep(Head(rx)))
    /\ UNCHANGED <<sock, hup, waited>>

StepAck ==
    /\ sock /\ ~hup /\ rx # <<>>
    /\ Acks(Head(rx))
    /\ Absorb(Head(rx))
    /\ phase' = Advance(PhaseAfterTimeout)
    /\ phaseAge' = 0
    /\ notifyResent' = ResentAfterTimers
    /\ notifyAge' = IF phase' = "Listening" THEN 0 ELSE NotifyAgeAfterTimeout
    /\ wire' = wire \o TimerWrites \o <<AdvanceWrite(PhaseAfterTimeout)>>
    /\ Returns([PacketStep(Head(rx)) EXCEPT !.phaseChanged = TRUE])
    /\ UNCHANGED <<sock, hup, waited>>

\* The ack was read and the packet it allows could not be written.
StepAckWriteFails ==
    /\ sock /\ ~hup /\ rx # <<>>
    /\ Acks(Head(rx))
    /\ CloseSocket
    /\ phaseAge' = IF EntersBeforeWrite(PhaseAfterTimeout) THEN 0
                                                          ELSE PhaseAgeAfterTimers
    /\ Returns([PacketStep(Head(rx)) EXCEPT
                    !.closed = TRUE,
                    !.phaseChanged = TimedOut \/ EntersBeforeWrite(PhaseAfterTimeout)])
    /\ UNCHANGED <<notifyAge, batterySeen, notifyResent, knowledge>>

StepRuns ==
    \/ StepNotOpen
    \/ StepTimeoutWriteFails
    \/ StepResendWriteFails
    \/ StepHangup
    \/ StepNothing
    \/ StepPacket
    \/ StepAck
    \/ StepAckWriteFails

Step == StepRuns \/ StepInterrupted

-----------------------------------------------------------------------------
(***************************************************************************)
(* The pods and the clock.                                                 *)
(***************************************************************************)
Quiet == out' = NoStep /\ result' = "none" /\ UNCHANGED cfg

QueuedRefusals ==
    Len(SelectSeq(rx, LAMBDA p : p.kind = "badBattery"))

PodsSend ==
    /\ sock /\ ~hup
    /\ Len(rx) < RxCap
    /\ \E p \in Packets :
          /\ p.kind = "badBattery" => refusals + QueuedRefusals < MaxRefusals
          /\ rx' = Append(rx, p)
    /\ Quiet
    /\ UNCHANGED <<sock, phase, bookkeeping, knowledge, hup, wire, heard, waited>>

PodsHangUp ==
    /\ sock /\ ~hup
    /\ hup' = TRUE
    /\ Quiet
    /\ UNCHANGED <<sock, phase, bookkeeping, knowledge, rx, wire, heard, waited>>

Elapse ==
    /\ sock
    /\ phaseAge' = Capped(phaseAge + 1, PhaseCap)
    /\ notifyAge' = IF notifyAge < 0 THEN notifyAge
                                     ELSE Capped(notifyAge + 1, NotifyCap)
    /\ waited' = Capped(waited + 1, WaitedCap)
    /\ Quiet
    /\ UNCHANGED <<sock, phase, batterySeen, notifyResent, knowledge,
                   rx, hup, wire, heard>>

Next == Open \/ Step \/ Close \/ PodsSend \/ PodsHangUp \/ Elapse

Spec == Init /\ [][Next]_vars

(***************************************************************************)
(* The consumer pumps an open session and the clock runs.  Nothing is      *)
(* assumed of the pods, of the writes, or of poll(), except that not every *)
(* poll() is interrupted by a signal.                                      *)
(***************************************************************************)
Pumped == sock /\ StepRuns

FairSpec == Spec /\ WF_vars(Pumped) /\ WF_vars(Elapse)

-----------------------------------------------------------------------------
(***************************************************************************)
(* Properties                                                              *)
(***************************************************************************)

\* The type of every variable of Session, its socket and the history.
TypeOK ==
    /\ cfg \in Configs
    /\ sock \in BOOLEAN
    /\ phase \in Phases
    /\ phaseAge \in 0..PhaseCap
    /\ notifyAge \in -1..NotifyCap
    /\ batterySeen \in BOOLEAN
    /\ notifyResent \in BOOLEAN
    /\ lastBattery \in Readings \cup {NoReading}
    /\ refusals \in Nat
    /\ out \in StepResults
    /\ result \in Results
    /\ rx \in Seq(Packets)
    /\ hup \in BOOLEAN
    /\ wire \in Seq({"handshake", "caps", "notify"})
    /\ heard \subseteq Kinds
    /\ waited \in 0..WaitedCap

\* What a connection that has reached phase p has written, less the re-send.
SentBy(p) ==
    CASE p = "WaitHandshakeAck" -> FirstWrite
      [] p = "WaitFeaturesAck"  -> FirstWrite \o <<"caps">>
      [] p = "Listening"        -> UpFrontWrites

\* Whatever mixture of acks, late acks, timeouts and write failures a
\* connection meets, what it has put on the wire is exactly the sequence its
\* phase stands for: the handshake first and once, the capabilities at most
\* once, the notification request at most twice, and twice only when
\* notify_resent_ says so.  A closed session has no socket.
WireMatchesPhase ==
    /\ sock <=> phase # "Closed"
    /\ sock => wire = SentBy(phase)
                        \o (IF notifyResent THEN <<"notify">> ELSE <<>>)

\* The acks that the sequence has been advanced past when it is at p.
AcksBefore(p) ==
    CASE p = "WaitHandshakeAck" -> {}
      [] p = "WaitFeaturesAck"  -> {"handshakeAck"}
      [] p = "Listening"        -> IF HasCaps THEN {"handshakeAck", "featuresAck"}
                                              ELSE {"handshakeAck"}

\* In ack mode every ack that the session goes on without has cost its own
\* full ack_timeout_ms: entering a phase restarts the clock, so the second
\* wait is never charged to the first.
EachMissingAckWasWaitedFor ==
    sock /\ ~UpFront =>
        waited >= PhaseCap * Cardinality(AcksBefore(phase) \ heard)

NotifyCount(w) == Cardinality({i \in DOMAIN w : w[i] = "notify"})

BatteryHeard == heard \cap {"battery", "badBattery"} # {}

\* The notification request is repeated only on a connection that has read no
\* battery packet at all, good or refused, since it was opened.
NoRepeatAfterBattery ==
    [][sock /\ sock' /\ NotifyCount(wire') = 2 /\ NotifyCount(wire) < 2
          => ~BatteryHeard]_vars

\* No ack that fails to come can hold up the sequence: a waiting session is
\* eventually listening, or closed.
HandshakeSettles ==
    phase \in Waiting ~> phase \in {"Listening", "Closed"}

\* On every connection, not only the first one: a listening session that has
\* heard no battery packet asks again, hears one, or closes.
SilentChannelAsksAgain ==
    (phase = "Listening" /\ ~BatteryHeard /\ ResendAfter >= 0)
        ~> (NotifyCount(wire) = 2 \/ BatteryHeard \/ phase = "Closed")

\* A hangup is noticed by the next steps, whatever is still unread.
HangupNoticed == hup ~> ~sock

\* Session keeps the promise of module Channel.
AbstractStep ==
    [called |-> out.called, packet |-> out.packet, battery |-> out.battery,
     closed |-> out.closed, phaseChanged |-> out.phaseChanged,
     note |-> out.note # "none"]
AbstractResult ==
    IF result \in {"none", "ok"} THEN result ELSE "failed"

Promise == INSTANCE Channel WITH battery <- lastBattery,
                                 out <- AbstractStep,
                                 result <- AbstractResult

\* Every open(), step() and close() is one a consumer of module Channel
\* expects: an idle step changes nothing it can see, only an accepted report
\* replaces the cached one, a refused one is counted and replaces nothing, and
\* neither close() nor the next open() touches what is cached.
ImplementsChannel == Promise!ChSpec
=============================================================================
