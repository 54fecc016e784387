-------------------------------- MODULE Cli --------------------------------
(***************************************************************************)
(* The probe: main() of cli/src/main.cpp over a Session, with the transcript*)
(* (class Capture) it leaves behind.                                       *)
(*                                                                         *)
(* One action is the way to the listening loop, one turn of the loop, or   *)
(* the summary.  The console (hex dumps, labels, prompts, the closing      *)
(* advice) is left out: it is derived from what is kept here and nothing   *)
(* reads it back.                                                          *)
(***************************************************************************)
EXTENDS Session

CONSTANTS
    Durations,      \* values of --duration, in time units; 0: until a signal
    MaxPackets      \* bound: packets the pods send in a run

ASSUME CliAssumption == Durations \subseteq Nat /\ MaxPackets \in Nat

VARIABLES
    capture,        \* cap.is_open(): a file that cannot be opened is no error
    duration,       \* duration
    pc,             \* where main() is: "args", "loop", "summary", "done"
    stop,           \* g_stop
    elapsed,        \* session.elapsed_ms(), saturating at the duration
    count,          \* count
    runSeen,        \* main()'s own battery_seen
    log,            \* battery_log, without the times
    transcript,     \* the lines of the capture file
    exit            \* what main() returned, or -1

options == <<capture, duration>>
tally == <<count, runSeen, log>>
cliVars == <<options, pc, stop, elapsed, tally, transcript, exit>>

-----------------------------------------------------------------------------
(***************************************************************************)
(* The transcript: packets sent, packets received, notes, and parsed       *)
(* reports.                                                                *)
(***************************************************************************)
Entry(dir, what) == [dir |-> dir, what |-> what]
Note(what) == <<Entry("#", what)>>

Record(entries) ==
    transcript' = IF capture THEN transcript \o entries ELSE transcript

\* The packet hook, once for every packet that was written.
Hook(writes) == [i \in DOMAIN writes |-> Entry(">", writes[i])]

CliInit ==
    /\ Init
    /\ capture \in BOOLEAN
    /\ duration \in Durations
    /\ pc = "args"
    /\ stop = FALSE
    /\ elapsed = 0
    /\ count = 0
    /\ runSeen = FALSE
    /\ log = <<>>
    /\ transcript = <<>>
    /\ exit = -1

Ends(code) ==
    /\ pc' = "done"
    /\ exit' = code
    /\ UNCHANGED <<options, stop, elapsed, tally>>

-----------------------------------------------------------------------------
(***************************************************************************)
(* To the loop.                                                            *)
(***************************************************************************)
\* --help, or arguments that make no sense: nothing was opened.
Usage ==
    /\ pc = "args"
    /\ \E code \in {0, 2} : Ends(code)
    /\ UNCHANGED <<vars, transcript>>

Preamble == IF cfg.sendHandshake THEN <<>> ELSE Note("handshakeSkipped")

Aborts(writes) ==
    /\ Record(Preamble \o Hook(writes) \o Note("connectFailed"))
    /\ Ends(1)

ConnectFails == pc = "args" /\ OpenConnectFails /\ Aborts(<<>>)

\* The write that failed is one of those open() makes.
WriteFails ==
    /\ pc = "args"
    /\ OpenWriteFails
    /\ LET writes == IF UpFront THEN UpFrontWrites ELSE FirstWrite
       IN  \E n \in 0..(Len(writes) - 1) : Aborts(SubSeq(writes, 1, n))

Connects ==
    /\ pc = "args"
    /\ OpenWaits \/ OpenUpFront
    /\ Record(Preamble \o Hook(wire') \o Note("header"))
    /\ pc' = "loop"
    /\ UNCHANGED <<options, stop, elapsed, tally, exit>>

-----------------------------------------------------------------------------
(***************************************************************************)
(* A turn of the loop: one step(), its note, its packet.  The hook runs    *)
(* inside step(), so what a step sent is recorded before what it read.     *)
(***************************************************************************)
\* Mutant: the duration does not count before the pods have said something.
TimeUpOnceHeard == duration > 0 /\ count > 0 /\ elapsed >= duration

TimeUp == duration > 0 /\ elapsed >= duration

Turns == pc = "loop" /\ ~stop /\ ~TimeUp

BatteryKinds == {"battery", "badBattery"}

\* Mutant: a packet that is refused is left out of the transcript.
PacketEntriesIfUsable(p) ==
    (IF p.kind = "badBattery" THEN <<>> ELSE <<Entry("<", p.kind)>>)
        \o (IF p.kind \in BatteryKinds /\ ~runSeen THEN Note("firstBattery")
                                                   ELSE <<>>)
        \o (IF out'.battery THEN <<Entry("parsed", lastBattery')>> ELSE <<>>)

PacketEntries(p) ==
    <<Entry("<", p.kind)>>
        \o (IF p.kind \in BatteryKinds /\ ~runSeen THEN Note("firstBattery")
                                                   ELSE <<>>)
        \o (IF out'.battery THEN <<Entry("parsed", lastBattery')>> ELSE <<>>)

\* Mutant: the note is dropped when a packet came with it.
StepNoteUnlessPacket ==
    IF out'.note = "none" \/ out'.packet THEN <<>> ELSE Note(out'.note)

StepNote == IF out'.note = "none" THEN <<>> ELSE Note(out'.note)

LeavesLoop == pc' = IF out'.closed THEN "summary" ELSE pc

\* Mutant: only a report that parses counts as battery.
CountsIfParsed(p) ==
    /\ count' = count + 1
    /\ runSeen' = (runSeen \/ p.kind = "battery")
    /\ log' = IF out'.battery THEN Append(log, lastBattery') ELSE log

\* Mutant: every battery packet enters the table, parsed or not.
CountsAnyBattery(p) ==
    /\ count' = count + 1
    /\ runSeen' = (runSeen \/ p.kind \in BatteryKinds)
    /\ log' = IF p.kind \in BatteryKinds THEN Append(log, lastBattery') ELSE log

Counts(p) ==
    /\ count' = count + 1
    /\ runSeen' = (runSeen \/ p.kind \in BatteryKinds)
    /\ log' = IF out'.battery THEN Append(log, lastBattery') ELSE log

\* A packet that was read in the step that closed the channel is not looked at.
Turned(writes) ==
    /\ IF out'.packet /\ ~out'.closed
       THEN /\ Record(Hook(writes) \o StepNote \o PacketEntries(Head(rx)))
            /\ Counts(Head(rx))
       ELSE /\ Record(Hook(writes) \o StepNote)
            /\ UNCHANGED tally
    /\ LeavesLoop
    /\ UNCHANGED <<options, stop, elapsed, exit>>

\* What a step that leaves the channel open has written.
NewWrites == SubSeq(wire', Len(wire) + 1, Len(wire'))

\* Mutant: the hook is only told of the packets an ack calls for.
TurnStaysTimersUnheard ==
    /\ Turns
    /\ \/ (StepNothing \/ StepPacket) /\ Turned(<<>>)
       \/ StepAck /\ Turned(NewWrites)

TurnStays ==
    /\ Turns
    /\ StepNothing \/ StepPacket \/ StepAck
    /\ Turned(NewWrites)

TurnInterrupted == Turns /\ StepInterrupted /\ Turned(NewWrites)

TurnTimeoutWriteFails == Turns /\ StepTimeoutWriteFails /\ Turned(<<>>)

TurnResendWriteFails ==
    /\ Turns
    /\ StepResendWriteFails
    /\ Turned(IF TimedOut THEN <<AdvanceWrite(phase)>> ELSE <<>>)

TurnCloses ==
    /\ Turns
    /\ StepHangup \/ StepAckWriteFails
    /\ Turned(TimerWrites)

-----------------------------------------------------------------------------
Verdict == IF count > 0 THEN 0 ELSE 1

\* The summary; the session is destroyed with main()'s frame.
Summary ==
    /\ pc = "summary" \/ (pc = "loop" /\ (stop \/ TimeUp))
    /\ Close
    /\ Record(Note(IF runSeen THEN "endSeen" ELSE "endNone"))
    /\ Ends(Verdict)

\* on_signal().  A signal during open() is one that comes just after it, or
\* that fails the connect.
Signal ==
    /\ pc = "loop" /\ ~stop
    /\ stop' = TRUE
    /\ UNCHANGED <<vars, options, pc, elapsed, tally, transcript, exit>>

-----------------------------------------------------------------------------
(***************************************************************************)
(* The pods and the clock, as in Session.                                  *)
(***************************************************************************)
PodsSendInRun ==
    /\ count + Len(rx) < MaxPackets
    /\ PodsSend
    /\ UNCHANGED cliVars

PodsHangUpInRun == PodsHangUp /\ UNCHANGED cliVars

TimePasses ==
    /\ Elapse
    /\ elapsed' = Capped(elapsed + 1, duration)
    /\ UNCHANGED <<options, pc, stop, tally, transcript, exit>>

Starts == Usage \/ ConnectFails \/ WriteFails \/ Connects

TurnRuns ==
    TurnStays \/ TurnTimeoutWriteFails \/ TurnResendWriteFails \/ TurnCloses

CliNext ==
    \/ Starts \/ TurnRuns \/ TurnInterrupted \/ Summary \/ Signal
    \/ PodsSendInRun \/ PodsHangUpInRun \/ TimePasses

CliSpec == CliInit /\ [][CliNext]_<<vars, cliVars>>

\* main() runs and the clock does; not every poll() is interrupted.
CliFairSpec ==
    /\ CliSpec
    /\ WF_<<vars, cliVars>>(Starts \/ TurnRuns \/ Summary)
    /\ WF_<<vars, cliVars>>(TimePasses)

-----------------------------------------------------------------------------
(***************************************************************************)
(* Properties                                                              *)
(***************************************************************************)

\* The lines of transcript t of one kind; what they say, in their order, is w.
Lines(t, dir) == {i \in DOMAIN t : t[i].dir = dir}
Tells(t, dir, w) ==
    /\ Len(w) = Cardinality(Lines(t, dir))
    /\ \A i \in Lines(t, dir) :
          t[i].what = w[Cardinality({j \in Lines(t, dir) : j <= i})]

Occurrences(t, e) == Cardinality({i \in DOMAIN t : t[i] = e})
Times(dir, what) == Occurrences(transcript, Entry(dir, what))
ReceivedIn(t) == {t[i].what : i \in Lines(t, "<")}
Received == ReceivedIn(transcript)

\* The type of what main() keeps: above all, every report in its table is one,
\* so *session.last_battery() is never taken of an empty optional.
CliTypeOK ==
    /\ TypeOK
    /\ {capture, stop, runSeen} \subseteq BOOLEAN
    /\ duration \in Nat /\ elapsed \in 0..duration /\ count \in Nat
    /\ pc \in {"args", "loop", "summary", "done"}
    /\ log \in Seq(Readings)
    /\ exit \in {-1, 0, 1, 2}

\* Two flags in two components record that battery was heard, and two places
\* keep the last report: while the loop runs they never differ, and the loop
\* never runs over a closed channel.
ProbeAgreesWithSession ==
    /\ pc = "loop" => sock /\ (runSeen <=> batterySeen)
    /\ log # <<>> => runSeen /\ log[Len(log)] = lastBattery
    /\ Len(log) <= count

\* The sends of the transcript are those of the handshake as far as it has got,
\* whether an ack, a timeout or the re-send called for them.
TranscriptTellsPhase ==
    pc = "loop" /\ capture =>
        Tells(transcript, ">",
              SentBy(phase) \o (IF notifyResent THEN <<"notify">> ELSE <<>>))

\* A reader of the transcript can tell for every advance of an ack-driven
\* handshake what allowed it: the ack is recorded, or a timeout is.
AdvancesAreExplained ==
    pc = "loop" /\ capture /\ ~UpFront =>
        Cardinality(AcksBefore(phase) \ Received) <= Times("#", "timeout")

\* The console's totals and table are those of the transcript, and the bytes of
\* every packet that was refused are in it.  A run that connected and ended has
\* the exit code and the last line that its transcript calls for.
TotalsAreRecorded ==
    /\ capture => /\ count = Cardinality(Lines(transcript, "<"))
                  /\ refusals = Times("<", "badBattery")
                  /\ Tells(transcript, "parsed", log)
                  /\ Len(log) = Times("<", "battery")
    /\ pc = "done" /\ capture /\ Times("#", "header") = 1 =>
          /\ exit = IF Received = {} THEN 1 ELSE 0
          /\ transcript[Len(transcript)].what =
                 IF Received \cap BatteryKinds = {} THEN "endNone" ELSE "endSeen"

\* A run with a duration ends, and so does every run that is interrupted or
\* whose channel the pods close.
RunEnds == (duration > 0 \/ stop \/ hup) ~> pc = "done"
=============================================================================
