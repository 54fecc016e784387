--------------------------- MODULE SessionProofs ---------------------------
(***************************************************************************)
(* Proofs about Session for every configuration: any timeouts, with and    *)
(* without capabilities, ack driven or not, any set of readings.           *)
(***************************************************************************)
EXTENDS Session, SequenceTheorems, FiniteSetTheorems, TLAPS

USE ConfigAssumption, BoundsAssumption, ReadingAssumption

\* The ages stay below their caps.
LEMMA CappedType ==
    ASSUME NEW n \in Nat, NEW cap \in Nat
    PROVE  Capped(n, cap) \in 0..cap
BY DEF Capped

\* The caps are naturals whatever the configuration.
LEMMA CapsType ==
    PhaseCap \in Nat \ {0} /\ NotifyCap \in Nat /\ WaitedCap \in Nat
BY DEF PhaseCap, NotifyCap, WaitedCap

Written == {"handshake", "caps", "notify"}

\* A packet that is written or skipped is a sequence of packets.
LEMMA OptionalWrite ==
    ASSUME NEW x \in Written, NEW c
    PROVE  (IF c THEN <<x>> ELSE <<>>) \in Seq(Written)
<1>1. <<x>> \in Seq(Written)
  OBVIOUS
<1>2. <<>> \in Seq(Written)
  OBVIOUS
<1> QED BY <1>1, <1>2

\* The order in which writes are grouped does not matter.
LEMMA Regroup ==
    \A s, t, u \in Seq(Written) : (s \o t) \o u = s \o (t \o u)
BY ConcatAssociative, SMT

\* What open() and the timers write are sequences of packets.
LEMMA WritesType ==
    /\ FirstWrite \in Seq(Written)
    /\ UpFrontWrites \in Seq(Written)
    /\ TimerWrites \in Seq(Written)
    /\ \A p : AdvanceWrite(p) \in Written
<1>1. "handshake" \in Written /\ "caps" \in Written /\ "notify" \in Written
  BY DEF Written
<1>2. \A p : AdvanceWrite(p) \in Written
  BY <1>1 DEF AdvanceWrite
<1>3. FirstWrite \in Seq(Written)
  BY <1>1, OptionalWrite DEF FirstWrite
<1>4. <<"notify">> \in Seq(Written)
  BY <1>1
<1>5. (IF HasCaps THEN <<"caps">> ELSE <<>>) \in Seq(Written)
  BY <1>1, OptionalWrite
<1>6. UpFrontWrites \in Seq(Written)
  BY <1>3, <1>4, <1>5 DEF UpFrontWrites
<1>7. (IF TimedOut THEN <<AdvanceWrite(phase)>> ELSE <<>>) \in Seq(Written)
  BY <1>2, OptionalWrite
<1>8. (IF ResendDue THEN <<"notify">> ELSE <<>>) \in Seq(Written)
  BY <1>1, OptionalWrite
<1>9. TimerWrites \in Seq(Written)
  BY <1>7, <1>8 DEF TimerWrites
<1> QED BY <1>2, <1>3, <1>6, <1>9

\* What the timers leave behind is well typed.
LEMMA TimersType ==
    ASSUME TypeOK
    PROVE  /\ PhaseAfterTimeout \in Phases
           /\ PhaseAgeAfterTimers \in 0..PhaseCap
           /\ NotifyAgeAfterTimeout \in -1..NotifyCap
           /\ NotifyAgeAfterTimers \in -1..NotifyCap
           /\ ResentAfterTimers \in BOOLEAN
           /\ TimerNote \in Notes
           /\ TimedOut \in BOOLEAN
<1> USE CapsType DEF TypeOK
<1>1. TimedOut \in BOOLEAN /\ TimerNote \in Notes
  BY DEF TimedOut, TimerNote, Notes
<1>2. PhaseAfterTimeout \in Phases
  BY DEF PhaseAfterTimeout, Advance, Phases, Waiting
<1>3. PhaseAgeAfterTimers \in 0..PhaseCap
  BY DEF PhaseAgeAfterTimers
<1>4. NotifyAgeAfterTimeout \in -1..NotifyCap
  BY DEF NotifyAgeAfterTimeout
<1>5. NotifyAgeAfterTimers \in -1..NotifyCap
  BY <1>4 DEF NotifyAgeAfterTimers
<1>6. ResentAfterTimers \in BOOLEAN
  BY DEF ResentAfterTimers, ResendDue
<1> QED BY <1>1, <1>2, <1>3, <1>4, <1>5, <1>6

\* A closed socket has the type of an empty connection.
LEMMA CloseSocketType ==
    ASSUME CloseSocket
    PROVE  /\ sock' \in BOOLEAN /\ phase' \in Phases
           /\ rx' \in Seq(Packets) /\ hup' \in BOOLEAN
           /\ wire' \in Seq(Written) /\ heard' \subseteq Kinds
           /\ waited' \in 0..WaitedCap
<1>1. rx' \in Seq(Packets) /\ wire' \in Seq(Written)
  BY DEF CloseSocket
<1>2. sock' \in BOOLEAN /\ hup' \in BOOLEAN /\ heard' \subseteq Kinds
  BY DEF CloseSocket
<1>3. phase' \in Phases /\ waited' \in 0..WaitedCap
  BY CapsType DEF CloseSocket, Phases
<1> QED BY <1>1, <1>2, <1>3

\* A packet is absorbed within the types.
LEMMA AbsorbType ==
    ASSUME TypeOK, rx # <<>>, Absorb(Head(rx))
    PROVE  /\ rx' \in Seq(Packets)
           /\ heard' \subseteq Kinds
           /\ batterySeen' \in BOOLEAN
           /\ lastBattery' \in Readings \cup {NoReading}
           /\ refusals' \in Nat
<1> DEFINE p == Head(rx)
<1>1. p \in Packets /\ rx' \in Seq(Packets)
  BY HeadTailProperties DEF TypeOK, Absorb
<1>2. p.kind \in Kinds /\ p.reading \in Readings \cup {NoReading}
  BY <1>1 DEF Packets, Kinds
<1> HIDE DEF p
<1>3. Absorb(p)
  BY DEF p
<1> QED BY <1>1, <1>2, <1>3 DEF TypeOK, Absorb

\* What step() returns is a Step.
LEMMA ReturnsType ==
    ASSUME NEW o \in StepResults, Returns(o)
    PROVE  out' \in StepResults /\ result' \in Results
BY DEF StepResults, Returns, Results

LEMMA PacketStepType ==
    ASSUME TypeOK, NEW p
    PROVE  PacketStep(p) \in StepResults
<1>1. PacketNote(p) \in Notes
  BY TimersType DEF PacketNote, Notes
<1> QED BY <1>1, TimersType DEF PacketStep, NoStep, StepResults, Notes

LEMMA NoStepType == NoStep \in StepResults
BY DEF NoStep, StepResults, Notes

\* The configuration is the constructor's.
LEMMA ConfigKept ==
    ASSUME [Next]_vars
    PROVE  cfg' = cfg
BY DEF Next, Open, OpenConnectFails, OpenWaits, OpenUpFront, OpenWriteFails, Close,
       Step, StepRuns, StepNotOpen, StepTimeoutWriteFails, StepResendWriteFails,
       StepHangup, StepNothing, StepInterrupted, TimersOnly, StepPacket, StepAck,
       StepAckWriteFails, Returns, PodsSend, PodsHangUp, Elapse, Quiet, vars

\* Every action keeps the types, for every configuration.
LEMMA TypeStep ==
    ASSUME TypeOK, [Next]_vars
    PROVE  TypeOK'
<1>0. cfg' \in Configs
  BY ConfigKept DEF TypeOK
<1> USE <1>0, CapsType
<1> USE DEF Written
<1>1. ASSUME Close PROVE TypeOK'
  BY <1>1, CloseSocketType, NoStepType
     DEF Close, TypeOK, bookkeeping, knowledge, Results
<1>2. ASSUME OpenConnectFails PROVE TypeOK'
  BY <1>2, NoStepType
     DEF OpenConnectFails, TypeOK, bookkeeping, knowledge, Results, FailStages
<1>3. ASSUME OpenWaits PROVE TypeOK'
  <2>1. wire' \in Seq(Written)
    BY <1>3, WritesType DEF OpenWaits
  <2>2. phase' \in Phases /\ notifyAge' \in -1..NotifyCap /\ phaseAge' \in 0..PhaseCap
    BY <1>3 DEF OpenWaits, ResetBookkeeping, Phases, Waiting
  <2>3. out' \in StepResults /\ result' \in Results
    BY <1>3, NoStepType DEF OpenWaits, Results
  <2> QED BY <1>3, <2>1, <2>2, <2>3
       DEF OpenWaits, ResetBookkeeping, TypeOK, knowledge
<1>4. ASSUME OpenUpFront PROVE TypeOK'
  <2>1. wire' \in Seq(Written)
    BY <1>4, WritesType DEF OpenUpFront
  <2>2. phase' \in Phases /\ notifyAge' \in -1..NotifyCap /\ phaseAge' \in 0..PhaseCap
    BY <1>4 DEF OpenUpFront, ResetBookkeeping, Phases
  <2>3. out' \in StepResults /\ result' \in Results
    BY <1>4, NoStepType DEF OpenUpFront, Results
  <2> QED BY <1>4, <2>1, <2>2, <2>3
       DEF OpenUpFront, ResetBookkeeping, TypeOK, knowledge
<1>5. ASSUME OpenWriteFails PROVE TypeOK'
  <2>1. notifyAge' \in -1..NotifyCap /\ phaseAge' \in 0..PhaseCap
    BY <1>5 DEF OpenWriteFails, ResetBookkeeping
  <2>2. out' \in StepResults /\ result' \in Results
    BY <1>5, NoStepType DEF OpenWriteFails, Results
  <2> QED BY <1>5, <2>1, <2>2, CloseSocketType
       DEF OpenWriteFails, ResetBookkeeping, TypeOK, knowledge
<1>6. ASSUME StepNotOpen PROVE TypeOK'
  <2>1. out' \in StepResults /\ result' \in Results
    BY <1>6 DEF StepNotOpen, Returns, StepResults, NoStep, Notes, Results
  <2> QED BY <1>6, <2>1 DEF StepNotOpen, TypeOK, bookkeeping, knowledge
<1>7. ASSUME StepTimeoutWriteFails PROVE TypeOK'
  <2>1. out' \in StepResults /\ result' \in Results
    BY <1>7, TimersType
       DEF StepTimeoutWriteFails, Returns, StepResults, NoStep, Notes, Results
  <2> QED BY <1>7, <2>1, CloseSocketType
       DEF StepTimeoutWriteFails, TypeOK, bookkeeping, knowledge
<1>8. ASSUME StepResendWriteFails PROVE TypeOK'
  <2>1. out' \in StepResults /\ result' \in Results
    BY <1>8, TimersType
       DEF StepResendWriteFails, Returns, StepResults, NoStep, Notes, Results
  <2> QED BY <1>8, <2>1, CloseSocketType, TimersType
       DEF StepResendWriteFails, TypeOK, knowledge
<1>9. ASSUME StepHangup PROVE TypeOK'
  <2>1. out' \in StepResults /\ result' \in Results
    BY <1>9, TimersType
       DEF StepHangup, Returns, StepResults, NoStep, Notes, Results
  <2> QED BY <1>9, <2>1, CloseSocketType, TimersType
       DEF StepHangup, TypeOK, knowledge
<1>10. ASSUME TimersRun
       PROVE  /\ phase' \in Phases
              /\ phaseAge' \in 0..PhaseCap
              /\ notifyAge' \in -1..NotifyCap
              /\ notifyResent' \in BOOLEAN
              /\ wire' \in Seq(Written)
  BY <1>10, TimersType, WritesType, ConcatProperties DEF TimersRun, TypeOK
<1>11. ASSUME TimersOnly PROVE TypeOK'
  <2>1. out' \in StepResults /\ result' \in Results
    BY <1>11, TimersType
       DEF TimersOnly, Returns, StepResults, NoStep, Notes, Results
  <2> QED BY <1>10, <1>11, <2>1 DEF TimersOnly, TypeOK, knowledge
<1>12. ASSUME StepPacket PROVE TypeOK'
  <2>1. out' \in StepResults /\ result' \in Results
    BY <1>12, PacketStepType, ReturnsType DEF StepPacket
  <2> QED BY <1>10, <1>12, <2>1, AbsorbType DEF StepPacket, TypeOK
<1>13. ASSUME StepAck PROVE TypeOK'
  <2>1. out' \in StepResults /\ result' \in Results
    BY <1>13, PacketStepType, ReturnsType DEF StepAck, StepResults
  <2>2. phase' \in Phases /\ notifyAge' \in -1..NotifyCap
    BY <1>13, TimersType DEF StepAck, Advance, Phases, Waiting
  <2>3. <<AdvanceWrite(PhaseAfterTimeout)>> \in Seq(Written)
    BY WritesType
  <2>4. wire' \in Seq(Written)
    BY <1>13, <2>3, WritesType, ConcatProperties DEF StepAck, TypeOK
  <2>5. phaseAge' \in 0..PhaseCap /\ notifyResent' \in BOOLEAN
    BY <1>13, TimersType DEF StepAck
  <2>6. rx # <<>> /\ Absorb(Head(rx)) /\ UNCHANGED <<sock, hup, waited>>
    BY <1>13 DEF StepAck
  <2> QED BY <2>1, <2>2, <2>4, <2>5, <2>6, AbsorbType DEF TypeOK
<1>14. ASSUME StepAckWriteFails PROVE TypeOK'
  <2>1. out' \in StepResults /\ result' \in Results
    <3> DEFINE o == [PacketStep(Head(rx)) EXCEPT !.closed = TRUE,
              !.phaseChanged = TimedOut \/ EntersBeforeWrite(PhaseAfterTimeout)]
    <3>1. o \in StepResults
      BY PacketStepType DEF StepResults
    <3> QED BY <1>14, <3>1, ReturnsType DEF StepAckWriteFails
  <2> QED BY <1>14, <2>1, CloseSocketType, TimersType
       DEF StepAckWriteFails, TypeOK, knowledge
<1>15. ASSUME PodsSend PROVE TypeOK'
  <2>1. rx' \in Seq(Packets)
    BY <1>15, AppendProperties DEF PodsSend, TypeOK
  <2> QED BY <1>15, <2>1, NoStepType
       DEF PodsSend, Quiet, TypeOK, bookkeeping, knowledge, Results
<1>16. ASSUME PodsHangUp PROVE TypeOK'
  BY <1>16, NoStepType
     DEF PodsHangUp, Quiet, TypeOK, bookkeeping, knowledge, Results
<1>17. ASSUME Elapse PROVE TypeOK'
  <2>0. phaseAge + 1 \in Nat /\ waited + 1 \in Nat
    BY DEF TypeOK
  <2>1. phaseAge' \in 0..PhaseCap
    BY <1>17, <2>0, CappedType DEF Elapse
  <2>2. waited' \in 0..WaitedCap
    BY <1>17, <2>0, CappedType DEF Elapse
  <2>3. notifyAge' \in -1..NotifyCap
    <3>1. CASE notifyAge < 0
      BY <1>17, <3>1 DEF Elapse, TypeOK
    <3>2. CASE ~(notifyAge < 0)
      <4>1. notifyAge + 1 \in Nat
        BY <3>2 DEF TypeOK
      <4>2. Capped(notifyAge + 1, NotifyCap) \in 0..NotifyCap
        BY <4>1, CappedType
      <4> QED BY <1>17, <3>2, <4>2 DEF Elapse
    <3> QED BY <3>1, <3>2
  <2> QED BY <1>17, <2>1, <2>2, <2>3, NoStepType
       DEF Elapse, Quiet, TypeOK, knowledge, Results
<1>18. ASSUME UNCHANGED vars PROVE TypeOK'
  BY <1>18 DEF vars, TypeOK, bookkeeping, knowledge
<1> QED
  BY <1>1, <1>2, <1>3, <1>4, <1>5, <1>6, <1>7, <1>8, <1>9, <1>11, <1>12,
     <1>13, <1>14, <1>15, <1>16, <1>17, <1>18
     DEF Next, Open, Step, StepRuns, StepNothing, StepInterrupted

\* The types hold in every state of every behaviour of session.cpp.
THEOREM TypeCorrect == Spec => []TypeOK
<1>1. Init => TypeOK
  <2> SUFFICES ASSUME Init PROVE TypeOK
    OBVIOUS
  <2>1. rx \in Seq(Packets) /\ wire \in Seq({"handshake", "caps", "notify"})
    BY DEF Init
  <2>2. phase \in Phases /\ phaseAge \in 0..PhaseCap /\ notifyAge \in -1..NotifyCap
        /\ waited \in 0..WaitedCap /\ refusals \in Nat
    BY CapsType DEF Init, Phases
  <2> QED BY <2>1, <2>2, NoStepType DEF Init, TypeOK, Results
<1> QED BY <1>1, TypeStep, PTL DEF Spec

-----------------------------------------------------------------------------
(***************************************************************************)
(* What is on the wire.  WireMatchesPhase is not inductive: it must also be*)
(* known that the request has not been repeated before the session listens *)
(* and that the wait for the features ack exists only with capabilities.   *)
(***************************************************************************)
WireInv ==
    /\ WireMatchesPhase
    /\ phase \in Waiting => ~notifyResent
    /\ phase = "WaitFeaturesAck" => HasCaps

LEMMA PhaseNames ==
    /\ "WaitHandshakeAck" \in Waiting /\ "WaitFeaturesAck" \in Waiting
    /\ "Listening" \notin Waiting /\ "Closed" \notin Waiting
BY DEF Waiting

\* Writing what advancing past p takes yields what the next phase has sent.
LEMMA AdvanceSends ==
    ASSUME NEW p \in Waiting, p = "WaitFeaturesAck" => HasCaps
    PROVE  SentBy(p) \o <<AdvanceWrite(p)>> = SentBy(Advance(p))
<1>1. CASE p = "WaitFeaturesAck"
  BY <1>1 DEF SentBy, Advance, AdvanceWrite, UpFrontWrites
<1>2. CASE p = "WaitHandshakeAck" /\ HasCaps
  BY <1>2 DEF SentBy, Advance, AdvanceWrite
<1>3. CASE p = "WaitHandshakeAck" /\ ~HasCaps
  <2>1. FirstWrite \o <<>> = FirstWrite
    BY WritesType, ConcatEmptySeq
  <2>2. UpFrontWrites = (FirstWrite \o <<>>) \o <<"notify">>
    BY <1>3 DEF UpFrontWrites
  <2>3. SentBy(p) = FirstWrite /\ SentBy(Advance(p)) = UpFrontWrites
        /\ AdvanceWrite(p) = "notify"
    BY <1>3 DEF SentBy, Advance, AdvanceWrite
  <2> QED BY <2>1, <2>2, <2>3
<1> QED BY <1>1, <1>2, <1>3 DEF Waiting

LEMMA SentByType ==
    ASSUME NEW p \in Phases \ {"Closed"}
    PROVE  SentBy(p) \in Seq(Written)
<1>1. <<"caps">> \in Seq(Written)
  BY DEF Written
<1>2. FirstWrite \o <<"caps">> \in Seq(Written)
  BY <1>1, WritesType, ConcatProperties
<1> QED BY <1>2, WritesType DEF SentBy, Phases, Waiting

\* The timers' writes lead from what the phase before them had sent to what
\* the phase after them has.
LEMMA TimersSend ==
    ASSUME TypeOK, WireInv, sock
    PROVE  /\ PhaseAfterTimeout \in Phases \ {"Closed"}
           /\ PhaseAfterTimeout \in Waiting => ~ResentAfterTimers
           /\ PhaseAfterTimeout = "WaitFeaturesAck" => HasCaps
           /\ wire \o TimerWrites
                = SentBy(PhaseAfterTimeout)
                    \o (IF ResentAfterTimers THEN <<"notify">> ELSE <<>>)
<1> DEFINE W1 == IF TimedOut THEN <<AdvanceWrite(phase)>> ELSE <<>>
           W2 == IF ResendDue THEN <<"notify">> ELSE <<>>
           R == IF notifyResent THEN <<"notify">> ELSE <<>>
           R2 == IF ResentAfterTimers THEN <<"notify">> ELSE <<>>
<1>1. PhaseAfterTimeout \in Phases \ {"Closed"}
  BY DEF TypeOK, WireInv, WireMatchesPhase, PhaseAfterTimeout, Advance, Phases, Waiting
<1>2. PhaseAfterTimeout \in Waiting => ~ResentAfterTimers
  BY PhaseNames
     DEF WireInv, PhaseAfterTimeout, ResentAfterTimers, ResendDue, TimedOut, Waiting
<1>3. PhaseAfterTimeout = "WaitFeaturesAck" => HasCaps
  BY DEF WireInv, PhaseAfterTimeout, Advance
<1>4. "notify" \in Written /\ AdvanceWrite(phase) \in Written
  BY WritesType DEF Written
<1>5. W1 \in Seq(Written) /\ W2 \in Seq(Written) /\ R \in Seq(Written)
  BY <1>4, OptionalWrite
<1>6. phase \in Phases \ {"Closed"} /\ wire = SentBy(phase) \o R
  BY DEF TypeOK, WireInv, WireMatchesPhase
<1>7. TimerWrites = W1 \o W2
  BY DEF TimerWrites
<1>8. wire \in Seq(Written)
  BY DEF TypeOK, Written
<1> HIDE DEF W1, W2, R, R2
<1>9. wire \o TimerWrites = (wire \o W1) \o W2
  <2>1. (wire \o W1) \o W2 = wire \o (W1 \o W2)
    BY <1>5, <1>8, Regroup, Zenon
  <2> QED BY <1>7, <2>1, Zenon DEF W1, W2
<1>10. wire \o W1 = SentBy(PhaseAfterTimeout) \o R
  <2>1. CASE TimedOut
    <3>1. phase \in Waiting /\ ~notifyResent
      BY <2>1 DEF TimedOut, WireInv
    <3>2. R = <<>> /\ wire = SentBy(phase)
      BY <3>1, <1>6, SentByType, ConcatEmptySeq DEF R
    <3>3. wire \o W1 = SentBy(PhaseAfterTimeout)
      BY <2>1, <3>1, <3>2, AdvanceSends DEF WireInv, PhaseAfterTimeout, W1
    <3> QED BY <1>1, <3>2, <3>3, SentByType, ConcatEmptySeq
  <2>2. CASE ~TimedOut
    <3>1. W1 = <<>> /\ PhaseAfterTimeout = phase
      BY <2>2 DEF PhaseAfterTimeout, W1
    <3> QED BY <3>1, <1>6, <1>8, ConcatEmptySeq
  <2> QED BY <2>1, <2>2
<1>11. (SentBy(PhaseAfterTimeout) \o R) \o W2 = SentBy(PhaseAfterTimeout) \o R2
  <2> DEFINE S == SentBy(PhaseAfterTimeout)
  <2>1. S \in Seq(Written)
    BY <1>1, SentByType
  <2> HIDE DEF S
  <2>2. CASE ResendDue
    <3>1. R = <<>> /\ R2 = <<"notify">> /\ W2 = <<"notify">>
      BY <2>2 DEF ResendDue, ResentAfterTimers, R, R2, W2
    <3> QED BY <2>1, <3>1, ConcatEmptySeq DEF S
  <2>3. CASE ~ResendDue
    <3>1. R2 = R /\ W2 = <<>>
      BY <2>3 DEF ResentAfterTimers, R, R2, W2
    <3>2. S \o R \in Seq(Written)
      BY <2>1, <1>5, ConcatProperties
    <3> QED BY <3>1, <3>2, ConcatEmptySeq DEF S
  <2> QED BY <2>2, <2>3
<1> QED BY <1>1, <1>2, <1>3, <1>9, <1>10, <1>11 DEF R2

\* What a phase stands for is a matter of the configuration alone.
LEMMA SentByKept ==
    ASSUME [Next]_vars
    PROVE  HasCaps' = HasCaps /\ SentBy(phase)' = SentBy(phase')
<1>1. HasCaps' = HasCaps /\ FirstWrite' = FirstWrite
  BY ConfigKept DEF HasCaps, FirstWrite
<1>2. UpFrontWrites' = UpFrontWrites
  BY <1>1 DEF UpFrontWrites
<1> QED BY <1>1, <1>2 DEF SentBy

LEMMA WireStep ==
    ASSUME TypeOK, WireInv, [Next]_vars
    PROVE  WireInv'
<1> USE SentByKept
<1>1. ASSUME CloseSocket PROVE WireInv'
  BY <1>1, PhaseNames DEF CloseSocket, WireInv, WireMatchesPhase
<1>2. ASSUME UNCHANGED <<sock, phase, notifyResent, wire>> PROVE WireInv'
  BY <1>2 DEF WireInv, WireMatchesPhase, SentBy
<1>3. ASSUME OpenWaits PROVE WireInv'
  <2>1. FirstWrite \o <<>> = FirstWrite
    BY WritesType, ConcatEmptySeq
  <2> QED BY <1>3, <2>1, PhaseNames
       DEF OpenWaits, ResetBookkeeping, WireInv, WireMatchesPhase, SentBy
<1>4. ASSUME OpenUpFront PROVE WireInv'
  <2>1. UpFrontWrites \o <<>> = UpFrontWrites
    BY WritesType, ConcatEmptySeq
  <2> QED BY <1>4, <2>1, PhaseNames
       DEF OpenUpFront, ResetBookkeeping, WireInv, WireMatchesPhase, SentBy
<1>5. ASSUME sock, UNCHANGED sock, TimersRun PROVE WireInv'
  BY <1>5, TimersSend DEF TimersRun, WireInv, WireMatchesPhase
<1>6. ASSUME StepAck PROVE WireInv'
  <2> DEFINE P == PhaseAfterTimeout
  <2>1. P \in Waiting /\ sock /\ sock'
    BY <1>6, PhaseNames DEF StepAck, Acks
  <2>2. ~ResentAfterTimers /\ wire \o TimerWrites = SentBy(P)
    BY <2>1, TimersSend, SentByType, ConcatEmptySeq
  <2>3. wire' = SentBy(Advance(P)) /\ phase' = Advance(P) /\ ~notifyResent'
    BY <1>6, <2>1, <2>2, TimersSend, AdvanceSends DEF StepAck
  <2>4. Advance(P) \in Phases \ {"Closed"} /\ (Advance(P) = "WaitFeaturesAck" => HasCaps)
    BY DEF Advance, Phases, Waiting
  <2>5. SentBy(phase') \o <<>> = SentBy(phase')
    BY <2>3, <2>4, SentByType, ConcatEmptySeq
  <2> QED BY <2>1, <2>3, <2>4, <2>5 DEF WireInv, WireMatchesPhase
<1> QED
  BY <1>1, <1>2, <1>3, <1>4, <1>5, <1>6
     DEF Next, Open, OpenConnectFails, OpenWriteFails, Close, Step, StepRuns,
         StepNotOpen, StepTimeoutWriteFails, StepResendWriteFails, StepHangup,
         StepNothing, StepInterrupted, TimersOnly, StepPacket, StepAckWriteFails,
         PodsSend, PodsHangUp, Elapse, vars, bookkeeping

LEMMA WireInvariant == Spec => []WireInv
<1>1. Init => WireInv
  BY PhaseNames DEF Init, WireInv, WireMatchesPhase
<1>2. TypeOK /\ WireInv /\ [Next]_vars => WireInv'
  BY WireStep
<1> QED BY <1>1, <1>2, TypeCorrect, PTL DEF Spec

\* For every configuration, and whatever the pods send, withhold or send late,
\* a connection has written exactly the sequence its phase stands for.
THEOREM WireCorrect == Spec => []WireMatchesPhase
<1>1. WireInv => WireMatchesPhase
  BY DEF WireInv
<1> QED BY <1>1, WireInvariant, PTL

-----------------------------------------------------------------------------
(***************************************************************************)
(* The time spent waiting.  EachMissingAckWasWaitedFor counts the waits    *)
(* that are over; the one under way is phaseAge, and it must be added to   *)
(* what is owed for the acks already given up, or the second timeout could *)
(* be charged to the first.  A closed session starts from nothing.         *)
(***************************************************************************)
Owed(ack) == IF ack \in heard THEN 0 ELSE PhaseCap

WaitInv ==
    /\ ~sock => waited = 0 /\ heard = {}
    /\ sock /\ ~UpFront =>
        /\ phase = "WaitHandshakeAck" => waited >= phaseAge
        /\ phase = "WaitFeaturesAck" => waited >= phaseAge + Owed("handshakeAck")
        /\ phase = "Listening" =>
              waited >= Owed("handshakeAck")
                          + (IF HasCaps THEN Owed("featuresAck") ELSE 0)

\* What a set of acks costs is the sum of what each of them costs.
LEMMA OwedSum ==
    /\ PhaseCap * Cardinality({} \ heard) = 0
    /\ PhaseCap * Cardinality({"handshakeAck"} \ heard) = Owed("handshakeAck")
    /\ PhaseCap * Cardinality({"handshakeAck", "featuresAck"} \ heard)
         = Owed("handshakeAck") + Owed("featuresAck")
<1> DEFINE a == "handshakeAck"
           b == "featuresAck"
<1>1. a # b
  OBVIOUS
<1> HIDE DEF a, b
<1>2. Cardinality({}) = 0 /\ Cardinality({a}) = 1 /\ Cardinality({b}) = 1
      /\ IsFiniteSet({a})
  BY FS_EmptySet, FS_Singleton
<1>3. Cardinality({a, b}) = 2
  <2>1. Cardinality({a} \cup {b}) = Cardinality({a}) + 1
    BY <1>1, <1>2, FS_AddElement
  <2>2. {a} \cup {b} = {a, b}
    OBVIOUS
  <2> QED BY <1>2, <2>1, <2>2
<1>4. {} \ heard = {}
  OBVIOUS
<1>5. {a} \ heard = IF a \in heard THEN {} ELSE {a}
  OBVIOUS
<1>6. {a, b} \ heard = IF a \in heard
                       THEN IF b \in heard THEN {} ELSE {b}
                       ELSE IF b \in heard THEN {a} ELSE {a, b}
  OBVIOUS
<1>7. PhaseCap \in Nat
  BY CapsType
<1>8. PhaseCap * Cardinality({a} \ heard) = Owed(a)
  BY <1>2, <1>5, <1>7 DEF Owed
<1>9. PhaseCap * Cardinality({a, b} \ heard) = Owed(a) + Owed(b)
  <2>1. CASE a \in heard /\ b \in heard
    BY <1>2, <1>6, <1>7, <2>1 DEF Owed
  <2>2. CASE a \in heard /\ b \notin heard
    BY <1>2, <1>6, <1>7, <2>2 DEF Owed
  <2>3. CASE a \notin heard /\ b \in heard
    BY <1>2, <1>6, <1>7, <2>3 DEF Owed
  <2>4. CASE a \notin heard /\ b \notin heard
    <3>1. Cardinality({a, b} \ heard) = 2
      BY <1>3, <1>6, <2>4
    <3>2. Owed(a) = PhaseCap /\ Owed(b) = PhaseCap
      BY <2>4 DEF Owed
    <3> QED BY <1>7, <3>1, <3>2
  <2> QED BY <2>1, <2>2, <2>3, <2>4
<1> QED BY <1>2, <1>4, <1>7, <1>8, <1>9 DEF a, b

\* What is owed is a natural and never grows while the connection lasts.
LEMMA OwedKept ==
    ASSUME NEW a, heard \subseteq heard'
    PROVE  /\ Owed(a) \in Nat /\ Owed(a)' \in Nat
           /\ Owed(a) <= PhaseCap
           /\ Owed(a)' <= Owed(a)
           /\ a \in heard' => Owed(a)' = 0
BY CapsType DEF Owed

\* When the timers have run, the wait under way is still paid for.
LEMMA TimersOwe ==
    ASSUME TypeOK, WireInv, WaitInv, sock, ~UpFront
    PROVE  /\ PhaseAfterTimeout = "WaitHandshakeAck" => waited >= PhaseAgeAfterTimers
           /\ PhaseAfterTimeout = "WaitFeaturesAck" =>
                waited >= PhaseAgeAfterTimers + Owed("handshakeAck")
           /\ PhaseAfterTimeout = "Listening" =>
                waited >= Owed("handshakeAck")
                            + (IF HasCaps THEN Owed("featuresAck") ELSE 0)
<1>0. /\ Owed("handshakeAck") \in 0..PhaseCap /\ Owed("featuresAck") \in 0..PhaseCap
      /\ phaseAge \in Nat /\ waited \in Nat /\ PhaseCap \in Nat
  BY CapsType DEF Owed, TypeOK
<1>1. CASE TimedOut
  <2>1. phaseAge >= PhaseCap /\ phase \in Waiting
    BY <1>1 DEF TimedOut, PhaseCap, TypeOK
  <2>2. CASE phase = "WaitHandshakeAck"
    BY <1>0, <1>1, <2>1, <2>2
       DEF WaitInv, PhaseAfterTimeout, PhaseAgeAfterTimers, Advance
  <2>3. CASE phase = "WaitFeaturesAck"
    BY <1>0, <1>1, <2>1, <2>3
       DEF WaitInv, WireInv, PhaseAfterTimeout, PhaseAgeAfterTimers, Advance
  <2> QED BY <2>1, <2>2, <2>3 DEF Waiting
<1>2. CASE ~TimedOut
  BY <1>2 DEF WaitInv, PhaseAfterTimeout, PhaseAgeAfterTimers
<1> QED BY <1>1, <1>2

LEMMA WaitStep ==
    ASSUME TypeOK, TypeOK', WireInv, WaitInv, [Next]_vars
    PROVE  WaitInv'
<1>0. cfg' = cfg /\ HasCaps' = HasCaps /\ (UpFront' <=> UpFront)
  BY ConfigKept DEF HasCaps, UpFront
<1> USE <1>0
<1>1. ASSUME CloseSocket PROVE WaitInv'
  BY <1>1 DEF CloseSocket, WaitInv
<1>2. ASSUME UNCHANGED <<sock, phase, phaseAge, heard, waited>> PROVE WaitInv'
  BY <1>2 DEF WaitInv, Owed
<1>3. ASSUME OpenWaits \/ OpenUpFront PROVE WaitInv'
  <2>1. CASE OpenWaits
    BY <2>1 DEF OpenWaits, ResetBookkeeping, WaitInv
  <2>2. CASE OpenUpFront
    BY <2>2 DEF OpenUpFront, WaitInv
  <2> QED BY <1>3, <2>1, <2>2
<1>4. ASSUME sock, UNCHANGED <<sock, waited>>, TimersRun, heard \subseteq heard'
      PROVE  WaitInv'
  <2> SUFFICES ASSUME ~UpFront PROVE WaitInv'
    BY <1>4 DEF WaitInv
  <2>1. phase' = PhaseAfterTimeout /\ phaseAge' = PhaseAgeAfterTimers
    BY <1>4 DEF TimersRun
  <2>2. waited \in Nat /\ phaseAge' \in Nat
    BY DEF TypeOK
  <2> QED BY <1>4, <2>1, <2>2, TimersOwe, OwedKept DEF WaitInv
<1>5. ASSUME StepAck PROVE WaitInv'
  <2> SUFFICES ASSUME ~UpFront PROVE WaitInv'
    BY <1>5 DEF WaitInv, StepAck
  <2> DEFINE P == PhaseAfterTimeout
  <2>1. /\ sock /\ UNCHANGED <<sock, waited>> /\ phase' = Advance(P) /\ phaseAge' = 0
        /\ heard' = heard \cup {Head(rx).kind} /\ Acks(Head(rx))
    BY <1>5 DEF StepAck, Absorb
  <2>2. waited \in Nat /\ PhaseAgeAfterTimers \in Nat
    BY TimersType DEF TypeOK
  <2>3. heard \subseteq heard'
    BY <2>1
  <2>4. CASE P = "WaitHandshakeAck"
    <3>1. "handshakeAck" \in heard' /\ P # "WaitFeaturesAck"
      BY <2>1, <2>4 DEF Acks
    <3>2. phase' = IF HasCaps THEN "WaitFeaturesAck" ELSE "Listening"
      BY <2>1, <2>4 DEF Advance
    <3>3. Owed("handshakeAck")' = 0
      BY <2>3, <3>1, OwedKept
    <3> QED BY <2>1, <2>2, <3>2, <3>3 DEF WaitInv
  <2>5. CASE P = "WaitFeaturesAck"
    <3>1. "featuresAck" \in heard'
      BY <2>1, <2>5 DEF Acks
    <3>2. phase' = "Listening"
      BY <2>1, <2>5 DEF Advance
    <3>3. /\ Owed("featuresAck")' = 0 /\ Owed("handshakeAck")' <= Owed("handshakeAck")
          /\ Owed("handshakeAck") \in Nat /\ Owed("handshakeAck")' \in Nat
      BY <2>3, <3>1, OwedKept
    <3>4. waited >= PhaseAgeAfterTimers + Owed("handshakeAck")
      BY <2>1, <2>5, TimersOwe
    <3> QED BY <2>1, <2>2, <3>2, <3>3, <3>4 DEF WaitInv
  <2> QED BY <2>1, <2>4, <2>5 DEF Acks
<1>6. ASSUME Elapse PROVE WaitInv'
  <2>1. /\ phaseAge \in 0..PhaseCap /\ waited \in 0..WaitedCap /\ PhaseCap \in Nat
        /\ WaitedCap = PhaseCap + PhaseCap
    BY CapsType DEF TypeOK, WaitedCap
  <2>2. /\ phaseAge' <= phaseAge + 1 /\ phaseAge' \in 0..PhaseCap
        /\ waited' = waited + 1 \/ waited' = WaitedCap
        /\ waited' >= waited /\ waited' \in Nat
    BY <1>6, <2>1 DEF Elapse, Capped
  <2>3. UNCHANGED <<sock, phase, heard>> /\ sock
    BY <1>6 DEF Elapse
  <2>4. \A a : Owed(a)' = Owed(a) /\ Owed(a) \in 0..PhaseCap
    BY <2>3, CapsType DEF Owed
  <2> QED BY <2>1, <2>2, <2>3, <2>4 DEF WaitInv
<1>7. ASSUME TimersOnly, sock PROVE WaitInv'
  BY <1>4, <1>7 DEF TimersOnly
<1>8. ASSUME StepPacket PROVE WaitInv'
  <2>1. heard \subseteq heard'
    BY <1>8 DEF StepPacket, Absorb
  <2> QED BY <1>4, <1>8, <2>1 DEF StepPacket
<1> QED
  BY <1>1, <1>2, <1>3, <1>5, <1>6, <1>7, <1>8
     DEF Next, Open, OpenConnectFails, OpenWriteFails, Close, Step, StepRuns,
         StepNotOpen, StepTimeoutWriteFails, StepResendWriteFails, StepHangup,
         StepNothing, StepInterrupted, StepAckWriteFails,
         PodsSend, PodsHangUp, vars, bookkeeping

LEMMA WaitInvariant == Spec => []WaitInv
<1>1. Init => WaitInv
  BY DEF Init, WaitInv
<1>2. TypeOK /\ TypeOK' /\ WireInv /\ WaitInv /\ [Next]_vars => WaitInv'
  BY WaitStep
<1> QED BY <1>1, <1>2, TypeCorrect, WireInvariant, PTL DEF Spec

\* For every ack_timeout_ms and every configuration that waits for acks: each
\* ack the handshake went on without has been waited for on its own, in full.
THEOREM WaitedCorrect == Spec => []EachMissingAckWasWaitedFor
<1>1. TypeOK /\ WireInv /\ WaitInv => EachMissingAckWasWaitedFor
  <2> SUFFICES ASSUME TypeOK, WireInv, WaitInv, sock, ~UpFront
               PROVE  waited >= PhaseCap * Cardinality(AcksBefore(phase) \ heard)
    BY DEF EachMissingAckWasWaitedFor
  <2>1. /\ Owed("handshakeAck") \in Nat /\ Owed("featuresAck") \in Nat
        /\ phaseAge \in Nat /\ waited \in Nat
    BY CapsType DEF Owed, TypeOK
  <2>2. phase \in {"WaitHandshakeAck", "WaitFeaturesAck", "Listening"}
    BY DEF TypeOK, Phases, Waiting, WireInv, WireMatchesPhase
  <2>3. CASE phase = "WaitHandshakeAck"
    BY <2>1, <2>3, OwedSum DEF AcksBefore, WaitInv
  <2>4. CASE phase = "WaitFeaturesAck"
    BY <2>1, <2>4, OwedSum DEF AcksBefore, WaitInv
  <2>5. CASE phase = "Listening"
    <3>1. CASE HasCaps
      <4>1. AcksBefore(phase) = {"handshakeAck", "featuresAck"}
        BY <2>5, <3>1 DEF AcksBefore
      <4>2. waited >= Owed("handshakeAck") + Owed("featuresAck")
        BY <2>5, <3>1 DEF WaitInv
      <4> QED BY <4>1, <4>2, OwedSum
    <3>2. CASE ~HasCaps
      <4>1. AcksBefore(phase) = {"handshakeAck"}
        BY <2>5, <3>2 DEF AcksBefore
      <4>2. waited >= Owed("handshakeAck")
        BY <2>1, <2>5, <3>2 DEF WaitInv
      <4> QED BY <4>1, <4>2, OwedSum
    <3> QED BY <3>1, <3>2
  <2> QED BY <2>2, <2>3, <2>4, <2>5
<1> QED BY <1>1, TypeCorrect, WireInvariant, WaitInvariant, PTL

-----------------------------------------------------------------------------
(***************************************************************************)
(* The repeated request.  battery_seen_ is what the session remembers of   *)
(* the packets this connection has read; the wire tells whether the        *)
(* request was repeated because notify_resent_ does.                       *)
(***************************************************************************)
SeenInv == sock => (batterySeen <=> BatteryHeard)

LEMMA SeenStep ==
    ASSUME TypeOK, WaitInv, SeenInv, [Next]_vars
    PROVE  SeenInv'
<1>1. ASSUME CloseSocket PROVE SeenInv'
  BY <1>1 DEF CloseSocket, SeenInv
<1>2. ASSUME UNCHANGED <<sock, batterySeen, heard>> PROVE SeenInv'
  BY <1>2 DEF SeenInv, BatteryHeard
<1>3. ASSUME ~sock, batterySeen' = FALSE, UNCHANGED heard PROVE SeenInv'
  BY <1>3 DEF SeenInv, WaitInv, BatteryHeard
<1>4. ASSUME NEW p, Absorb(p), sock, UNCHANGED sock PROVE SeenInv'
  BY <1>4 DEF Absorb, SeenInv, BatteryHeard
<1> QED
  BY <1>1, <1>2, <1>3, <1>4
     DEF Next, Open, OpenConnectFails, OpenWaits, OpenUpFront, ResetBookkeeping,
         OpenWriteFails, Close, Step, StepRuns, StepNotOpen, StepTimeoutWriteFails,
         StepResendWriteFails, StepHangup, StepNothing, StepInterrupted, TimersOnly,
         StepPacket, StepAck, StepAckWriteFails, PodsSend, PodsHangUp, Elapse,
         vars, bookkeeping

LEMMA SeenInvariant == Spec => []SeenInv
<1>1. Init => SeenInv
  BY DEF Init, SeenInv
<1>2. TypeOK /\ WaitInv /\ SeenInv /\ [Next]_vars => SeenInv'
  BY SeenStep
<1> QED BY <1>1, <1>2, TypeCorrect, WaitInvariant, PTL DEF Spec

\* One more packet on the wire is one more request, if it is one.
LEMMA CountAppend ==
    ASSUME NEW s \in Seq(Written), NEW x \in Written
    PROVE  /\ NotifyCount(s) \in Nat
           /\ NotifyCount(s \o <<x>>)
                = NotifyCount(s) + (IF x = "notify" THEN 1 ELSE 0)
<1> DEFINE At(w) == {i \in DOMAIN w : w[i] = "notify"}
           t == s \o <<x>>
<1>1. DOMAIN s = 1..Len(s) /\ Len(s) \in Nat
  OBVIOUS
<1>2. IsFiniteSet(1..Len(s)) /\ At(s) \in SUBSET (1..Len(s))
  BY <1>1, FS_Interval
<1>3. IsFiniteSet(At(s)) /\ Cardinality(At(s)) \in Nat
  BY <1>2, FS_Subset, FS_CardinalityType
<1>4. /\ DOMAIN t = 1..(Len(s) + 1)
      /\ \A i \in 1..Len(s) : t[i] = s[i]
      /\ t[Len(s) + 1] = x
  BY <1>1
<1> HIDE DEF t
<1>5. CASE x = "notify"
  <2>1. At(t) = At(s) \cup {Len(s) + 1} /\ Len(s) + 1 \notin At(s)
    BY <1>1, <1>4, <1>5
  <2>2. Cardinality(At(t)) = Cardinality(At(s)) + 1
    BY <1>3, <2>1, FS_AddElement
  <2> QED BY <1>3, <1>5, <2>2 DEF NotifyCount, t
<1>6. CASE x # "notify"
  <2>1. At(t) = At(s)
    BY <1>1, <1>4, <1>6
  <2>2. NotifyCount(t) = Cardinality(At(s)) /\ NotifyCount(s) = Cardinality(At(s))
    BY <2>1, Zenon DEF NotifyCount
  <2> QED BY <1>3, <1>6, <2>2 DEF t
<1> QED BY <1>5, <1>6

\* The first notification request is what a session listens on.
LEMMA CountSent ==
    ASSUME NEW p \in Phases \ {"Closed"}
    PROVE  NotifyCount(SentBy(p)) = IF p = "Listening" THEN 1 ELSE 0
<1>1. "handshake" \in Written /\ "caps" \in Written /\ "notify" \in Written
  BY DEF Written
<1>2. <<>> \in Seq(Written) /\ FirstWrite \in Seq(Written)
  BY WritesType
<1>3. NotifyCount(<<>>) = 0
  <2>1. {i \in DOMAIN <<>> : <<>>[i] = "notify"} = {}
    OBVIOUS
  <2> QED BY <2>1, FS_EmptySet DEF NotifyCount
<1>4. NotifyCount(FirstWrite) = 0
  <2> DEFINE w == <<"handshake">>
  <2>1. {i \in DOMAIN w : w[i] = "notify"} = {}
    OBVIOUS
  <2>2. NotifyCount(w) = 0
    BY <2>1, FS_EmptySet DEF NotifyCount
  <2> QED BY <1>3, <2>2 DEF FirstWrite
<1>5. NotifyCount(FirstWrite \o <<"caps">>) = 0
  BY <1>1, <1>2, <1>4, CountAppend
<1>6. NotifyCount(UpFrontWrites) = 1
  <2> DEFINE s == FirstWrite \o (IF HasCaps THEN <<"caps">> ELSE <<>>)
  <2>1. s = IF HasCaps THEN FirstWrite \o <<"caps">> ELSE FirstWrite
    BY <1>2, ConcatEmptySeq
  <2>2. <<"caps">> \in Seq(Written)
    BY <1>1
  <2>3. s \in Seq(Written) /\ NotifyCount(s) = 0
    BY <1>2, <1>4, <1>5, <2>1, <2>2, ConcatProperties
  <2> HIDE DEF s
  <2>4. NotifyCount(s \o <<"notify">>) = 1
    BY <1>1, <2>3, CountAppend
  <2> QED BY <2>4 DEF s, UpFrontWrites
<1> QED BY <1>4, <1>5, <1>6 DEF SentBy, Phases, Waiting

\* What was sent for a phase, with the repeat or without it.
LEMMA CountWire ==
    ASSUME NEW p \in Phases \ {"Closed"}, NEW resent \in BOOLEAN
    PROVE  NotifyCount(SentBy(p) \o (IF resent THEN <<"notify">> ELSE <<>>))
             = (IF p = "Listening" THEN 1 ELSE 0) + (IF resent THEN 1 ELSE 0)
<1>1. SentBy(p) \in Seq(Written) /\ "notify" \in Written
  BY SentByType DEF Written
<1>2. CASE resent
  BY <1>1, <1>2, CountAppend, CountSent
<1>3. CASE ~resent
  BY <1>1, <1>3, ConcatEmptySeq, CountSent
<1> QED BY <1>2, <1>3

\* Only the re-send timer repeats the request on a connection.
LEMMA ResentWhenDue ==
    ASSUME [Next]_vars, sock, sock', ~notifyResent, notifyResent'
    PROVE  ResendDue
BY DEF Next, Open, OpenConnectFails, OpenWaits, OpenUpFront, OpenWriteFails, Close,
       CloseSocket, Step, StepRuns, StepNotOpen, StepTimeoutWriteFails,
       StepResendWriteFails, StepHangup, StepNothing, StepInterrupted, TimersOnly,
       TimersRun, ResentAfterTimers, StepPacket, StepAck, StepAckWriteFails,
       PodsSend, PodsHangUp, Elapse, vars, bookkeeping

LEMMA RepeatStep ==
    ASSUME TypeOK, TypeOK', WireInv, WireInv', SeenInv, [Next]_vars,
           sock, sock', NotifyCount(wire') = 2, NotifyCount(wire) < 2
    PROVE  ~BatteryHeard
<1>1. /\ phase \in Phases \ {"Closed"} /\ phase' \in Phases \ {"Closed"}
      /\ notifyResent \in BOOLEAN /\ notifyResent' \in BOOLEAN
  BY DEF TypeOK, WireInv, WireMatchesPhase
<1>2. wire = SentBy(phase) \o (IF notifyResent THEN <<"notify">> ELSE <<>>)
  BY DEF WireInv, WireMatchesPhase
<1>3. wire' = SentBy(phase') \o (IF notifyResent' THEN <<"notify">> ELSE <<>>)
  BY SentByKept DEF WireInv, WireMatchesPhase
<1>4. NotifyCount(wire) = (IF phase = "Listening" THEN 1 ELSE 0)
                            + (IF notifyResent THEN 1 ELSE 0)
  BY <1>1, <1>2, CountWire
<1>5. NotifyCount(wire') = (IF phase' = "Listening" THEN 1 ELSE 0)
                             + (IF notifyResent' THEN 1 ELSE 0)
  BY <1>1, <1>3, CountWire
<1>6. notifyResent'
  BY <1>5
<1>7. ~notifyResent
  <2>1. phase # "Listening" => phase \in Waiting
    BY <1>1 DEF Phases
  <2> QED BY <1>1, <1>4, <2>1 DEF WireInv
<1>8. ResendDue
  BY <1>6, <1>7, ResentWhenDue
<1> QED BY <1>8 DEF ResendDue, SeenInv

\* For every notify_resend_ms: a connection that has read a battery packet,
\* accepted or refused, never has its notification request repeated.
THEOREM RepeatCorrect == Spec => NoRepeatAfterBattery
<1>1. TypeOK /\ TypeOK' /\ WireInv /\ WireInv' /\ SeenInv /\ [Next]_vars
        => [sock /\ sock' /\ NotifyCount(wire') = 2 /\ NotifyCount(wire) < 2
              => ~BatteryHeard]_vars
  BY RepeatStep
<1> QED BY <1>1, TypeCorrect, WireInvariant, SeenInvariant, PTL
         DEF Spec, NoRepeatAfterBattery

-----------------------------------------------------------------------------
(***************************************************************************)
(* Session implements Channel.                                             *)
(***************************************************************************)

\* Timeouts and acks only move the handshake forward.
LEMMA AdvanceForward ==
    ASSUME NEW p \in Waiting
    PROVE  /\ Advance(p) \in Phases \ {"Closed"}
           /\ Advance(p) # p
           /\ Promise!Rank(Advance(p)) > Promise!Rank(p)
BY DEF Advance, Waiting, Phases, Promise!Rank

LEMMA TimeoutForward ==
    ASSUME TypeOK, WireInv, sock
    PROVE  /\ PhaseAfterTimeout \in Phases \ {"Closed"}
           /\ Promise!Rank(PhaseAfterTimeout) >= Promise!Rank(phase)
           /\ TimedOut <=> PhaseAfterTimeout # phase
<1>1. phase \in Phases \ {"Closed"}
  BY DEF TypeOK, WireInv, WireMatchesPhase
<1>2. Promise!Rank(phase) \in Nat
  BY <1>1 DEF Promise!Rank, Phases, Waiting
<1>3. CASE TimedOut
  <2>1. phase \in Waiting
    BY <1>3 DEF TimedOut
  <2>2. Promise!Rank(Advance(phase)) \in Nat
    BY DEF Advance, Promise!Rank
  <2> QED BY <1>2, <1>3, <2>1, <2>2, AdvanceForward DEF PhaseAfterTimeout
<1>4. CASE ~TimedOut
  BY <1>1, <1>2, <1>4 DEF PhaseAfterTimeout
<1> QED BY <1>3, <1>4


\* The returned values, as a consumer of Channel sees them.
QuietStep(called, closed) ==
    [called |-> called, packet |-> FALSE, battery |-> FALSE,
     closed |-> closed, phaseChanged |-> FALSE, note |-> "none"]

LEMMA AbstractQuiet ==
    ASSUME NEW called \in BOOLEAN, NEW closed \in BOOLEAN,
           out' = QuietStep(called, closed)
    PROVE  AbstractStep' = Promise!PlainStep(called, closed)
<1>1. /\ out'.called = called /\ out'.packet = FALSE /\ out'.battery = FALSE
      /\ out'.closed = closed /\ out'.phaseChanged = FALSE
      /\ (out'.note # "none") = FALSE
  BY DEF QuietStep
<1> QED BY <1>1, Zenon DEF AbstractStep, Promise!PlainStep

LEMMA AbstractNoStep ==
    ASSUME out' = NoStep
    PROVE  AbstractStep' = Promise!NoStep
<1>1. out' = QuietStep(FALSE, FALSE)
  BY DEF NoStep, QuietStep
<1> QED BY <1>1, AbstractQuiet DEF Promise!NoStep

LEMMA AbstractReturns ==
    ASSUME NEW o \in StepResults, Returns(o)
    PROVE  /\ AbstractResult' = "none"
           /\ AbstractStep' \in Promise!StepResults
           /\ AbstractStep'.called
           /\ AbstractStep'.packet = o.packet
           /\ AbstractStep'.battery = o.battery
           /\ AbstractStep'.closed = o.closed
           /\ AbstractStep'.phaseChanged = o.phaseChanged
           /\ AbstractStep'.note = (o.note # "none")
<1>1. AbstractResult' = "none"
  BY DEF Returns, AbstractResult
<1>2. out' \in StepResults
  BY ReturnsType
<1>3. /\ out'.called /\ out'.packet = o.packet /\ out'.battery = o.battery
      /\ out'.closed = o.closed /\ out'.phaseChanged = o.phaseChanged
      /\ out'.note = o.note
  BY DEF Returns, StepResults
<1> QED BY <1>1, <1>2, <1>3 DEF AbstractStep, StepResults, Promise!StepResults

\* Every step of Session is a step of Channel or changes nothing it shows.
LEMMA ChannelStep ==
    ASSUME TypeOK, TypeOK', WireInv, WireInv', [Next]_vars
    PROVE  [Promise!ChNext]_(Promise!chVars)
<1>1. ASSUME Close PROVE Promise!ChClose
  BY <1>1, AbstractNoStep
     DEF Close, CloseSocket, Promise!ChClose, knowledge, AbstractResult
<1>2. ASSUME OpenConnectFails PROVE Promise!ChOpenFails
  BY <1>2, AbstractNoStep
     DEF OpenConnectFails, Promise!ChOpenFails, AbstractResult,
              knowledge, FailStages, Stages, WireInv, WireMatchesPhase
<1>3. ASSUME OpenWaits \/ OpenUpFront PROVE Promise!ChOpenOk
  BY <1>3, AbstractNoStep DEF OpenWaits, OpenUpFront, Promise!ChOpenOk, AbstractResult,
              knowledge, WireInv, WireMatchesPhase
<1>4. ASSUME OpenWriteFails PROVE Promise!ChOpenFails
  BY <1>4, AbstractNoStep DEF OpenWriteFails, CloseSocket, Promise!ChOpenFails, 
              AbstractResult, knowledge, WireInv, WireMatchesPhase
<1>5. ASSUME Quiet, UNCHANGED <<phase, knowledge>> PROVE Promise!ChForget
  BY <1>5, AbstractNoStep DEF Quiet, Promise!ChForget, AbstractResult, knowledge
<1>6. ASSUME StepNotOpen PROVE Promise!ChStepNotOpen
  <2>1. AbstractStep' = Promise!PlainStep(TRUE, TRUE)
    <3>1. out' = QuietStep(TRUE, TRUE)
      BY <1>6 DEF StepNotOpen, Returns, NoStep, QuietStep
    <3> QED BY <3>1, AbstractQuiet
  <2> QED BY <1>6, <2>1
       DEF StepNotOpen, Returns, Promise!ChStepNotOpen, AbstractResult,
           knowledge, WireInv, WireMatchesPhase
<1>7. ASSUME sock, CloseSocket, UNCHANGED knowledge,
             NEW o \in StepResults, o.closed, ~o.battery, Returns(o)
      PROVE  Promise!ChStepActive
  <2>1. phase # "Closed" /\ phase' = "Closed"
    BY <1>7 DEF CloseSocket, WireInv, WireMatchesPhase
  <2> QED BY <1>7, <2>1, AbstractReturns
       DEF Promise!ChStepActive, Promise!Idle, Promise!Phases, knowledge
<1>8. ASSUME StepTimeoutWriteFails PROVE Promise!ChStepActive
  <2> DEFINE o == [NoStep EXCEPT !.closed = TRUE, !.note = TimerNote]
  <2>1. o \in StepResults /\ o.closed /\ ~o.battery
    BY TimersType DEF NoStep, StepResults, Notes
  <2>2. Returns(o)
    BY <1>8 DEF StepTimeoutWriteFails
  <2> HIDE DEF o
  <2> QED BY <1>7, <1>8, <2>1, <2>2 DEF StepTimeoutWriteFails, knowledge
<1>9. ASSUME StepResendWriteFails PROVE Promise!ChStepActive
  <2> DEFINE o == [NoStep EXCEPT !.closed = TRUE, !.note = TimerNote,
                                 !.phaseChanged = TimedOut]
  <2>1. o \in StepResults /\ o.closed /\ ~o.battery
    BY TimersType DEF NoStep, StepResults, Notes
  <2>2. Returns(o)
    BY <1>9 DEF StepResendWriteFails
  <2> HIDE DEF o
  <2> QED BY <1>7, <1>9, <2>1, <2>2 DEF StepResendWriteFails, knowledge
<1>10. ASSUME StepHangup PROVE Promise!ChStepActive
  <2> DEFINE n == IF TimerNote = "none" THEN "closedByPeer" ELSE TimerNote
             o == [NoStep EXCEPT !.closed = TRUE, !.phaseChanged = TimedOut,
                                 !.note = n]
  <2>1. o \in StepResults /\ o.closed /\ ~o.battery
    BY TimersType DEF NoStep, StepResults, Notes
  <2>2. Returns(o)
    BY <1>10 DEF StepHangup
  <2> HIDE DEF o
  <2> QED BY <1>7, <1>10, <2>1, <2>2 DEF StepHangup, knowledge
<1>11. ASSUME sock, TimersOnly PROVE Promise!ChStepIdle \/ Promise!ChStepActive
  <2> DEFINE o == [NoStep EXCEPT !.phaseChanged = TimedOut, !.note = TimerNote]
  <2>1. /\ o \in StepResults /\ ~o.packet /\ ~o.battery /\ ~o.closed
        /\ o.phaseChanged = TimedOut /\ o.note = TimerNote
    BY TimersType DEF NoStep, StepResults, Notes
  <2>2. Returns(o) /\ phase' = PhaseAfterTimeout /\ UNCHANGED knowledge
    BY <1>11 DEF TimersOnly, TimersRun
  <2>3. phase # "Closed"
    BY <1>11 DEF WireInv, WireMatchesPhase
  <2> HIDE DEF o
  <2>4. CASE TimerNote = "none"
    <3>1. ~TimedOut /\ phase' = phase
      BY <2>2, <2>4 DEF TimerNote, PhaseAfterTimeout
    <3>2. AbstractStep' = Promise!PlainStep(TRUE, FALSE)
      <4>1. TimedOut = FALSE
        BY <3>1, TimersType
      <4>2. out' = QuietStep(TRUE, FALSE)
        BY <1>11, <2>4, <4>1 DEF TimersOnly, Returns, NoStep, QuietStep
      <4> QED BY <4>2, AbstractQuiet
    <3> QED BY <2>1, <2>2, <2>3, <3>1, <3>2, AbstractReturns
         DEF Promise!ChStepIdle, knowledge
  <2>5. CASE TimerNote # "none"
    BY <1>11, <2>1, <2>2, <2>3, <2>5, AbstractReturns, TimeoutForward
       DEF Promise!ChStepActive, Promise!Idle, Promise!Phases, Phases, Waiting,
           knowledge
  <2> QED BY <2>4, <2>5
<1>12. ASSUME NEW p, p = Head(rx), rx # <<>>
       PROVE  p.kind \in Kinds /\ (p.kind = "battery" => p.reading \in Readings)
  <2>1. p \in Packets
    BY <1>12, HeadTailProperties DEF TypeOK
  <2> QED BY <2>1 DEF Packets, Kinds
<1>13. ASSUME NEW p
       PROVE  /\ PacketStep(p) \in StepResults
              /\ PacketStep(p).packet /\ ~PacketStep(p).closed
              /\ PacketStep(p).battery = (p.kind = "battery")
              /\ PacketStep(p).phaseChanged = TimedOut
              /\ PacketStep(p).note = PacketNote(p)
  <2>1. PacketStep(p) \in StepResults
    BY PacketStepType
  <2> QED BY <2>1 DEF PacketStep, NoStep
<1>14. ASSUME StepPacket PROVE Promise!ChStepActive
  <2> DEFINE p == Head(rx)
  <2>1. /\ sock /\ rx # <<>> /\ Absorb(p) /\ Returns(PacketStep(p))
        /\ phase' = PhaseAfterTimeout
    BY <1>14 DEF StepPacket, TimersRun
  <2>2. phase # "Closed"
    BY <2>1 DEF WireInv, WireMatchesPhase
  <2>3. p.kind \in Kinds /\ (p.kind = "battery" => p.reading \in Readings)
    BY <1>12, <2>1
  <2> HIDE DEF p
  <2>4. /\ p.kind = "battery" => lastBattery' \in Readings
        /\ p.kind # "battery" => lastBattery' = lastBattery
        /\ refusals' = refusals \/ (/\ refusals' = refusals + 1
                                    /\ p.kind = "badBattery"
                                    /\ PacketNote(p) # "none")
        /\ p.kind = "battery" => refusals' = refusals
    BY <2>1, <2>3 DEF Absorb, PacketNote
  <2> QED BY <1>13, <2>1, <2>2, <2>3, <2>4, AbstractReturns, TimeoutForward
       DEF Promise!ChStepActive, Promise!Idle, Promise!Phases, Phases, Waiting
<1>15. ASSUME rx # <<>>, Acks(Head(rx))
       PROVE  /\ Head(rx).kind # "battery" /\ Head(rx).kind # "badBattery"
              /\ PhaseAfterTimeout \in Waiting
  BY <1>15, PhaseNames DEF Acks
<1>16. ASSUME StepAck PROVE Promise!ChStepActive
  <2> DEFINE o == [PacketStep(Head(rx)) EXCEPT !.phaseChanged = TRUE]
  <2>1. /\ sock /\ rx # <<>> /\ Absorb(Head(rx)) /\ Acks(Head(rx)) /\ Returns(o)
        /\ phase' = Advance(PhaseAfterTimeout)
    BY <1>16 DEF StepAck
  <2>2. o \in StepResults /\ o.packet /\ ~o.closed /\ ~o.battery /\ o.phaseChanged
    BY <1>13, <1>15, <2>1 DEF StepResults
  <2>3. UNCHANGED knowledge
    BY <1>15, <2>1 DEF Absorb, knowledge
  <2> HIDE DEF o
  <2>4. phase # "Closed" /\ phase \in Phases
    BY <2>1 DEF WireInv, WireMatchesPhase, TypeOK
  <2>5. /\ phase' \in Phases \ {"Closed"} /\ phase' # phase
        /\ Promise!Rank(phase') >= Promise!Rank(phase)
    <3>1. /\ Promise!Rank(phase) \in Nat
          /\ Promise!Rank(PhaseAfterTimeout) \in Nat
          /\ Promise!Rank(Advance(PhaseAfterTimeout)) \in Nat
      BY <1>15, <2>1, <2>4 DEF Promise!Rank, Phases, Waiting, Advance
    <3>2. Promise!Rank(phase') > Promise!Rank(phase)
      BY <1>15, <2>1, <3>1, AdvanceForward, TimeoutForward
    <3> QED BY <1>15, <2>1, <3>1, <3>2, AdvanceForward
  <2> QED BY <2>1, <2>2, <2>3, <2>4, <2>5, AbstractReturns
       DEF Promise!ChStepActive, Promise!Idle, Promise!Phases, Phases, Waiting,
           knowledge
<1>17. ASSUME StepAckWriteFails PROVE Promise!ChStepActive
  <2> DEFINE o == [PacketStep(Head(rx)) EXCEPT !.closed = TRUE,
              !.phaseChanged = TimedOut \/ EntersBeforeWrite(PhaseAfterTimeout)]
  <2>1. /\ sock /\ rx # <<>> /\ Acks(Head(rx)) /\ Returns(o) /\ CloseSocket
        /\ UNCHANGED knowledge
    BY <1>17 DEF StepAckWriteFails, knowledge
  <2>2. o \in StepResults /\ o.closed /\ ~o.battery
    BY <1>13, <1>15, <2>1 DEF StepResults
  <2> HIDE DEF o
  <2> QED BY <1>7, <2>1, <2>2
<1>18. ASSUME UNCHANGED vars PROVE UNCHANGED Promise!chVars
  BY <1>18 DEF vars, knowledge, Promise!chVars, AbstractStep, AbstractResult
<1>19. ASSUME PodsSend \/ PodsHangUp \/ Elapse PROVE Promise!ChForget
  BY <1>5, <1>19 DEF PodsSend, PodsHangUp, Elapse, knowledge
<1> QED
  BY <1>1, <1>2, <1>3, <1>4, <1>6, <1>8, <1>9, <1>10, <1>11, <1>14, <1>16,
     <1>17, <1>18, <1>19
     DEF Next, Open, Step, StepRuns, StepNothing, StepInterrupted,
         Promise!ChNext, Promise!ChStep

\* Session implements Channel, for every configuration: what the daemon and the
\* command line tool rely on is what the handshake machine does.
THEOREM SessionImplementsChannel == Spec => ImplementsChannel
<1>1. Init => Promise!ChInit
  <2>1. NoStep.called = FALSE /\ NoStep.packet = FALSE /\ NoStep.battery = FALSE
        /\ NoStep.closed = FALSE /\ NoStep.phaseChanged = FALSE
        /\ (NoStep.note # "none") = FALSE
    BY DEF NoStep
  <2>2. out = NoStep => AbstractStep = Promise!NoStep
    BY <2>1, Zenon DEF AbstractStep, Promise!NoStep, Promise!PlainStep
  <2> QED BY <2>2 DEF Init, Promise!ChInit, AbstractResult
<1>2. TypeOK /\ TypeOK' /\ WireInv /\ WireInv' /\ [Next]_vars
        => [Promise!ChNext]_(Promise!chVars)
  BY ChannelStep
<1>3. Spec => []WireInv
  BY WireInvariant
<1> QED BY <1>1, <1>2, <1>3, TypeCorrect, PTL DEF Spec, ImplementsChannel, Promise!ChSpec
=============================================================================
