----------------------------- MODULE CliProofs -----------------------------
(***************************************************************************)
(* Proofs about the probe: it drives the session only as Session allows, so*)
(* what is proved there holds of every run; its own account of a run agrees*)
(* with the session's; and its transcript tells what was sent, what allowed*)
(* each advance, and what the console adds up, for every configuration.    *)
(***************************************************************************)
EXTENDS Cli, SessionProofs

USE CliAssumption

cliAll == <<vars, cliVars>>

\* Every step of the probe is a step of Session, or leaves it alone.
LEMMA DrivesSession ==
    ASSUME [CliNext]_cliAll
    PROVE  [Next]_vars
<1>1. ASSUME Starts PROVE [Next]_vars
  BY <1>1 DEF Starts, Usage, ConnectFails, WriteFails, Connects, Next, Open
<1>2. ASSUME TurnRuns \/ TurnInterrupted PROVE [Next]_vars
  BY <1>2 DEF TurnRuns, TurnStays, TurnTimeoutWriteFails, TurnResendWriteFails,
              TurnCloses, TurnInterrupted, Next, Step, StepRuns
<1>3. ASSUME Summary \/ Signal \/ PodsSendInRun \/ PodsHangUpInRun \/ TimePasses
      PROVE  [Next]_vars
  BY <1>3 DEF Summary, Signal, PodsSendInRun, PodsHangUpInRun, TimePasses, Next
<1>4. ASSUME UNCHANGED cliAll PROVE [Next]_vars
  BY <1>4 DEF cliAll
<1> QED BY <1>1, <1>2, <1>3, <1>4 DEF CliNext

\* A run of the probe is a run of Session.
LEMMA CliRefinesSession == CliSpec => Spec
<1>1. CliInit => Init
  BY DEF CliInit
<1>2. [CliNext]_cliAll => [Next]_vars
  BY DrivesSession
<1> QED BY <1>1, <1>2, PTL DEF CliSpec, Spec, cliAll

(***************************************************************************)
(* The invariant.  Before the loop nothing has been counted; this is what  *)
(* makes the two flags agree on the connection that is then opened.        *)
(***************************************************************************)
CliInv ==
    /\ CliTypeOK
    /\ ProbeAgreesWithSession
    /\ pc = "args" => ~sock /\ count = 0 /\ ~runSeen /\ log = <<>>

\* What step() returns when it reads, does not read, and closes.
LEMMA ReturnedFields ==
    ASSUME TypeOK
    PROVE  /\ StepNothing \/ StepInterrupted =>
                /\ sock /\ UNCHANGED <<sock, batterySeen, knowledge>>
                /\ ~out'.packet /\ ~out'.closed
           /\ StepPacket \/ StepAck =>
                /\ sock /\ UNCHANGED sock /\ rx # <<>> /\ Absorb(Head(rx))
                /\ out'.packet /\ ~out'.closed
                /\ out'.battery <=> Head(rx).kind = "battery"
           /\ StepTimeoutWriteFails \/ StepResendWriteFails
                \/ StepHangup \/ StepAckWriteFails =>
                out'.closed /\ UNCHANGED knowledge
<1>1. StepNothing \/ StepInterrupted =>
                /\ sock /\ UNCHANGED <<sock, batterySeen, knowledge>>
                /\ ~out'.packet /\ ~out'.closed
  BY DEF StepNothing, StepInterrupted, TimersOnly, Returns, NoStep
<1>2. \A p : /\ PacketStep(p) \in StepResults
             /\ PacketStep(p).packet /\ ~PacketStep(p).closed
             /\ PacketStep(p).battery <=> p.kind = "battery"
  BY PacketStepType DEF PacketStep, NoStep
<1>3. StepPacket \/ StepAck =>
                /\ sock /\ UNCHANGED sock /\ rx # <<>> /\ Absorb(Head(rx))
                /\ out'.packet /\ ~out'.closed
                /\ out'.battery <=> Head(rx).kind = "battery"
  BY <1>2 DEF StepPacket, StepAck, Returns, StepResults
<1>4. StepTimeoutWriteFails \/ StepResendWriteFails \/ StepHangup =>
                out'.closed /\ UNCHANGED knowledge
  BY DEF StepTimeoutWriteFails, StepResendWriteFails, StepHangup, Returns, NoStep,
         knowledge
<1>5. StepAckWriteFails => out'.closed /\ UNCHANGED knowledge
  BY <1>2 DEF StepAckWriteFails, Returns, StepResults, knowledge
<1> QED BY <1>1, <1>3, <1>4, <1>5

\* A packet that is read updates both flags and both caches alike.
LEMMA CountsAgrees ==
    ASSUME CliInv, pc = "loop", rx # <<>>, Absorb(Head(rx)), Counts(Head(rx)),
           out'.battery <=> Head(rx).kind = "battery"
    PROVE  /\ count' \in Nat /\ runSeen' \in BOOLEAN /\ log' \in Seq(Readings)
           /\ runSeen' <=> batterySeen'
           /\ log' # <<>> => runSeen' /\ log'[Len(log')] = lastBattery'
           /\ Len(log') <= count'
<1> DEFINE p == Head(rx)
<1>1. /\ log \in Seq(Readings) /\ count \in Nat /\ runSeen \in BOOLEAN
      /\ batterySeen \in BOOLEAN /\ (runSeen <=> batterySeen)
      /\ log # <<>> => runSeen /\ log[Len(log)] = lastBattery
      /\ Len(log) <= count
  BY DEF CliInv, CliTypeOK, TypeOK, ProbeAgreesWithSession
<1>2. p.kind = "battery" => p.reading \in Readings
  <2>1. p \in Packets
    BY HeadTailProperties DEF CliInv, CliTypeOK, TypeOK
  <2> QED BY <2>1 DEF Packets
<1> HIDE DEF p
<1>3. count' = count + 1 /\ runSeen' = (runSeen \/ p.kind \in BatteryKinds)
      /\ log' = IF out'.battery THEN Append(log, lastBattery') ELSE log
  BY DEF Counts, p
<1>4. batterySeen' = (batterySeen \/ p.kind \in {"battery", "badBattery"})
      /\ lastBattery' = IF p.kind = "battery" THEN p.reading ELSE lastBattery
  BY DEF Absorb, p
<1>5. out'.battery <=> p.kind = "battery"
  BY DEF p
<1>6. runSeen' \in BOOLEAN /\ (runSeen' <=> batterySeen')
  <2>1. runSeen' \in BOOLEAN
    BY <1>3, Zenon
  <2>2. runSeen' <=> (runSeen \/ p.kind \in BatteryKinds)
    BY <1>3, Zenon
  <2>3. batterySeen' <=> (batterySeen \/ p.kind \in BatteryKinds)
    BY <1>4, Zenon DEF BatteryKinds
  <2> QED BY <1>1, <2>1, <2>2, <2>3
<1>7. CASE out'.battery
  <2>1. lastBattery' \in Readings /\ log' = Append(log, lastBattery')
    BY <1>2, <1>3, <1>4, <1>5, <1>7
  <2>2. log' \in Seq(Readings) /\ Len(log') = Len(log) + 1
        /\ log'[Len(log')] = lastBattery'
    BY <1>1, <2>1, AppendProperties
  <2>3. runSeen'
    BY <1>3, <1>5, <1>7 DEF BatteryKinds
  <2> QED BY <1>1, <1>3, <1>6, <2>2, <2>3
<1>8. CASE ~out'.battery
  <2>1. lastBattery' = lastBattery /\ log' = log
    BY <1>3, <1>4, <1>5, <1>8
  <2> QED BY <1>1, <1>3, <1>6, <2>1
<1> QED BY <1>7, <1>8

LEMMA NoReports == <<>> \in Seq(Readings) /\ Len(<<>>) = 0
OBVIOUS

LEMMA CliStep ==
    ASSUME CliInv, [CliNext]_cliAll
    PROVE  CliInv'
<1>0. TypeOK /\ TypeOK'
  BY DrivesSession, TypeStep DEF CliInv, CliTypeOK
<1>1. /\ log \in Seq(Readings) /\ count \in Nat /\ Len(log) <= count
      /\ duration \in Nat /\ elapsed \in 0..duration
      /\ {capture, stop, runSeen} \subseteq BOOLEAN /\ exit \in {-1, 0, 1, 2}
  BY DEF CliInv, CliTypeOK, ProbeAgreesWithSession
\* Nothing main() keeps changes, and the session's knowledge does not either.
<1>2. ASSUME UNCHANGED <<duration, elapsed, tally>>, UNCHANGED knowledge,
             {capture', stop'} \subseteq BOOLEAN, exit' \in {-1, 0, 1, 2},
             pc' \in {"summary", "done"}
      PROVE  CliInv'
  BY <1>0, <1>1, <1>2
     DEF CliInv, CliTypeOK, ProbeAgreesWithSession, tally, knowledge
<1>3. ASSUME Usage PROVE CliInv'
  <2>1. \E code \in {0, 2} : Ends(code)
    BY <1>3 DEF Usage
  <2> QED BY <1>1, <1>2, <1>3, <2>1 DEF Usage, Ends, options, vars, knowledge
<1>4. ASSUME ConnectFails \/ WriteFails PROVE CliInv'
  <2>1. Ends(1) /\ UNCHANGED knowledge
    BY <1>4 DEF ConnectFails, WriteFails, Aborts, OpenConnectFails, OpenWriteFails
  <2> QED BY <1>1, <1>2, <2>1 DEF Ends, options
<1>5. ASSUME Connects PROVE CliInv'
  <2>1. sock' /\ batterySeen' = FALSE /\ UNCHANGED knowledge
    BY <1>5 DEF Connects, OpenWaits, OpenUpFront, ResetBookkeeping
  <2>2. count' = 0 /\ runSeen' = FALSE /\ log' = <<>> /\ pc' = "loop"
        /\ UNCHANGED <<capture, duration, stop, elapsed, exit>>
    BY <1>1, <1>5 DEF Connects, CliInv, tally, options
  <2>3. CliTypeOK'
    BY <1>0, <1>1, <2>2, NoReports DEF CliTypeOK
  <2>4. ProbeAgreesWithSession'
    BY <2>1, <2>2, NoReports DEF ProbeAgreesWithSession
  <2> QED BY <2>2, <2>3, <2>4 DEF CliInv
<1>6. ASSUME TurnStays \/ TurnInterrupted PROVE CliInv'
  <2>1. PICK writes : Turned(writes)
    BY <1>6 DEF TurnStays, TurnInterrupted
  <2>2. pc = "loop"
    BY <1>6 DEF TurnStays, TurnInterrupted, Turns
  <2>3. sock /\ sock' /\ ~out'.closed
    BY <1>0, <1>6, ReturnedFields DEF TurnStays, TurnInterrupted
  <2>4. pc' = "loop" /\ UNCHANGED <<capture, duration, stop, elapsed, exit>>
    BY <2>1, <2>2, <2>3 DEF Turned, LeavesLoop, options
  <2>5. /\ count' \in Nat /\ runSeen' \in BOOLEAN /\ log' \in Seq(Readings)
        /\ runSeen' <=> batterySeen'
        /\ log' # <<>> => runSeen' /\ log'[Len(log')] = lastBattery'
        /\ Len(log') <= count'
    <3>1. CASE StepNothing \/ StepInterrupted
      <4>1. UNCHANGED <<batterySeen, knowledge, count, runSeen, log>>
        BY <1>0, <2>1, <3>1, ReturnedFields DEF Turned, tally
      <4> QED BY <1>1, <2>2, <4>1 DEF CliInv, ProbeAgreesWithSession, knowledge
    <3>2. CASE StepPacket \/ StepAck
      <4>1. rx # <<>> /\ Absorb(Head(rx)) /\ Counts(Head(rx))
            /\ (out'.battery <=> Head(rx).kind = "battery")
        BY <1>0, <2>1, <3>2, ReturnedFields DEF Turned
      <4> QED BY <2>2, <4>1, CountsAgrees
    <3> QED BY <1>6, <3>1, <3>2 DEF TurnStays, TurnInterrupted
  <2> QED BY <1>0, <1>1, <2>3, <2>4, <2>5
       DEF CliInv, CliTypeOK, ProbeAgreesWithSession
<1>7. ASSUME TurnTimeoutWriteFails \/ TurnResendWriteFails \/ TurnCloses
      PROVE  CliInv'
  <2>1. PICK writes : Turned(writes)
    BY <1>7 DEF TurnTimeoutWriteFails, TurnResendWriteFails, TurnCloses
  <2>2. out'.closed /\ UNCHANGED knowledge
    BY <1>0, <1>7, ReturnedFields
       DEF TurnTimeoutWriteFails, TurnResendWriteFails, TurnCloses
  <2>3. pc' = "summary" /\ UNCHANGED <<capture, duration, stop, elapsed, exit, tally>>
    BY <2>1, <2>2 DEF Turned, LeavesLoop, options
  <2> QED BY <1>1, <1>2, <2>2, <2>3
<1>8. ASSUME Summary PROVE CliInv'
  <2>1. Ends(Verdict) /\ UNCHANGED knowledge /\ Verdict \in {0, 1}
    BY <1>8 DEF Summary, Close, Verdict
  <2> QED BY <1>1, <1>2, <2>1 DEF Ends, options
\* Only the clock, the signal flag or the pods move.
<1>9. ASSUME UNCHANGED <<pc, sock, batterySeen, lastBattery, tally, capture, duration, exit>>,
             elapsed' \in 0..duration, stop' \in BOOLEAN
      PROVE  CliInv'
  BY <1>0, <1>1, <1>9 DEF CliInv, CliTypeOK, ProbeAgreesWithSession, tally
<1>10. ASSUME Signal PROVE CliInv'
  BY <1>1, <1>9, <1>10 DEF Signal, vars, bookkeeping, knowledge, options
<1>11. ASSUME PodsSendInRun \/ PodsHangUpInRun PROVE CliInv'
  BY <1>1, <1>9, <1>11 DEF PodsSendInRun, PodsHangUpInRun, PodsSend, PodsHangUp,
       bookkeeping, knowledge, cliVars, options
<1>12. ASSUME TimePasses PROVE CliInv'
  <2>0. elapsed + 1 \in Nat
    BY <1>1
  <2>1. Capped(elapsed + 1, duration) \in 0..duration
    BY <1>1, <2>0, CappedType
  <2> QED BY <1>1, <1>9, <1>12, <2>1
       DEF TimePasses, Elapse, knowledge, options
<1>13. ASSUME UNCHANGED cliAll PROVE CliInv'
  BY <1>1, <1>9, <1>13 DEF cliAll, vars, bookkeeping, knowledge, cliVars, options
<1> QED
  BY <1>3, <1>4, <1>5, <1>6, <1>7, <1>8, <1>10, <1>11, <1>12, <1>13
     DEF CliNext, Starts, TurnRuns

LEMMA CliInvariant == CliSpec => []CliInv
<1>1. Spec => []TypeOK
  BY TypeCorrect
<1>2. CliInit /\ TypeOK => CliInv
  <2> SUFFICES ASSUME CliInit, TypeOK PROVE CliInv
    OBVIOUS
  <2>1. elapsed \in 0..duration /\ duration \in Nat
    BY DEF CliInit
  <2>2. CliTypeOK
    BY <2>1, NoReports DEF CliInit, CliTypeOK
  <2>3. ProbeAgreesWithSession
    BY NoReports DEF CliInit, ProbeAgreesWithSession
  <2> QED BY <2>2, <2>3 DEF CliInit, Init, CliInv
<1>3. CliInv /\ [CliNext]_cliAll => CliInv'
  BY CliStep
<1> QED BY <1>1, <1>2, <1>3, CliRefinesSession, PTL DEF CliSpec, cliAll

\* The probe never takes a report out of an empty optional, for every
\* configuration, duration and behaviour of the pods.
THEOREM CliTypeCorrect == CliSpec => []CliTypeOK
<1>1. CliInv => CliTypeOK
  BY DEF CliInv
<1> QED BY <1>1, CliInvariant, PTL

\* The probe's account of a run never parts from the session's.
THEOREM ProbeAgrees == CliSpec => []ProbeAgreesWithSession
<1>1. CliInv => ProbeAgreesWithSession
  BY DEF CliInv
<1> QED BY <1>1, CliInvariant, PTL

\* What a run of the probe writes is the sequence its phase stands for.
THEOREM ProbeWire == CliSpec => []WireMatchesPhase
BY CliRefinesSession, WireCorrect, PTL
-----------------------------------------------------------------------------
(***************************************************************************)
(* The transcript.  Every piece the probe records is a run of lines of one *)
(* kind; what such a run adds to the account of a transcript is said once. *)
(***************************************************************************)
Dirs == {">", "<", "#", "parsed"}
NoteWords ==
    Notes \cup {"handshakeSkipped", "connectFailed", "header", "firstBattery",
                "endSeen", "endNone"}
Words == Written \cup Kinds \cup NoteWords \cup Readings
Entries == [dir : Dirs, what : Words]
RunOf(d, w) == [i \in DOMAIN w |-> Entry(d, w[i])]
UpTo(t, d, i) == {j \in Lines(t, d) : j <= i}

LEMMA LinesFinite ==
    ASSUME NEW t \in Seq(Entries), NEW d
    PROVE  /\ Lines(t, d) \subseteq 1..Len(t)
           /\ IsFiniteSet(Lines(t, d)) /\ Cardinality(Lines(t, d)) \in Nat
<1>1. Lines(t, d) \subseteq 1..Len(t)
  BY DEF Lines
<1>2. IsFiniteSet(1..Len(t))
  BY FS_Interval
<1> QED BY <1>1, <1>2, FS_Subset, FS_CardinalityType

LEMMA FunctionIsSequence ==
    ASSUME NEW m \in Nat, NEW S, NEW r \in [1..m -> S]
    PROVE  r \in Seq(S) /\ Len(r) = m
OBVIOUS

\* The positions of a run after a transcript, and what stands there.
LEMMA RunAppended ==
    ASSUME NEW t \in Seq(Entries), NEW d \in Dirs,
           NEW w \in Seq(Words)
    PROVE  LET u == t \o RunOf(d, w)
           IN  /\ u \in Seq(Entries) /\ Len(u) = Len(t) + Len(w)
               /\ DOMAIN u = 1..(Len(t) + Len(w))
               /\ \A i \in 1..Len(t) : u[i] = t[i]
               /\ \A k \in 1..Len(w) : u[Len(t) + k] = Entry(d, w[k])
<1> DEFINE r == RunOf(d, w)
           u == t \o r
           n == Len(t)
           m == Len(w)
<1>1. n \in Nat /\ m \in Nat /\ DOMAIN w = 1..m
  OBVIOUS
<1>2. \A k \in 1..m : Entry(d, w[k]) \in Entries
  BY DEF Entry, Entries
<1>3. r \in Seq(Entries) /\ Len(r) = m /\ \A k \in 1..m : r[k] = Entry(d, w[k])
  <2>1. r = [k \in 1..m |-> Entry(d, w[k])]
    BY <1>1 DEF RunOf
  <2> HIDE DEF r, m
  <2>2. r \in [1..m -> Entries] /\ \A k \in 1..m : r[k] = Entry(d, w[k])
    BY <1>2, <2>1
  <2>3. r \in Seq(Entries) /\ Len(r) = m
    BY <1>1, <2>2, FunctionIsSequence
  <2> QED BY <2>2, <2>3
<1> HIDE DEF r
<1>4. /\ u \in Seq(Entries) /\ Len(u) = Len(t) + Len(r)
      /\ \A i \in 1..(Len(t) + Len(r)) :
             u[i] = IF i <= Len(t) THEN t[i] ELSE r[i - Len(t)]
  BY <1>3, ConcatProperties
<1> HIDE DEF u
<1>5. /\ u \in Seq(Entries) /\ Len(u) = n + m
      /\ \A i \in 1..(n + m) : u[i] = IF i <= n THEN t[i] ELSE r[i - n]
  BY <1>3, <1>4, Zenon
<1>6. DOMAIN u = 1..(n + m)
  BY <1>5
<1> HIDE DEF n, m
<1>7. \A i \in 1..n : u[i] = t[i]
  BY <1>1, <1>5
<1>8. ASSUME NEW k \in 1..m PROVE u[n + k] = Entry(d, w[k])
  <2> DEFINE j == n + k
  <2>1. j \in 1..(n + m) /\ ~(j <= n) /\ j - n = k
    BY <1>1
  <2> HIDE DEF j
  <2>2. u[j] = r[k]
    BY <1>5, <2>1, Zenon
  <2>3. r[k] = Entry(d, w[k])
    BY <1>3
  <2> QED BY <2>2, <2>3 DEF j
<1> QED BY <1>5, <1>6, <1>7, <1>8 DEF u, r, n, m

\* The lines of the run's kind are those there were and the run's; of any other
\* kind there are no more than before.
LEMMA RunLines ==
    ASSUME NEW t \in Seq(Entries), NEW d \in Dirs,
           NEW w \in Seq(Words)
    PROVE  LET u == t \o RunOf(d, w)
           IN  /\ Lines(u, d) = Lines(t, d) \cup ((Len(t) + 1)..(Len(t) + Len(w)))
               /\ \A e : e # d => Lines(u, e) = Lines(t, e)
<1> DEFINE u == t \o RunOf(d, w)
           n == Len(t)
           m == Len(w)
<1>1. /\ u \in Seq(Entries) /\ Len(u) = n + m /\ DOMAIN u = 1..(n + m)
      /\ \A i \in 1..n : u[i] = t[i]
      /\ \A k \in 1..m : u[n + k] = Entry(d, w[k])
  BY RunAppended
<1>2. n \in Nat /\ m \in Nat /\ DOMAIN t = 1..n
  OBVIOUS
<1> HIDE DEF u, n, m
<1>3. \A i \in (n + 1)..(n + m) : u[i].dir = d
  <2> TAKE i \in (n + 1)..(n + m)
  <2> DEFINE k == i - n
  <2>1. k \in 1..m /\ n + k = i
    BY <1>2
  <2> HIDE DEF k
  <2>2. u[i] = Entry(d, w[k])
    BY <1>1, <2>1, Zenon
  <2> QED BY <2>2 DEF Entry
<1>4. \A i : i \in 1..(n + m) <=> i \in 1..n \/ i \in (n + 1)..(n + m)
  BY <1>2
<1>5. \A i : i \in Lines(u, d) <=> i \in Lines(t, d) \/ i \in (n + 1)..(n + m)
  BY <1>1, <1>2, <1>3, <1>4, Zenon DEF Lines
<1>6. \A e : e # d => \A i : i \in Lines(u, e) <=> i \in Lines(t, e)
  BY <1>1, <1>2, <1>3, <1>4, Zenon DEF Lines
<1>7. Lines(u, d) = Lines(t, d) \cup ((n + 1)..(n + m))
  BY <1>5, Zenon
<1>8. ASSUME NEW e, e # d PROVE Lines(u, e) = Lines(t, e)
  <2> DEFINE P == Lines(u, e)
             Q == Lines(t, e)
  <2>1. \A i : i \in P <=> i \in Q
    BY <1>6, <1>8
  <2> HIDE DEF P, Q
  <2>2. P = Q
    BY <2>1
  <2> QED BY <2>2 DEF P, Q
<1> QED BY <1>7, <1>8 DEF u, n, m

\* n of a kind and the k lines right after them.
LEMMA CountRun ==
    ASSUME NEW n \in Nat, NEW k \in Nat, NEW A, A \subseteq 1..n
    PROVE  /\ IsFiniteSet(A) /\ Cardinality(A) \in Nat
           /\ Cardinality(A \cup ((n + 1)..(n + k))) = Cardinality(A) + k
<1> DEFINE B == (n + 1)..(n + k)
<1>1. IsFiniteSet(A) /\ Cardinality(A) \in Nat
  <2>1. IsFiniteSet(1..n)
    BY FS_Interval
  <2> QED BY <2>1, FS_Subset, FS_CardinalityType
<1>2. IsFiniteSet(B) /\ Cardinality(B) = k
  BY FS_Interval
<1>3. A \cap B = {}
  OBVIOUS
<1> HIDE DEF B
<1>4. Cardinality(A \cup B) = Cardinality(A) + Cardinality(B) - Cardinality(A \cap B)
  BY <1>1, <1>2, FS_Union
<1>5. Cardinality(A \cap B) = 0
  BY <1>3, FS_EmptySet
<1> QED BY <1>1, <1>2, <1>4, <1>5 DEF B

\* The run's words follow those of its kind; the account of the other kinds is
\* what it was.
LEMMA RunTells ==
    ASSUME NEW t \in Seq(Entries), NEW d \in Dirs,
           NEW w \in Seq(Words),
           NEW X, NEW s \in Seq(X), NEW e
    PROVE  LET u == t \o RunOf(d, w)
           IN  /\ Tells(t, d, s) => Tells(u, d, s \o w)
               /\ e # d /\ Tells(t, e, s) => Tells(u, e, s)
               /\ Cardinality(Lines(u, d)) = Cardinality(Lines(t, d)) + Len(w)
<1> DEFINE u == t \o RunOf(d, w)
           n == Len(t)
           m == Len(w)
           A == Lines(t, d)
           a == Cardinality(A)
<1>1. /\ u \in Seq(Entries) /\ Len(u) = n + m /\ DOMAIN u = 1..(n + m)
      /\ \A i \in 1..n : u[i] = t[i]
      /\ \A k \in 1..m : u[n + k] = Entry(d, w[k])
  BY RunAppended
<1>2. /\ Lines(u, d) = A \cup ((n + 1)..(n + m))
      /\ \A f : f # d => Lines(u, f) = Lines(t, f)
  BY RunLines
<1>3. n \in Nat /\ m \in Nat /\ A \subseteq 1..n
  <2>1. Lines(t, d) \subseteq 1..Len(t)
    BY LinesFinite
  <2>2. Len(t) \in Nat /\ Len(w) \in Nat
    BY LenProperties
  <2> QED BY <2>1, <2>2, Zenon
<1> HIDE DEF u, n, m, A
<1>4. /\ Cardinality(Lines(u, d)) = a + m /\ a \in Nat
      /\ \A k \in Nat : Cardinality(A \cup ((n + 1)..(n + k))) = a + k
  <2>1. ASSUME NEW k \in Nat
        PROVE  /\ Cardinality(A) \in Nat
               /\ Cardinality(A \cup ((n + 1)..(n + k))) = Cardinality(A) + k
    BY <1>3, CountRun
  <2> QED BY <1>2, <1>3, <2>1
<1> HIDE DEF a
<1>5. ASSUME e # d, Tells(t, e, s) PROVE Tells(u, e, s)
  <2>1. Lines(u, e) = Lines(t, e) /\ Lines(t, e) \subseteq 1..n
    BY <1>2, <1>5, LinesFinite DEF n
  <2>2. \A i \in Lines(t, e) : u[i] = t[i]
    BY <1>1, <2>1
  <2> QED BY <1>5, <2>1, <2>2, Zenon DEF Tells
<1>6. ASSUME Tells(t, d, s) PROVE Tells(u, d, s \o w)
  <2> DEFINE v == s \o w
  <2>1. Len(s) = a /\ \A i \in A : t[i].what = s[Cardinality(UpTo(t, d, i))]
    BY <1>6 DEF Tells, UpTo, A, a
  <2>2. /\ Len(v) = a + m
        /\ \A j \in 1..a : v[j] = s[j]
        /\ \A k \in 1..m : v[a + k] = w[k]
    <3> DEFINE Y == X \cup Words
    <3>1. s \in Seq(Y) /\ w \in Seq(Y)
      OBVIOUS
    <3> HIDE DEF Y
    <3>2. /\ Len(v) = Len(s) + Len(w)
          /\ \A j \in 1..(Len(s) + Len(w)) :
                 v[j] = IF j <= Len(s) THEN s[j] ELSE w[j - Len(s)]
      BY <3>1, ConcatProperties
    <3>3. Len(v) = a + m /\ \A j \in 1..(a + m) : v[j] = IF j <= a THEN s[j] ELSE w[j - a]
      BY <2>1, <3>2, Zenon DEF m
    <3> HIDE DEF v
    <3>4. \A j \in 1..a : v[j] = s[j]
      BY <1>3, <1>4, <3>3
    <3>5. ASSUME NEW k \in 1..m PROVE v[a + k] = w[k]
      <4> DEFINE j == a + k
      <4>1. j \in 1..(a + m) /\ ~(j <= a) /\ j - a = k
        BY <1>3, <1>4
      <4> HIDE DEF j
      <4>2. v[j] = w[k]
        BY <3>3, <4>1, Zenon
      <4> QED BY <4>2 DEF j
    <3> QED BY <3>3, <3>4, <3>5
  <2> HIDE DEF v
  <2>3. ASSUME NEW i \in A
        PROVE  u[i].what = v[Cardinality(UpTo(u, d, i))]
    <3>1. i \in 1..n
      BY <1>3
    <3>2. UpTo(u, d, i) = UpTo(t, d, i)
      <4>1. \A j : j \in Lines(u, d) /\ j <= i <=> j \in A /\ j <= i
        BY <1>2, <1>3, <3>1
      <4> QED BY <4>1 DEF UpTo, A
    <3>3. UpTo(t, d, i) \subseteq A /\ i \in UpTo(t, d, i)
      <4>1. i <= i
        BY <3>1
      <4> QED BY <4>1 DEF UpTo, A
    <3>4. IsFiniteSet(A) /\ a = Cardinality(A)
      BY LinesFinite DEF A, a
    <3>5. Cardinality(UpTo(t, d, i)) \in 1..a
      <4>1. IsFiniteSet(UpTo(t, d, i)) /\ Cardinality(UpTo(t, d, i)) <= a
        BY <3>3, <3>4, FS_Subset
      <4>2. Cardinality(UpTo(t, d, i)) \in Nat /\ Cardinality(UpTo(t, d, i)) # 0
        BY <3>3, <4>1, FS_EmptySet, FS_CardinalityType
      <4>3. \A c : c \in Nat /\ c # 0 /\ c <= a => c \in 1..a
        BY <1>4
      <4> QED BY <4>1, <4>2, <4>3
    <3>6. v[Cardinality(UpTo(t, d, i))] = s[Cardinality(UpTo(t, d, i))]
      BY <2>2, <3>5
    <3>7. u[i] = t[i]
      BY <1>1, <3>1
    <3> QED BY <2>1, <3>2, <3>6, <3>7, Zenon
  <2>4. ASSUME NEW i \in (n + 1)..(n + m)
        PROVE  u[i].what = v[Cardinality(UpTo(u, d, i))]
    <3> DEFINE k == i - n
    <3>1. k \in 1..m /\ k \in Nat /\ i = n + k
      BY <1>3
    <3> HIDE DEF k
    <3>2. UpTo(u, d, i) = A \cup ((n + 1)..(n + k))
      <4> DEFINE P == UpTo(u, d, i)
                 I == (n + 1)..(n + k)
                 J == (n + 1)..(n + m)
      <4>1. /\ \A j \in A : j <= i
            /\ \A j \in J : j <= i <=> j \in I
            /\ \A j \in I : j \in J
        BY <1>3, <3>1
      <4>2. \A j : j \in P <=> (j \in A \/ j \in J) /\ j <= i
        BY <1>2, Zenon DEF UpTo
      <4> HIDE DEF P, I, J
      <4>3. \A j : j \in P <=> j \in A \/ j \in I
        BY <4>1, <4>2
      <4>4. P = A \cup I
        BY <4>3
      <4> QED BY <4>4 DEF P, I
    <3>3. Cardinality(UpTo(u, d, i)) = a + k
      BY <1>4, <3>1, <3>2
    <3>4. v[Cardinality(UpTo(u, d, i))] = w[k]
      BY <2>2, <3>1, <3>3, Zenon
    <3>5. u[i] = Entry(d, w[k])
      BY <1>1, <3>1, Zenon
    <3>6. u[i].what = w[k]
      BY <3>5 DEF Entry
    <3> QED BY <3>4, <3>6
  <2>5. \A i \in Lines(u, d) : u[i].what = v[Cardinality(UpTo(u, d, i))]
    BY <1>2, <2>3, <2>4, Zenon
  <2>6. Len(v) = Cardinality(Lines(u, d))
    BY <1>4, <2>2
  <2> QED BY <2>5, <2>6, Zenon DEF Tells, UpTo, v
<1> QED BY <1>4, <1>5, <1>6 DEF u, m, a, A

\* How often a line occurs, and what was received, after a run of another kind.
SameCounts(t, u, d) ==
    \A e, x : e # d => Occurrences(u, Entry(e, x)) = Occurrences(t, Entry(e, x))
SameReceived(t, u) == ReceivedIn(u) = ReceivedIn(t)

LEMMA RunElsewhere ==
    ASSUME NEW t \in Seq(Entries), NEW d \in Dirs,
           NEW w \in Seq(Words), NEW u, u = t \o RunOf(d, w)
    PROVE  SameCounts(t, u, d) /\ (d # "<" => SameReceived(t, u))
<1> DEFINE n == Len(t)
           m == Len(w)
<1>1. /\ DOMAIN u = 1..(n + m)
      /\ \A i \in 1..n : u[i] = t[i]
      /\ \A k \in 1..m : u[n + k] = Entry(d, w[k])
  BY RunAppended
<1>2. n \in Nat /\ m \in Nat /\ DOMAIN t = 1..n
  BY LenProperties
<1>3. \A e : e # d => Lines(u, e) = Lines(t, e)
  <2>1. \A e : e # d => Lines(t \o RunOf(d, w), e) = Lines(t, e)
    BY RunLines
  <2> QED BY <2>1, Zenon
<1> HIDE DEF n, m
<1>4. ASSUME NEW i \in 1..(n + m), i \notin 1..n PROVE u[i].dir = d
  <2> DEFINE k == i - n
  <2>1. k \in 1..m /\ n + k = i
    BY <1>2, <1>4
  <2> HIDE DEF k
  <2>2. u[i] = Entry(d, w[k])
    BY <1>1, <2>1, Zenon
  <2> QED BY <2>2 DEF Entry
<1>5. \A i \in 1..n : i \in 1..(n + m)
  BY <1>2
<1>6. ASSUME NEW e, NEW x, e # d
      PROVE  Occurrences(u, Entry(e, x)) = Occurrences(t, Entry(e, x))
  <2> DEFINE P == {i \in DOMAIN u : u[i] = Entry(e, x)}
             Q == {i \in DOMAIN t : t[i] = Entry(e, x)}
  <2>1. Entry(e, x).dir = e
    BY DEF Entry
  <2>2. \A i : i \in P <=> i \in Q
    BY <1>1, <1>2, <1>4, <1>5, <1>6, <2>1, Zenon
  <2>3. P = Q
    <3> HIDE DEF P, Q
    <3> QED BY <2>2
  <2> QED BY <2>3, Zenon DEF Occurrences
<1>7. ASSUME d # "<" PROVE ReceivedIn(u) = ReceivedIn(t)
  <2>1. Lines(u, "<") = Lines(t, "<") /\ Lines(t, "<") \subseteq 1..n
    BY <1>2, <1>3, <1>7 DEF Lines
  <2>2. \A i \in Lines(t, "<") : u[i].what = t[i].what
    BY <1>1, <2>1
  <2> QED BY <2>1, <2>2 DEF ReceivedIn
<1> QED BY <1>6, <1>7 DEF SameCounts, SameReceived

\* ... and after one line more of its own.
LEMMA WordAppended ==
    ASSUME NEW t \in Seq(Entries), NEW d \in Dirs,
           NEW y \in Words, NEW u, u = t \o <<Entry(d, y)>>
    PROVE  /\ u \in Seq(Entries) /\ Len(u) = Len(t) + 1
           /\ u = t \o RunOf(d, <<y>>) /\ <<y>> \in Seq(Words)
           /\ \A i \in 1..Len(t) : u[i] = t[i]
           /\ u[Len(t) + 1] = Entry(d, y)
<1> DEFINE e == Entry(d, y)
           r == RunOf(d, <<y>>)
<1>1. r = <<e>>
  <2>1. <<y>>[1] = y /\ DOMAIN <<y>> = 1..1
    OBVIOUS
  <2>2. r = [i \in 1..1 |-> Entry(d, <<y>>[i])]
    BY <2>1 DEF RunOf
  <2> HIDE DEF r, e
  <2>3. \A i \in 1..1 : i = 1
    OBVIOUS
  <2>4. r = [i \in 1..1 |-> e]
    BY <2>1, <2>2, <2>3 DEF e
  <2> QED BY <2>4
<1>2. e \in Entries
  BY DEF Entry, Entries
<1>3. u = t \o <<e>> /\ u = t \o r
  BY <1>1
<1>4. <<y>> \in Seq(Words)
  OBVIOUS
<1> HIDE DEF e, r
<1>5. /\ t \o <<e>> \in Seq(Entries) /\ Len(t \o <<e>>) = Len(t) + 1
      /\ \A i \in 1..Len(t) : (t \o <<e>>)[i] = t[i]
      /\ (t \o <<e>>)[Len(t) + 1] = e
  BY <1>2
<1> QED BY <1>3, <1>4, <1>5 DEF e, r

Counted(t, u, d, y, x) ==
    Occurrences(u, Entry(d, x)) = Occurrences(t, Entry(d, x)) + (IF x = y THEN 1 ELSE 0)

LEMMA WordCounted ==
    ASSUME NEW t \in Seq(Entries), NEW d \in Dirs,
           NEW y \in Words, NEW u, u = t \o <<Entry(d, y)>>, NEW x
    PROVE  Counted(t, u, d, y, x)
<1> DEFINE n == Len(t)
           e == Entry(d, x)
           P == {i \in DOMAIN u : u[i] = e}
           Q == {i \in DOMAIN t : t[i] = e}
<1>1. /\ DOMAIN u = 1..(n + 1) /\ u[n + 1] = Entry(d, y)
      /\ \A i \in 1..n : u[i] = t[i]
  BY WordAppended
<1>2. n \in Nat /\ DOMAIN t = 1..n
  BY LenProperties
<1>3. e = Entry(d, y) <=> x = y
  BY DEF Entry
<1> HIDE DEF n, e
<1>4. IsFiniteSet(Q) /\ Cardinality(Q) \in Nat /\ n + 1 \notin Q
  <2>1. IsFiniteSet(1..n) /\ Q \in SUBSET (1..n)
    BY <1>2, FS_Interval
  <2> QED BY <1>2, <2>1, FS_Subset, FS_CardinalityType
<1>5. \A i : i \in 1..(n + 1) <=> i \in 1..n \/ i = n + 1
  BY <1>2
<1>6. CASE x = y
  <2>1. \A i : i \in P <=> i \in Q \/ i = n + 1
    BY <1>1, <1>2, <1>3, <1>5, <1>6, Zenon
  <2>2. P = Q \cup {n + 1}
    <3> HIDE DEF P, Q
    <3> QED BY <2>1
  <2>3. Cardinality(P) = Cardinality(Q) + 1
    <3> HIDE DEF P, Q
    <3> QED BY <1>4, <2>2, FS_AddElement
  <2> QED BY <1>4, <1>6, <2>3 DEF Occurrences, Counted, e
<1>7. CASE x # y
  <2>1. \A i : i \in P <=> i \in Q
    BY <1>1, <1>2, <1>3, <1>5, <1>7, Zenon
  <2>2. P = Q
    <3> HIDE DEF P, Q
    <3> QED BY <2>1
  <2>3. Cardinality(P) = Cardinality(Q)
    BY <2>2, Zenon
  <2>4. Occurrences(u, e) = Cardinality(P) /\ Occurrences(t, e) = Cardinality(Q)
    BY Zenon DEF Occurrences
  <2> HIDE DEF P, Q
  <2> QED BY <1>4, <1>7, <2>3, <2>4 DEF Counted, e
<1> QED BY <1>6, <1>7

LEMMA PacketReceived ==
    ASSUME NEW t \in Seq(Entries), NEW d \in Dirs,
           NEW y \in Words, NEW u, u = t \o <<Entry(d, y)>>, d = "<"
    PROVE  ReceivedIn(u) = ReceivedIn(t) \cup {y}
<1> DEFINE n == Len(t)
           P == Lines(u, "<")
           Q == Lines(t, "<")
<1>1. /\ u \in Seq(Entries) /\ Len(u) = n + 1 /\ u[n + 1] = Entry(d, y)
      /\ \A i \in 1..n : u[i] = t[i]
  <2> HIDE DEF P, Q, n
  <2>1. u \in Seq(Entries)
    BY WordAppended
  <2>2. Len(u) = Len(t) + 1
    BY WordAppended
  <2>3. u[Len(t) + 1] = Entry(d, y)
    BY WordAppended
  <2>4. \A i \in 1..Len(t) : u[i] = t[i]
    BY WordAppended
  <2> QED BY <2>1, <2>2, <2>3, <2>4, Zenon DEF n
<1>2. n \in Nat /\ DOMAIN t = 1..n /\ DOMAIN u = 1..(n + 1)
  BY <1>1, LenProperties
<1>3. u[n + 1].dir = "<" /\ u[n + 1].what = y
  BY <1>1 DEF Entry
<1> HIDE DEF n
<1>4. \A i : i \in 1..(n + 1) <=> i \in 1..n \/ i = n + 1
  BY <1>2
<1>5. \A i : i \in P <=> i \in Q \/ i = n + 1
  BY <1>1, <1>2, <1>3, <1>4, Zenon DEF Lines
<1>6. \A i \in Q : u[i].what = t[i].what
  BY <1>1, <1>2 DEF Lines
<1>7. \A z : z \in ReceivedIn(u) <=> z \in ReceivedIn(t) \/ z = y
  <2> HIDE DEF P, Q
  <2>1. \A z : z \in ReceivedIn(u) <=> \E i \in P : z = u[i].what
    BY DEF ReceivedIn, P
  <2>2. \A z : z \in ReceivedIn(t) <=> \E i \in Q : z = t[i].what
    BY DEF ReceivedIn, Q
  <2>3. ASSUME NEW z, z \in ReceivedIn(u) PROVE z \in ReceivedIn(t) \/ z = y
    <3>1. PICK i \in P : z = u[i].what
      BY <2>1, <2>3
    <3>2. CASE i \in Q
      BY <1>6, <2>2, <3>1, <3>2, Zenon
    <3>3. CASE i = n + 1
      BY <1>3, <3>1, <3>3, Zenon
    <3> QED BY <1>5, <3>2, <3>3
  <2>4. ASSUME NEW z, z \in ReceivedIn(t) \/ z = y PROVE z \in ReceivedIn(u)
    <3>1. CASE z \in ReceivedIn(t)
      <4>1. PICK i \in Q : z = t[i].what
        BY <2>2, <3>1
      <4>2. i \in P /\ z = u[i].what
        BY <1>5, <1>6, <4>1
      <4> QED BY <2>1, <4>2, Zenon
    <3>2. CASE z = y
      BY <1>3, <1>5, <2>1, <3>2, Zenon
    <3> QED BY <2>4, <3>1, <3>2
  <2> QED BY <2>3, <2>4
<1> DEFINE R == ReceivedIn(u)
           S == ReceivedIn(t)
<1>8. \A z : z \in R <=> z \in S \/ z = y
  BY <1>7
<1> HIDE DEF R, S
<1>9. R = S \cup {y}
  BY <1>8
<1> QED BY <1>9 DEF R, S

(***************************************************************************)
(* What the probe records in one go: transcript u is t with the sends s,   *)
(* the reports l, the packets of the kinds k and the notes x after it.     *)
(***************************************************************************)
Grows(t, u, s, l, k, x) ==
    /\ u \in Seq(Entries)
    /\ \A v \in Seq(Written) : Tells(t, ">", v) => Tells(u, ">", v \o s)
    /\ \A v \in Seq(Readings) : Tells(t, "parsed", v) => Tells(u, "parsed", v \o l)
    /\ Cardinality(Lines(u, "<")) = Cardinality(Lines(t, "<")) + Cardinality(k)
    /\ \A y : Occurrences(u, Entry("<", y))
                = Occurrences(t, Entry("<", y)) + (IF y \in k THEN 1 ELSE 0)
    /\ \A y : Occurrences(u, Entry("#", y))
                = Occurrences(t, Entry("#", y)) + (IF y \in x THEN 1 ELSE 0)
    /\ ReceivedIn(u) = ReceivedIn(t) \cup k

LEMMA OccurrencesType ==
    ASSUME NEW t \in Seq(Entries), NEW e
    PROVE  Occurrences(t, e) \in Nat
<1>1. IsFiniteSet(1..Len(t)) /\ {i \in DOMAIN t : t[i] = e} \in SUBSET (1..Len(t))
  BY FS_Interval
<1> QED BY <1>1, FS_Subset, FS_CardinalityType DEF Occurrences

LEMMA SequenceEnd ==
    ASSUME NEW S, NEW v \in Seq(S)
    PROVE  v \o <<>> = v
BY ConcatEmptySeq

\* The packet hook.
LEMMA GrowsSends ==
    ASSUME NEW t \in Seq(Entries), NEW w \in Seq(Written), NEW u, u = t \o Hook(w)
    PROVE  Grows(t, u, w, <<>>, {}, {})
<1> DEFINE d == ">"
<1>1. d \in Dirs /\ d # "<" /\ d # "#" /\ d # "parsed"
  BY DEF Dirs
<1>2. w \in Seq(Words)
  <2>1. Written \subseteq Words
    BY Zenon DEF Words
  <2> QED BY <2>1
<1>3. u = t \o RunOf(d, w)
  BY DEF Hook, RunOf
<1> HIDE DEF d
<1>4. u \in Seq(Entries)
  <2>1. t \o RunOf(d, w) \in Seq(Entries)
    BY <1>1, <1>2, RunAppended
  <2> QED BY <1>3, <2>1
<1>5. ASSUME NEW v \in Seq(Written), Tells(t, d, v) PROVE Tells(u, d, v \o w)
  <2>1. Tells(t, d, v) => Tells(t \o RunOf(d, w), d, v \o w)
    BY <1>1, <1>2, RunTells
  <2> QED BY <1>3, <1>5, <2>1, Zenon
<1>6. ASSUME NEW v \in Seq(Readings), Tells(t, "parsed", v)
      PROVE  Tells(u, "parsed", v \o <<>>)
  <2>1. Tells(t, "parsed", v) => Tells(t \o RunOf(d, w), "parsed", v)
    BY <1>1, <1>2, RunTells
  <2>2. v \o <<>> = v
    BY SequenceEnd
  <2> QED BY <1>3, <1>6, <2>1, <2>2, Zenon
<1>7. Lines(u, "<") = Lines(t, "<")
  <2>1. Lines(t \o RunOf(d, w), "<") = Lines(t, "<")
    BY <1>1, <1>2, RunLines
  <2> QED BY <1>3, <2>1, Zenon
<1>8. Cardinality(Lines(u, "<")) = Cardinality(Lines(t, "<")) + Cardinality({})
  <2>1. Cardinality(Lines(t, "<")) \in Nat
    BY LinesFinite
  <2>2. Cardinality({}) = 0
    BY FS_EmptySet
  <2> QED BY <1>7, <2>1, <2>2
<1>9. /\ \A y : Occurrences(u, Entry("<", y)) = Occurrences(t, Entry("<", y))
      /\ \A y : Occurrences(u, Entry("#", y)) = Occurrences(t, Entry("#", y))
      /\ ReceivedIn(u) = ReceivedIn(t)
  <2>1. SameCounts(t, u, d) /\ SameReceived(t, u)
    BY <1>1, <1>2, <1>3, RunElsewhere
  <2> QED BY <1>1, <2>1, Zenon DEF SameCounts, SameReceived
<1>10. /\ \A y : Occurrences(u, Entry("<", y))
                   = Occurrences(t, Entry("<", y)) + (IF y \in {} THEN 1 ELSE 0)
       /\ \A y : Occurrences(u, Entry("#", y))
                   = Occurrences(t, Entry("#", y)) + (IF y \in {} THEN 1 ELSE 0)
  BY <1>9, OccurrencesType
<1>11. ReceivedIn(u) = ReceivedIn(t) \cup {}
  BY <1>9
<1> QED BY <1>4, <1>5, <1>6, <1>8, <1>10, <1>11, Zenon DEF Grows, d

\* Nothing is recorded.
LEMMA GrowsNothing ==
    ASSUME NEW t \in Seq(Entries)
    PROVE  Grows(t, t, <<>>, <<>>, {}, {})
<1>1. \A v \in Seq(Written) : v \o <<>> = v
  BY SequenceEnd
<1>2. \A v \in Seq(Readings) : v \o <<>> = v
  BY SequenceEnd
<1>3. Cardinality(Lines(t, "<")) = Cardinality(Lines(t, "<")) + Cardinality({})
  <2>1. Cardinality(Lines(t, "<")) \in Nat
    BY LinesFinite
  <2> QED BY <2>1, FS_EmptySet
<1>4. /\ \A y : Occurrences(t, Entry("<", y))
                   = Occurrences(t, Entry("<", y)) + (IF y \in {} THEN 1 ELSE 0)
      /\ \A y : Occurrences(t, Entry("#", y))
                   = Occurrences(t, Entry("#", y)) + (IF y \in {} THEN 1 ELSE 0)
  BY OccurrencesType
<1>5. ReceivedIn(t) = ReceivedIn(t) \cup {}
  OBVIOUS
<1> QED BY <1>1, <1>2, <1>3, <1>4, <1>5, Zenon DEF Grows

\* What one more line leaves alone.
SameOf(t, u, e) ==
    /\ \A X : \A v \in Seq(X) : Tells(t, e, v) => Tells(u, e, v)
    /\ Lines(u, e) = Lines(t, e)
    /\ \A z : Occurrences(u, Entry(e, z)) = Occurrences(t, Entry(e, z))

LEMMA WordElsewhere ==
    ASSUME NEW t \in Seq(Entries), NEW d \in Dirs, NEW y \in Words,
           NEW u, u = t \o <<Entry(d, y)>>, NEW e, e # d
    PROVE  SameOf(t, u, e)
<1> DEFINE w == <<y>>
<1>1. u = t \o RunOf(d, w)
  BY WordAppended
<1>2. w \in Seq(Words)
  BY WordAppended
<1> HIDE DEF w
<1>3. ASSUME NEW X, NEW v \in Seq(X), Tells(t, e, v) PROVE Tells(u, e, v)
  <2>1. e # d /\ Tells(t, e, v) => Tells(t \o RunOf(d, w), e, v)
    BY <1>2, RunTells
  <2> QED BY <1>1, <1>3, <2>1, Zenon
<1>4. Lines(u, e) = Lines(t, e)
  <2>1. Lines(t \o RunOf(d, w), e) = Lines(t, e)
    BY <1>2, RunLines
  <2> QED BY <1>1, <2>1, Zenon
<1>5. \A z : Occurrences(u, Entry(e, z)) = Occurrences(t, Entry(e, z))
  <2>1. SameCounts(t, u, d)
    BY <1>1, <1>2, RunElsewhere
  <2> QED BY <2>1, Zenon DEF SameCounts
<1> QED BY <1>3, <1>4, <1>5, Zenon DEF SameOf

LEMMA WordNotReceived ==
    ASSUME NEW t \in Seq(Entries), NEW d \in Dirs, NEW y \in Words,
           NEW u, u = t \o <<Entry(d, y)>>, d # "<"
    PROVE  SameReceived(t, u)
<1> DEFINE w == <<y>>
<1>1. u = t \o RunOf(d, w)
  BY WordAppended
<1>2. w \in Seq(Words)
  BY WordAppended
<1> HIDE DEF w
<1> QED BY <1>1, <1>2, RunElsewhere

\* ... and of its own kind adds.
Told(t, u, d, y) ==
    /\ \A X : \A v \in Seq(X) : Tells(t, d, v) => Tells(u, d, v \o <<y>>)
    /\ Cardinality(Lines(u, d)) = Cardinality(Lines(t, d)) + 1
    /\ \A x : Counted(t, u, d, y, x)
    /\ d = "<" => ReceivedIn(u) = ReceivedIn(t) \cup {y}

LEMMA WordTold ==
    ASSUME NEW t \in Seq(Entries), NEW d \in Dirs, NEW y \in Words,
           NEW u, u = t \o <<Entry(d, y)>>
    PROVE  Told(t, u, d, y)
<1> DEFINE w == <<y>>
<1>1. u = t \o RunOf(d, w)
  BY WordAppended
<1>2. w \in Seq(Words)
  BY WordAppended
<1>3. Len(w) = 1
  OBVIOUS
<1> HIDE DEF w
<1>4. ASSUME NEW X, NEW v \in Seq(X), Tells(t, d, v) PROVE Tells(u, d, v \o w)
  <2>1. Tells(t, d, v) => Tells(t \o RunOf(d, w), d, v \o w)
    BY <1>2, RunTells
  <2> QED BY <1>1, <1>4, <2>1, Zenon
<1>5. Cardinality(Lines(u, d)) = Cardinality(Lines(t, d)) + 1
  <2>1. \A X : \A v \in Seq(X) : 
         Cardinality(Lines(t \o RunOf(d, w), d)) = Cardinality(Lines(t, d)) + Len(w)
    BY <1>2, RunTells
  <2>2. Cardinality(Lines(t \o RunOf(d, w), d)) = Cardinality(Lines(t, d)) + Len(w)
    BY <1>2, <2>1
  <2> QED BY <1>1, <1>3, <2>2, Zenon
<1>6. \A x : Counted(t, u, d, y, x)
  BY WordCounted
<1>7. d = "<" => ReceivedIn(u) = ReceivedIn(t) \cup {y}
  BY PacketReceived
<1> QED BY <1>4, <1>5, <1>6, <1>7, Zenon DEF Told, w

\* One more note.
LEMMA GrowsNote ==
    ASSUME NEW t \in Seq(Entries), NEW u, NEW s \in Seq(Written),
           NEW l \in Seq(Readings), NEW k, NEW x, Grows(t, u, s, l, k, x),
           NEW y \in NoteWords, y \notin x, NEW v, v = u \o Note(y)
    PROVE  Grows(t, v, s, l, k, x \cup {y})
<1> DEFINE d == "#"
<1>1. d \in Dirs /\ d # ">" /\ d # "<" /\ d # "parsed"
  BY DEF Dirs
<1>2. y \in Words
  BY Zenon DEF Words
<1>3. u \in Seq(Entries)
  BY DEF Grows
<1>4. v = u \o <<Entry(d, y)>>
  BY DEF Note
<1> HIDE DEF d
<1>5. v \in Seq(Entries)
  BY <1>1, <1>2, <1>3, <1>4, WordAppended
<1>6. SameOf(u, v, ">") /\ ReceivedIn(v) = ReceivedIn(u)
  <2>1. SameOf(u, v, ">")
    BY <1>1, <1>2, <1>3, <1>4, WordElsewhere
  <2>2. SameReceived(u, v)
    BY <1>1, <1>2, <1>3, <1>4, WordNotReceived
  <2> QED BY <2>1, <2>2 DEF SameReceived
<1>7. SameOf(u, v, "parsed")
  BY <1>1, <1>2, <1>3, <1>4, WordElsewhere
<1>8. SameOf(u, v, "<")
  BY <1>1, <1>2, <1>3, <1>4, WordElsewhere
<1>9. \A z : Occurrences(v, Entry(d, z))
               = Occurrences(t, Entry(d, z)) + (IF z \in x \cup {y} THEN 1 ELSE 0)
  <2> TAKE z
  <2>1. Occurrences(v, Entry(d, z))
          = Occurrences(u, Entry(d, z)) + (IF z = y THEN 1 ELSE 0)
    <3>1. Told(u, v, d, y)
      BY <1>1, <1>2, <1>3, <1>4, WordTold
    <3> QED BY <3>1, Zenon DEF Told, Counted
  <2>2. Occurrences(u, Entry(d, z))
          = Occurrences(t, Entry(d, z)) + (IF z \in x THEN 1 ELSE 0)
    BY DEF Grows, d
  <2>3. Occurrences(t, Entry(d, z)) \in Nat
    BY OccurrencesType
  <2> QED BY <2>1, <2>2, <2>3
<1>10. ASSUME NEW r \in Seq(Written), Tells(t, ">", r) PROVE Tells(v, ">", r \o s)
  <2>1. Tells(u, ">", r \o s)
    BY <1>10 DEF Grows
  <2>2. r \o s \in Seq(Written)
    BY ConcatProperties
  <2> QED BY <1>6, <2>1, <2>2, Zenon DEF SameOf
<1>11. ASSUME NEW r \in Seq(Readings), Tells(t, "parsed", r)
       PROVE  Tells(v, "parsed", r \o l)
  <2>1. Tells(u, "parsed", r \o l)
    BY <1>11 DEF Grows
  <2>2. r \o l \in Seq(Readings)
    BY ConcatProperties
  <2> QED BY <1>7, <2>1, <2>2, Zenon DEF SameOf
<1>12. /\ Cardinality(Lines(v, "<")) = Cardinality(Lines(t, "<")) + Cardinality(k)
       /\ \A z : Occurrences(v, Entry("<", z))
                   = Occurrences(t, Entry("<", z)) + (IF z \in k THEN 1 ELSE 0)
       /\ ReceivedIn(v) = ReceivedIn(t) \cup k
  BY <1>6, <1>8, Zenon DEF Grows, SameOf
<1> QED BY <1>5, <1>9, <1>10, <1>11, <1>12, Zenon DEF Grows, d

\* The first packet.
LEMMA GrowsPacket ==
    ASSUME NEW t \in Seq(Entries), NEW u, NEW s \in Seq(Written),
           NEW l \in Seq(Readings), NEW x, Grows(t, u, s, l, {}, x),
           NEW y \in Kinds, NEW v, v = u \o <<Entry("<", y)>>
    PROVE  Grows(t, v, s, l, {y}, x)
<1> DEFINE d == "<"
<1>1. d \in Dirs /\ d # ">" /\ d # "#" /\ d # "parsed" /\ d = "<"
  BY DEF Dirs
<1>2. y \in Words
  BY Zenon DEF Words
<1>3. u \in Seq(Entries)
  BY DEF Grows
<1>4. v = u \o <<Entry(d, y)>>
  OBVIOUS
<1> HIDE DEF d
<1>5. v \in Seq(Entries)
  BY <1>1, <1>2, <1>3, <1>4, WordAppended
<1>6. SameOf(u, v, ">")
  BY <1>1, <1>2, <1>3, <1>4, WordElsewhere
<1>7. SameOf(u, v, "parsed")
  BY <1>1, <1>2, <1>3, <1>4, WordElsewhere
<1>8. SameOf(u, v, "#")
  BY <1>1, <1>2, <1>3, <1>4, WordElsewhere
<1>9. \A z : Occurrences(v, Entry("<", z))
               = Occurrences(t, Entry("<", z)) + (IF z \in {y} THEN 1 ELSE 0)
  <2> TAKE z
  <2>1. Occurrences(v, Entry(d, z))
          = Occurrences(u, Entry(d, z)) + (IF z = y THEN 1 ELSE 0)
    <3>1. Told(u, v, d, y)
      BY <1>1, <1>2, <1>3, <1>4, WordTold
    <3> QED BY <3>1, Zenon DEF Told, Counted
  <2>2. Occurrences(u, Entry("<", z))
          = Occurrences(t, Entry("<", z)) + (IF z \in {} THEN 1 ELSE 0)
    BY DEF Grows
  <2>3. Occurrences(t, Entry("<", z)) \in Nat
    BY OccurrencesType
  <2> QED BY <1>1, <2>1, <2>2, <2>3
<1>10. ReceivedIn(v) = ReceivedIn(t) \cup {y}
  <2>1. ReceivedIn(v) = ReceivedIn(u) \cup {y}
    <3>1. Told(u, v, d, y)
      BY <1>1, <1>2, <1>3, <1>4, WordTold
    <3> QED BY <1>1, <3>1, Zenon DEF Told
  <2>2. ReceivedIn(u) = ReceivedIn(t) \cup {}
    BY DEF Grows
  <2> QED BY <2>1, <2>2
<1>11. Cardinality(Lines(v, "<")) = Cardinality(Lines(t, "<")) + Cardinality({y})
  <2>1. Cardinality(Lines(v, d)) = Cardinality(Lines(u, d)) + 1
    <3>1. Told(u, v, d, y)
      BY <1>1, <1>2, <1>3, <1>4, WordTold
    <3> QED BY <3>1, Zenon DEF Told
  <2>2. Cardinality(Lines(u, "<")) = Cardinality(Lines(t, "<")) + Cardinality({})
    BY DEF Grows
  <2>3. Cardinality(Lines(t, "<")) \in Nat
    BY LinesFinite
  <2>4. Cardinality({}) = 0 /\ Cardinality({y}) = 1
    BY FS_EmptySet, FS_Singleton
  <2> QED BY <1>1, <2>1, <2>2, <2>3, <2>4
<1>12. ASSUME NEW r \in Seq(Written), Tells(t, ">", r) PROVE Tells(v, ">", r \o s)
  <2>1. Tells(u, ">", r \o s)
    BY <1>12 DEF Grows
  <2>2. r \o s \in Seq(Written)
    BY ConcatProperties
  <2> QED BY <1>6, <2>1, <2>2, Zenon DEF SameOf
<1>13. ASSUME NEW r \in Seq(Readings), Tells(t, "parsed", r)
       PROVE  Tells(v, "parsed", r \o l)
  <2>1. Tells(u, "parsed", r \o l)
    BY <1>13 DEF Grows
  <2>2. r \o l \in Seq(Readings)
    BY ConcatProperties
  <2> QED BY <1>7, <2>1, <2>2, Zenon DEF SameOf
<1>14. \A z : Occurrences(v, Entry("#", z))
                = Occurrences(t, Entry("#", z)) + (IF z \in x THEN 1 ELSE 0)
  BY <1>8, Zenon DEF Grows, SameOf
<1> QED BY <1>5, <1>9, <1>10, <1>11, <1>12, <1>13, <1>14, Zenon DEF Grows

\* The report of a packet that parsed.
LEMMA GrowsReport ==
    ASSUME NEW t \in Seq(Entries), NEW u, NEW s \in Seq(Written),
           NEW k, NEW x, Grows(t, u, s, <<>>, k, x),
           NEW y \in Readings, NEW v, v = u \o <<Entry("parsed", y)>>
    PROVE  Grows(t, v, s, <<y>>, k, x)
<1> DEFINE d == "parsed"
<1>1. d \in Dirs /\ d # ">" /\ d # "#" /\ d # "<" /\ d = "parsed"
  BY DEF Dirs
<1>2. y \in Words
  BY Zenon DEF Words
<1>3. u \in Seq(Entries)
  BY DEF Grows
<1>4. v = u \o <<Entry(d, y)>>
  OBVIOUS
<1> HIDE DEF d
<1>5. v \in Seq(Entries)
  BY <1>1, <1>2, <1>3, <1>4, WordAppended
<1>6. SameOf(u, v, ">") /\ ReceivedIn(v) = ReceivedIn(u)
  <2>1. SameOf(u, v, ">")
    BY <1>1, <1>2, <1>3, <1>4, WordElsewhere
  <2>2. SameReceived(u, v)
    BY <1>1, <1>2, <1>3, <1>4, WordNotReceived
  <2> QED BY <2>1, <2>2 DEF SameReceived
<1>7. SameOf(u, v, "#")
  BY <1>1, <1>2, <1>3, <1>4, WordElsewhere
<1>8. SameOf(u, v, "<")
  BY <1>1, <1>2, <1>3, <1>4, WordElsewhere
<1>9. \A X : \A r \in Seq(X) : Tells(u, d, r) => Tells(v, d, r \o <<y>>)
  <2>1. Told(u, v, d, y)
    BY <1>1, <1>2, <1>3, <1>4, WordTold
  <2> QED BY <2>1, Zenon DEF Told
<1>10. ASSUME NEW r \in Seq(Written), Tells(t, ">", r) PROVE Tells(v, ">", r \o s)
  <2>1. Tells(u, ">", r \o s)
    BY <1>10 DEF Grows
  <2>2. r \o s \in Seq(Written)
    BY ConcatProperties
  <2> QED BY <1>6, <2>1, <2>2, Zenon DEF SameOf
<1>11. ASSUME NEW r \in Seq(Readings), Tells(t, "parsed", r)
       PROVE  Tells(v, "parsed", r \o <<y>>)
  <2>1. Tells(u, "parsed", r \o <<>>)
    BY <1>11 DEF Grows
  <2>2. r \o <<>> = r
    BY SequenceEnd
  <2> QED BY <1>1, <1>9, <2>1, <2>2, Zenon
<1>12. /\ Cardinality(Lines(v, "<")) = Cardinality(Lines(t, "<")) + Cardinality(k)
       /\ \A z : Occurrences(v, Entry("<", z))
                   = Occurrences(t, Entry("<", z)) + (IF z \in k THEN 1 ELSE 0)
       /\ \A z : Occurrences(v, Entry("#", z))
                   = Occurrences(t, Entry("#", z)) + (IF z \in x THEN 1 ELSE 0)
       /\ ReceivedIn(v) = ReceivedIn(t) \cup k
  BY <1>6, <1>7, <1>8, Zenon DEF Grows, SameOf
<1> QED BY <1>5, <1>10, <1>11, <1>12, Zenon DEF Grows

\* The hook's lines after those of a step that has not sent anything yet.
LEMMA GrowsThenSends ==
    ASSUME NEW t \in Seq(Entries), NEW u, NEW l \in Seq(Readings), NEW k, NEW x,
           Grows(t, u, <<>>, l, k, x),
           NEW w \in Seq(Written), NEW v, v = u \o Hook(w)
    PROVE  Grows(t, v, w, l, k, x)
<1>1. u \in Seq(Entries)
  BY DEF Grows
<1>2. Grows(u, v, w, <<>>, {}, {})
  BY <1>1, GrowsSends
<1>3. v \in Seq(Entries)
  BY <1>2 DEF Grows
<1>4. ASSUME NEW r \in Seq(Written), Tells(t, ">", r) PROVE Tells(v, ">", r \o w)
  <2>1. Tells(u, ">", r \o <<>>)
    BY <1>4 DEF Grows
  <2>2. r \o <<>> = r
    BY SequenceEnd
  <2> QED BY <1>2, <2>1, <2>2, Zenon DEF Grows
<1>5. ASSUME NEW r \in Seq(Readings), Tells(t, "parsed", r)
      PROVE  Tells(v, "parsed", r \o l)
  <2> DEFINE q == r \o l
  <2>1. Tells(u, "parsed", q)
    BY <1>5 DEF Grows
  <2>2. q \in Seq(Readings)
    BY ConcatProperties
  <2> HIDE DEF q
  <2>3. q \o <<>> = q
    BY <2>2, SequenceEnd
  <2>4. Tells(v, "parsed", q \o <<>>)
    BY <1>2, <2>1, <2>2, Zenon DEF Grows
  <2>5. Tells(v, "parsed", q)
    BY <2>3, <2>4, Zenon
  <2> QED BY <2>5 DEF q
<1>6. Cardinality(Lines(v, "<")) = Cardinality(Lines(t, "<")) + Cardinality(k)
  <2>1. Cardinality(Lines(v, "<")) = Cardinality(Lines(u, "<")) + Cardinality({})
    BY <1>2 DEF Grows
  <2>2. Cardinality(Lines(u, "<")) = Cardinality(Lines(t, "<")) + Cardinality(k)
    BY DEF Grows
  <2>3. Cardinality(Lines(u, "<")) \in Nat
    BY <1>1, LinesFinite
  <2>4. Cardinality({}) = 0
    BY FS_EmptySet
  <2>5. Cardinality(Lines(v, "<")) = Cardinality(Lines(u, "<"))
    BY <2>1, <2>3, <2>4
  <2> QED BY <2>2, <2>5
<1>7. ASSUME NEW y
      PROVE  Occurrences(v, Entry("<", y))
               = Occurrences(t, Entry("<", y)) + (IF y \in k THEN 1 ELSE 0)
  <2>1. Occurrences(v, Entry("<", y))
          = Occurrences(u, Entry("<", y)) + (IF y \in {} THEN 1 ELSE 0)
    BY <1>2 DEF Grows
  <2>2. Occurrences(u, Entry("<", y)) \in Nat
    BY <1>1, OccurrencesType
  <2>3. Occurrences(v, Entry("<", y)) = Occurrences(u, Entry("<", y))
    BY <2>1, <2>2
  <2> QED BY <2>3 DEF Grows
<1>8. ASSUME NEW y
      PROVE  Occurrences(v, Entry("#", y))
               = Occurrences(t, Entry("#", y)) + (IF y \in x THEN 1 ELSE 0)
  <2>1. Occurrences(v, Entry("#", y))
          = Occurrences(u, Entry("#", y)) + (IF y \in {} THEN 1 ELSE 0)
    BY <1>2 DEF Grows
  <2>2. Occurrences(u, Entry("#", y)) \in Nat
    BY <1>1, OccurrencesType
  <2>3. Occurrences(v, Entry("#", y)) = Occurrences(u, Entry("#", y))
    BY <2>1, <2>2
  <2> QED BY <2>3 DEF Grows
<1>9. ReceivedIn(v) = ReceivedIn(t) \cup k
  <2>1. ReceivedIn(v) = ReceivedIn(u) \cup {}
    BY <1>2 DEF Grows
  <2>2. ReceivedIn(u) = ReceivedIn(t) \cup k
    BY DEF Grows
  <2> QED BY <2>1, <2>2
<1> QED BY <1>3, <1>4, <1>5, <1>6, <1>7, <1>8, <1>9, Zenon DEF Grows

\* A transcript without a line.
LEMMA EmptyTranscript ==
    /\ <<>> \in Seq(Entries)
    /\ \A d : Tells(<<>>, d, <<>>) /\ Cardinality(Lines(<<>>, d)) = 0
    /\ \A e : Occurrences(<<>>, e) = 0
    /\ ReceivedIn(<<>>) = {}
<1>1. <<>> \in Seq(Entries) /\ DOMAIN <<>> = {} /\ Len(<<>>) = 0
  OBVIOUS
<1>2. \A d : Lines(<<>>, d) = {}
  BY <1>1 DEF Lines
<1>3. Cardinality({}) = 0
  BY FS_EmptySet
<1>4. \A d : Cardinality(Lines(<<>>, d)) = 0
  BY <1>2, <1>3
<1>5. \A d : Tells(<<>>, d, <<>>)
  BY <1>1, <1>2, <1>4, Zenon DEF Tells
<1>6. \A e : {i \in DOMAIN <<>> : <<>>[i] = e} = {}
  BY <1>1
<1>7. \A e : Occurrences(<<>>, e) = 0
  BY <1>3, <1>6, Zenon DEF Occurrences
<1>8. ReceivedIn(<<>>) = {}
  BY <1>2 DEF ReceivedIn
<1> QED BY <1>1, <1>4, <1>5, <1>7, <1>8

LEMMA GroupEntries ==
    \A p, q, r \in Seq(Entries) : (p \o q) \o r = p \o (q \o r)
BY ConcatAssociative, SMT

Joined(p, q) == p \o q
PartsJoined(a, b, c, d, e, f) ==
    a \o ((b \o c) \o ((d \o e) \o f)) = ((((a \o b) \o c) \o d) \o e) \o f

LEMMA FiveParts ==
    ASSUME NEW a \in Seq(Entries), NEW b \in Seq(Entries), NEW c \in Seq(Entries),
           NEW d \in Seq(Entries), NEW e \in Seq(Entries), NEW f \in Seq(Entries)
    PROVE  PartsJoined(a, b, c, d, e, f)
<1> DEFINE S == Seq(Entries)
<1>1. /\ \A p, q \in S : Joined(p, q) \in S
      /\ \A p, q, r \in S : Joined(Joined(p, q), r) = Joined(p, Joined(q, r))
  BY GroupEntries, ConcatProperties DEF Joined
<1>2. a \in S /\ b \in S /\ c \in S /\ d \in S /\ e \in S /\ f \in S
  OBVIOUS
<1> HIDE DEF S
<1>3. Joined(a, Joined(Joined(b, c), Joined(Joined(d, e), f)))
        = Joined(Joined(Joined(Joined(Joined(a, b), c), d), e), f)
  <2> DEFINE m == Joined(b, c)
             n == Joined(d, e)
             g == Joined(a, m)
             h == Joined(n, f)
  <2>1. m \in S /\ n \in S /\ g \in S /\ h \in S
    BY <1>1, <1>2
  <2>2. g = Joined(Joined(a, b), c)
    BY <1>1, <1>2
  <2>3. \A p \in S : Joined(p, n) = Joined(Joined(p, d), e)
    BY <1>1, <1>2
  <2> HIDE DEF m, n
  <2>4. \A p \in S : Joined(p, h) = Joined(Joined(p, n), f)
    BY <1>1, <1>2, <2>1
  <2> HIDE DEF h
  <2>5. Joined(a, Joined(m, h)) = Joined(g, h)
    BY <1>1, <1>2, <2>1
  <2> HIDE DEF g
  <2>6. Joined(g, h) = Joined(Joined(Joined(g, d), e), f)
    BY <2>1, <2>3, <2>4, Zenon
  <2> QED BY <2>2, <2>5, <2>6, Zenon DEF m, n, h
<1> QED BY <1>3 DEF Joined, PartsJoined

(***************************************************************************)
(* A turn of the loop whose step() returned note n: the sends, the note,   *)
(* and the packet if there is one to look at.                              *)
(***************************************************************************)
NoteLines(n) == IF n = "none" THEN <<>> ELSE Note(n)

\* Notes x hold a timeout if the step told of one, and no header.
NotesOf(n, x) == (n = "timeout" <=> "timeout" \in x) /\ "header" \notin x

TurnRecorded(t, u, n, ws, l, k) ==
    \E x : Grows(t, u, ws, l, k, x) /\ NotesOf(n, x)

LEMMA LineType ==
    ASSUME NEW d \in Dirs, NEW y \in Words
    PROVE  <<Entry(d, y)>> \in Seq(Entries)
<1> DEFINE e == Entry(d, y)
<1>1. e \in Entries
  BY DEF Entry, Entries
<1> HIDE DEF e
<1>2. <<e>> \in Seq(Entries)
  BY <1>1
<1> QED BY <1>2 DEF e

LEMMA NoteType ==
    ASSUME NEW y \in NoteWords
    PROVE  Note(y) \in Seq(Entries)
<1>1. y \in Words
  BY Zenon DEF Words
<1>2. "#" \in Dirs
  BY DEF Dirs
<1> QED BY <1>1, <1>2, LineType, Zenon DEF Note

LEMMA HookType ==
    ASSUME NEW ws \in Seq(Written)
    PROVE  Hook(ws) \in Seq(Entries)
<1>1. DOMAIN ws = 1..Len(ws) /\ Len(ws) \in Nat /\ \A i \in 1..Len(ws) : ws[i] \in Written
  BY LenProperties, ElementOfSeq
<1>2. \A i \in 1..Len(ws) : Entry(">", ws[i]) \in Entries
  <2> TAKE i \in 1..Len(ws)
  <2>1. ws[i] \in Words
    BY <1>1, Zenon DEF Words
  <2> QED BY <2>1 DEF Entry, Entries, Dirs
<1>3. Hook(ws) = [i \in 1..Len(ws) |-> Entry(">", ws[i])]
  BY <1>1 DEF Hook
<1>4. Hook(ws) \in [1..Len(ws) -> Entries]
  BY <1>2, <1>3
<1> QED BY <1>1, <1>4, FunctionIsSequence

LEMMA NoteFacts ==
    ASSUME NEW n \in Notes
    PROVE  /\ n \in NoteWords /\ n # "header" /\ n # "firstBattery"
           /\ "firstBattery" \in NoteWords /\ "firstBattery" # "timeout"
           /\ "firstBattery" # "header"
BY DEF NoteWords, Notes

\* The packet hook's lines and the note of the step.
LEMMA StepRecorded ==
    ASSUME NEW t \in Seq(Entries), NEW ws \in Seq(Written), NEW n \in Notes,
           NEW u, u = (t \o Hook(ws)) \o NoteLines(n)
    PROVE  /\ NoteLines(n) \in Seq(Entries)
           /\ \E x : /\ Grows(t, u, ws, <<>>, {}, x)
                     /\ NotesOf(n, x) /\ "firstBattery" \notin x
<1> DEFINE s == t \o Hook(ws)
<1>1. Grows(t, s, ws, <<>>, {}, {})
  BY GrowsSends
<1>2. s \in Seq(Entries)
  BY <1>1 DEF Grows
<1>3. u = s \o NoteLines(n)
  OBVIOUS
<1> HIDE DEF s
<1>4. CASE n = "none"
  <2>1. NoteLines(n) = <<>>
    BY <1>4 DEF NoteLines
  <2>2. u = s
    BY <1>2, <1>3, <2>1, SequenceEnd
  <2>3. NoteLines(n) \in Seq(Entries)
    BY <2>1, EmptyTranscript
  <2>4. NotesOf(n, {}) /\ "firstBattery" \notin {}
    BY <1>4 DEF NotesOf
  <2>5. Grows(t, u, ws, <<>>, {}, {})
    BY <1>1, <2>2, Zenon
  <2> QED BY <2>3, <2>4, <2>5, Zenon
<1>5. CASE n # "none"
  <2> DEFINE x == {} \cup {n}
  <2>1. NoteLines(n) = Note(n)
    BY <1>5 DEF NoteLines
  <2>2. NoteLines(n) \in Seq(Entries)
    BY <2>1, NoteFacts, NoteType
  <2>3. <<>> \in Seq(Readings) /\ n \notin {}
    BY NoReports
  <2>4. u = s \o Note(n)
    BY <1>3, <2>1
  <2>5. n \in NoteWords
    BY NoteFacts
  <2>6. Grows(t, u, ws, <<>>, {}, x)
    BY <1>1, <2>3, <2>4, <2>5, GrowsNote
  <2>7. NotesOf(n, x) /\ "firstBattery" \notin x
    BY NoteFacts DEF NotesOf
  <2> HIDE DEF x
  <2> QED BY <2>2, <2>6, <2>7, Zenon
<1> QED BY <1>4, <1>5

\* A turn that reads nothing, or whose packet is not looked at.
LEMMA QuietTurn ==
    ASSUME NEW t \in Seq(Entries), NEW ws \in Seq(Written), NEW n \in Notes,
           NEW u, u = t \o (Hook(ws) \o NoteLines(n))
    PROVE  TurnRecorded(t, u, n, ws, <<>>, {})
<1> DEFINE v == (t \o Hook(ws)) \o NoteLines(n)
<1>1. NoteLines(n) \in Seq(Entries)
  BY StepRecorded
<1>2. Hook(ws) \in Seq(Entries)
  BY HookType
<1>3. u = v
  BY <1>1, <1>2, GroupEntries
<1>4. v = (t \o Hook(ws)) \o NoteLines(n)
  OBVIOUS
<1> HIDE DEF v
<1>5. \E x : Grows(t, v, ws, <<>>, {}, x) /\ NotesOf(n, x) /\ "firstBattery" \notin x
  BY <1>4, StepRecorded
<1> QED BY <1>3, <1>5, Zenon DEF TurnRecorded

\* A turn that reads a packet of kind y: a battery packet may be the first, and
\* may have been parsed into r.
LEMMA ReadingTurn ==
    ASSUME NEW t \in Seq(Entries), NEW ws \in Seq(Written), NEW n \in Notes,
           NEW y \in Kinds, NEW first \in BOOLEAN, NEW parsed \in BOOLEAN,
           NEW r, parsed => r \in Readings,
           NEW u, u = t \o ((Hook(ws) \o NoteLines(n))
                        \o ((<<Entry("<", y)>>
                               \o (IF first THEN Note("firstBattery") ELSE <<>>))
                               \o (IF parsed THEN <<Entry("parsed", r)>> ELSE <<>>)))
    PROVE  TurnRecorded(t, u, n, ws, IF parsed THEN <<r>> ELSE <<>>, {y})
<1> DEFINE H == Hook(ws)
           N == NoteLines(n)
           P == <<Entry("<", y)>>
           A == IF first THEN Note("firstBattery") ELSE <<>>
           B == IF parsed THEN <<Entry("parsed", r)>> ELSE <<>>
           u1 == (t \o H) \o N
           u2 == u1 \o P
           u3 == u2 \o A
           u4 == u3 \o B
<1>1. u = t \o ((H \o N) \o ((P \o A) \o B))
  OBVIOUS
<1>2. u1 = (t \o Hook(ws)) \o NoteLines(n)
  OBVIOUS
<1>3. H \in Seq(Entries)
  BY HookType
<1>4. <<>> \in Seq(Entries) /\ <<>> \in Seq(Readings)
  BY EmptyTranscript, NoReports
<1>5. P \in Seq(Entries)
  <2>1. "<" \in Dirs
    BY DEF Dirs
  <2>2. y \in Words
    BY Zenon DEF Words
  <2> QED BY <2>1, <2>2, LineType
<1>6. A \in Seq(Entries)
  <2>1. Note("firstBattery") \in Seq(Entries)
    BY NoteFacts, NoteType
  <2> QED BY <1>4, <2>1, Zenon
<1>7. B \in Seq(Entries)
  <2>1. CASE parsed
    <3>1. "parsed" \in Dirs
      BY DEF Dirs
    <3>2. r \in Words
      BY <2>1, Zenon DEF Words
    <3>3. <<Entry("parsed", r)>> \in Seq(Entries)
      BY <3>1, <3>2, LineType
    <3> QED BY <2>1, <3>3, Zenon
  <2>2. CASE ~parsed
    BY <1>4, <2>2, Zenon
  <2> QED BY <2>1, <2>2
<1>8. first => A = Note("firstBattery")
  BY Zenon
<1>9. ~first => A = <<>>
  BY Zenon
<1>10. parsed => B = <<Entry("parsed", r)>>
  BY Zenon
<1>11. ~parsed => B = <<>>
  BY Zenon
<1> HIDE DEF u1, A, B
<1>12. N \in Seq(Entries)
  BY <1>2, StepRecorded
<1>13. \E x : Grows(t, u1, ws, <<>>, {}, x) /\ NotesOf(n, x) /\ "firstBattery" \notin x
  BY <1>2, StepRecorded
<1>14. PICK x : Grows(t, u1, ws, <<>>, {}, x) /\ NotesOf(n, x) /\ "firstBattery" \notin x
  BY <1>13, Zenon
<1>15. Grows(t, u2, ws, <<>>, {y}, x)
  BY <1>4, <1>14, GrowsPacket
<1> HIDE DEF H, N, P
<1>16. u = u4
  <2>1. PartsJoined(t, H, N, P, A, B)
    BY <1>3, <1>5, <1>6, <1>7, <1>12, FiveParts
  <2> QED BY <1>1, <2>1, Zenon DEF u1, PartsJoined
<1>17. u2 \in Seq(Entries)
  BY <1>15 DEF Grows
<1> HIDE DEF u2
<1>18. \E z : Grows(t, u3, ws, <<>>, {y}, z) /\ NotesOf(n, z)
  <2>1. CASE first
    <3> DEFINE z == x \cup {"firstBattery"}
    <3>1. u3 = u2 \o Note("firstBattery")
      BY <1>8, <2>1
    <3>2. "firstBattery" \in NoteWords /\ "firstBattery" \notin x
      BY <1>14, NoteFacts
    <3> HIDE DEF u3
    <3>3. Grows(t, u3, ws, <<>>, {y}, z)
      BY <1>4, <1>15, <3>1, <3>2, GrowsNote
    <3>4. NotesOf(n, z)
      BY <1>14 DEF NotesOf
    <3> HIDE DEF z
    <3> QED BY <3>3, <3>4, Zenon
  <2>2. CASE ~first
    <3>1. u3 = u2
      BY <1>9, <1>17, <2>2, SequenceEnd
    <3> QED BY <1>14, <1>15, <3>1, Zenon
  <2> QED BY <2>1, <2>2
<1>19. PICK z : Grows(t, u3, ws, <<>>, {y}, z) /\ NotesOf(n, z)
  BY <1>18, Zenon
<1>20. u3 \in Seq(Entries)
  BY <1>19, Zenon DEF Grows
<1> HIDE DEF u3
<1>21. CASE parsed
  <2>1. u4 = u3 \o <<Entry("parsed", r)>> /\ r \in Readings
    BY <1>10, <1>21
  <2> HIDE DEF u4
  <2>2. Grows(t, u4, ws, <<r>>, {y}, z)
    BY <1>19, <2>1, GrowsReport
  <2>3. TurnRecorded(t, u, n, ws, <<r>>, {y})
    BY <1>16, <1>19, <2>2, Zenon DEF TurnRecorded
  <2> QED BY <1>21, <2>3, Zenon
<1>22. CASE ~parsed
  <2>1. u4 = u3
    BY <1>11, <1>20, <1>22, SequenceEnd
  <2> HIDE DEF u4
  <2>2. TurnRecorded(t, u, n, ws, <<>>, {y})
    BY <1>16, <1>19, <2>1, Zenon DEF TurnRecorded
  <2> QED BY <1>22, <2>2, Zenon
<1> QED BY <1>21, <1>22

(***************************************************************************)
(* The totals.  Transcript t is one of a run with c packets, the reports l,*)
(* b refusals, and battery seen or not.                                    *)
(***************************************************************************)
Account(t, l, c, b, s) ==
    /\ t \in Seq(Entries)
    /\ Tells(t, "parsed", l)
    /\ c = Cardinality(Lines(t, "<"))
    /\ b = Occurrences(t, Entry("<", "badBattery"))
    /\ Len(l) = Occurrences(t, Entry("<", "battery"))
    /\ s <=> ReceivedIn(t) \cap BatteryKinds # {}

\* Lines that tell of no packet leave the account alone ...
LEMMA AccountKept ==
    ASSUME NEW t \in Seq(Entries), NEW u, NEW ws, NEW x, Grows(t, u, ws, <<>>, {}, x),
           NEW l \in Seq(Readings), NEW c, NEW b, NEW s, Account(t, l, c, b, s)
    PROVE  Account(u, l, c, b, s)
<1>1. u \in Seq(Entries)
  BY Zenon DEF Grows
<1>2. Tells(u, "parsed", l)
  <2>1. Tells(u, "parsed", l \o <<>>)
    BY Zenon DEF Grows, Account
  <2>2. l \o <<>> = l
    BY SequenceEnd
  <2> QED BY <2>1, <2>2, Zenon
<1>3. Cardinality(Lines(u, "<")) = Cardinality(Lines(t, "<"))
  <2>1. Cardinality(Lines(u, "<")) = Cardinality(Lines(t, "<")) + Cardinality({})
    BY Zenon DEF Grows
  <2>2. Cardinality(Lines(t, "<")) \in Nat
    BY LinesFinite
  <2>3. Cardinality({}) = 0
    BY FS_EmptySet
  <2> QED BY <2>1, <2>2, <2>3
<1>4. ASSUME NEW y PROVE Occurrences(u, Entry("<", y)) = Occurrences(t, Entry("<", y))
  <2>1. Occurrences(u, Entry("<", y))
          = Occurrences(t, Entry("<", y)) + (IF y \in {} THEN 1 ELSE 0)
    BY Zenon DEF Grows
  <2>2. Occurrences(t, Entry("<", y)) \in Nat
    BY OccurrencesType
  <2> QED BY <2>1, <2>2
<1>5. ReceivedIn(u) = ReceivedIn(t)
  <2>1. ReceivedIn(u) = ReceivedIn(t) \cup {}
    BY Zenon DEF Grows
  <2> QED BY <2>1
<1> QED BY <1>1, <1>2, <1>3, <1>4, <1>5, Zenon DEF Account

\* ... and those of a packet of kind y, parsed into r if it is a good one,
\* bring it up to date.
AccountAfter(u, y, r, l, c, b, s) ==
    Account(u, IF y = "battery" THEN Append(l, r) ELSE l, c + 1,
            IF y = "badBattery" THEN b + 1 ELSE b, s \/ y \in BatteryKinds)

LEMMA AccountRead ==
    ASSUME NEW t \in Seq(Entries), NEW u, NEW ws, NEW x, NEW y \in Kinds,
           NEW r, y = "battery" => r \in Readings,
           Grows(t, u, ws, IF y = "battery" THEN <<r>> ELSE <<>>, {y}, x),
           NEW l \in Seq(Readings), NEW c, NEW b, NEW s \in BOOLEAN,
           Account(t, l, c, b, s)
    PROVE  AccountAfter(u, y, r, l, c, b, s)
<1> DEFINE ll == IF y = "battery" THEN Append(l, r) ELSE l
           e == IF y = "battery" THEN <<r>> ELSE <<>>
<1>1. u \in Seq(Entries)
  BY Zenon DEF Grows
<1>2. ll = l \o e /\ Len(ll) = Len(l) + (IF y = "battery" THEN 1 ELSE 0)
  <2>1. CASE y = "battery"
    <3>1. Append(l, r) = l \o <<r>> /\ Len(Append(l, r)) = Len(l) + 1
      BY <2>1, AppendIsConcat, AppendProperties
    <3> QED BY <2>1, <3>1
  <2>2. CASE y # "battery"
    <3>1. l \o <<>> = l /\ Len(l) \in Nat
      BY SequenceEnd, LenProperties
    <3> QED BY <2>2, <3>1
  <2> QED BY <2>1, <2>2
<1>3. Tells(u, "parsed", ll)
  <2>1. Tells(u, "parsed", l \o e)
    BY Zenon DEF Grows, Account
  <2> HIDE DEF ll, e
  <2> QED BY <1>2, <2>1, Zenon
<1>4. c + 1 = Cardinality(Lines(u, "<"))
  <2>1. Cardinality(Lines(u, "<")) = Cardinality(Lines(t, "<")) + Cardinality({y})
    BY Zenon DEF Grows
  <2>2. Cardinality({y}) = 1
    BY FS_Singleton
  <2> QED BY <2>1, <2>2, Zenon DEF Account
<1>5. ASSUME NEW z
      PROVE  /\ Occurrences(u, Entry("<", z))
                  = Occurrences(t, Entry("<", z)) + (IF z = y THEN 1 ELSE 0)
             /\ Occurrences(t, Entry("<", z)) \in Nat
  <2>1. Occurrences(u, Entry("<", z))
          = Occurrences(t, Entry("<", z)) + (IF z \in {y} THEN 1 ELSE 0)
    BY Zenon DEF Grows
  <2>2. Occurrences(t, Entry("<", z)) \in Nat
    BY OccurrencesType
  <2> QED BY <2>1, <2>2
<1>6. Len(ll) = Occurrences(u, Entry("<", "battery"))
  <2>1. Len(l) = Occurrences(t, Entry("<", "battery"))
    BY DEF Account
  <2> HIDE DEF ll
  <2> QED BY <1>2, <1>5, <2>1
<1>7. (IF y = "badBattery" THEN b + 1 ELSE b) = Occurrences(u, Entry("<", "badBattery"))
  <2>1. b = Occurrences(t, Entry("<", "badBattery"))
    BY DEF Account
  <2> QED BY <1>5, <2>1
<1>8. (s \/ y \in BatteryKinds) <=> ReceivedIn(u) \cap BatteryKinds # {}
  <2>1. ReceivedIn(u) = ReceivedIn(t) \cup {y}
    BY Zenon DEF Grows
  <2>2. s <=> ReceivedIn(t) \cap BatteryKinds # {}
    BY Zenon DEF Account
  <2>3. \A A, B : (A \cup {y}) \cap B # {} <=> A \cap B # {} \/ y \in B
    OBVIOUS
  <2> QED BY <2>1, <2>2, <2>3, Zenon
<1> HIDE DEF ll
<1>9. Account(u, ll, c + 1, IF y = "badBattery" THEN b + 1 ELSE b, s \/ y \in BatteryKinds)
  BY <1>1, <1>3, <1>4, <1>6, <1>7, <1>8, Zenon DEF Account
<1> QED BY <1>9, Zenon DEF ll, AccountAfter

\* What was heard is what was received.
LEMMA HeardLines ==
    ASSUME NEW t \in Seq(Entries)
    PROVE  ReceivedIn(t) = {} <=> Cardinality(Lines(t, "<")) = 0
<1>1. IsFiniteSet(Lines(t, "<"))
  BY LinesFinite
<1>2. Cardinality(Lines(t, "<")) = 0 <=> Lines(t, "<") = {}
  BY <1>1, FS_EmptySet
<1>3. ReceivedIn(t) = {} <=> Lines(t, "<") = {}
  BY DEF ReceivedIn
<1> QED BY <1>2, <1>3

LEMMA PartElement ==
    ASSUME NEW c, NEW lo \in Int, NEW hi \in Int, \A i \in lo..hi : c[i] \in Written
    PROVE  \A i \in 1..(hi - lo + 1) : SubSeq(c, lo, hi)[i] = c[lo + i - 1]
BY SMT

\* The part of a sequence that was appended to it.
LEMMA LaterPart ==
    ASSUME NEW a \in Seq(Written), NEW b \in Seq(Written), NEW c, c = a \o b
    PROVE  SubSeq(c, Len(a) + 1, Len(c)) = b
<1> DEFINE n == Len(a)
           m == Len(b)
           lo == n + 1
           hi == n + m
           s == SubSeq(c, lo, hi)
<1>1. n \in Nat /\ m \in Nat
  BY LenProperties
<1>2. /\ Len(c) = hi /\ c \in Seq(Written)
      /\ \A i \in 1..hi : c[i] = IF i <= n THEN a[i] ELSE b[i - n]
  BY ConcatProperties
<1>3. \A i \in 1..Len(c) : c[i] \in Written
  BY <1>2, ElementOfSeq
<1> HIDE DEF n, m
<1>4. /\ lo \in Int /\ hi \in Int /\ \A i \in lo..hi : i \in 1..hi
      /\ (IF lo <= hi THEN hi - lo + 1 ELSE 0) = m /\ hi - lo + 1 = m
      /\ \A i \in 1..m : lo + i - 1 = n + i
  BY <1>1
<1>5. \A i \in 1..m : n + i \in 1..hi /\ ~(n + i <= n) /\ (n + i) - n = i
  BY <1>1
<1> HIDE DEF lo, hi
<1>6. \A i \in lo..hi : c[i] \in Written
  BY <1>2, <1>3, <1>4, Zenon
<1>7. /\ s \in Seq(Written)
      /\ Len(s) = IF lo <= hi THEN hi - lo + 1 ELSE 0
      /\ \A i \in 1..(hi - lo + 1) : s[i] = c[lo + i - 1]
  <2>1. SubSeq(c, lo, hi) \in Seq(Written)
    BY <1>4, <1>6, SubSeqProperties
  <2>2. Len(SubSeq(c, lo, hi)) = IF lo <= hi THEN hi - lo + 1 ELSE 0
    BY <1>4, <1>6, SubSeqProperties
  <2>3. \A i \in 1..(hi - lo + 1) : SubSeq(c, lo, hi)[i] = c[lo + i - 1]
    BY <1>4, <1>6, PartElement
  <2> QED BY <2>1, <2>2, <2>3, Zenon
<1> HIDE DEF s
<1>8. Len(s) = m /\ \A i \in 1..m : s[i] = c[lo + i - 1]
  BY <1>4, <1>7, Zenon
<1>9. ASSUME NEW i \in 1..m PROVE s[i] = b[i]
  <2> DEFINE j == n + i
  <2>1. j \in 1..hi /\ ~(j <= n) /\ j - n = i /\ lo + i - 1 = j
    BY <1>4, <1>5
  <2> HIDE DEF j
  <2>2. c[j] = b[i]
    BY <1>2, <2>1, Zenon
  <2>3. s[i] = c[j]
    BY <1>8, <2>1, Zenon
  <2> QED BY <2>2, <2>3, Zenon
<1>10. s = b
  <2>1. Len(s) = Len(b) /\ \A i \in 1..Len(s) : s[i] = b[i]
    BY <1>8, <1>9, Zenon DEF m
  <2> QED BY <1>7, <2>1, SeqEqual
<1> QED BY <1>2, <1>10, Zenon DEF s, lo, n

(***************************************************************************)
(* Advances.  A phase that is left adds the ack it waited for to those the *)
(* handshake has gone past, and a step past it without the ack is noted.   *)
(***************************************************************************)
AckOf(p) == IF p = "WaitHandshakeAck" THEN "handshakeAck" ELSE "featuresAck"
Missing(p, h) == Cardinality(AcksBefore(p) \ h)

LEMMA AcksGrow ==
    ASSUME NEW p \in Waiting, p = "WaitFeaturesAck" => HasCaps
    PROVE  AcksBefore(Advance(p)) = AcksBefore(p) \cup {AckOf(p)}
<1>1. CASE p = "WaitHandshakeAck"
  <2>1. AcksBefore(p) = {} /\ AckOf(p) = "handshakeAck"
    BY <1>1 DEF AcksBefore, AckOf
  <2>2. AcksBefore(Advance(p)) = {"handshakeAck"}
    BY <1>1 DEF AcksBefore, Advance
  <2> QED BY <2>1, <2>2
<1>2. CASE p = "WaitFeaturesAck"
  <2>1. AcksBefore(p) = {"handshakeAck"} /\ AckOf(p) = "featuresAck"
    BY <1>2 DEF AcksBefore, AckOf
  <2>2. AcksBefore(Advance(p)) = {"handshakeAck", "featuresAck"}
    BY <1>2 DEF AcksBefore, Advance
  <2> QED BY <2>1, <2>2
<1> QED BY <1>1, <1>2 DEF Waiting

LEMMA AcksFinite ==
    ASSUME NEW p \in Phases \ {"Closed"}
    PROVE  IsFiniteSet(AcksBefore(p))
<1>1. IsFiniteSet({}) /\ IsFiniteSet({"handshakeAck"})
  BY FS_EmptySet, FS_Singleton
<1>2. IsFiniteSet({"handshakeAck"} \cup {"featuresAck"})
  BY <1>1, FS_AddElement
<1>3. {"handshakeAck"} \cup {"featuresAck"} = {"handshakeAck", "featuresAck"}
  OBVIOUS
<1> QED BY <1>1, <1>2, <1>3 DEF AcksBefore, Phases, Waiting

LEMMA MissingLess ==
    ASSUME NEW A, IsFiniteSet(A), NEW h, NEW g, h \subseteq g
    PROVE  /\ Cardinality(A \ h) \in Nat /\ Cardinality(A \ g) \in Nat
           /\ Cardinality(A \ g) <= Cardinality(A \ h)
<1>1. A \ h \in SUBSET A /\ A \ g \in SUBSET (A \ h)
  OBVIOUS
<1>2. IsFiniteSet(A \ h)
  BY <1>1, FS_Subset
<1>3. IsFiniteSet(A \ g) /\ Cardinality(A \ g) <= Cardinality(A \ h)
  BY <1>1, <1>2, FS_Subset
<1> QED BY <1>2, <1>3, FS_CardinalityType

LEMMA MissingMore ==
    ASSUME NEW A, IsFiniteSet(A), NEW a, NEW h
    PROVE  /\ Cardinality((A \cup {a}) \ h) \in Nat /\ Cardinality(A \ h) \in Nat
           /\ Cardinality((A \cup {a}) \ h) <= Cardinality(A \ h) + 1
           /\ a \in h => Cardinality((A \cup {a}) \ h) = Cardinality(A \ h)
<1> DEFINE B == A \ h
<1>1. IsFiniteSet(B) /\ Cardinality(B) \in Nat
  <2>1. B \in SUBSET A
    OBVIOUS
  <2> QED BY <2>1, FS_Subset, FS_CardinalityType
<1>2. CASE a \in h
  <2>1. (A \cup {a}) \ h = B
    BY <1>2
  <2> QED BY <1>1, <1>2, <2>1
<1>3. CASE a \notin h
  <2>1. (A \cup {a}) \ h = B \cup {a}
    BY <1>3
  <2>2. IsFiniteSet(B \cup {a})
        /\ Cardinality(B \cup {a}) = IF a \in B THEN Cardinality(B) ELSE Cardinality(B) + 1
    BY <1>1, FS_AddElement
  <2> HIDE DEF B
  <2>3. Cardinality(B \cup {a}) <= Cardinality(B) + 1 /\ Cardinality(B \cup {a}) \in Nat
    BY <1>1, <2>2
  <2> QED BY <1>1, <1>3, <2>1, <2>3 DEF B
<1> QED BY <1>2, <1>3

\* The timers miss at most the ack that timed out.
LEMMA TimersMiss ==
    ASSUME TypeOK, WireInv, sock
    PROVE  /\ Missing(phase, heard) \in Nat /\ Missing(PhaseAfterTimeout, heard) \in Nat
           /\ Missing(PhaseAfterTimeout, heard)
                <= Missing(phase, heard) + (IF TimedOut THEN 1 ELSE 0)
<1>1. phase \in Phases \ {"Closed"} /\ (phase = "WaitFeaturesAck" => HasCaps)
  BY DEF TypeOK, WireInv, WireMatchesPhase
<1>2. IsFiniteSet(AcksBefore(phase))
  BY <1>1, AcksFinite
<1>3. CASE TimedOut
  <2>1. phase \in Waiting /\ PhaseAfterTimeout = Advance(phase)
    BY <1>3 DEF TimedOut, PhaseAfterTimeout
  <2>2. AcksBefore(PhaseAfterTimeout) = AcksBefore(phase) \cup {AckOf(phase)}
    BY <1>1, <2>1, AcksGrow
  <2> DEFINE A == AcksBefore(phase)
             a == AckOf(phase)
  <2> HIDE DEF A, a
  <2>3. /\ Cardinality((A \cup {a}) \ heard) \in Nat /\ Cardinality(A \ heard) \in Nat
        /\ Cardinality((A \cup {a}) \ heard) <= Cardinality(A \ heard) + 1
    BY <1>2, MissingMore DEF A
  <2> QED BY <1>3, <2>2, <2>3 DEF A, a, Missing
<1>4. CASE ~TimedOut
  <2>1. PhaseAfterTimeout = phase
    BY <1>4 DEF PhaseAfterTimeout
  <2>2. Missing(phase, heard) \in Nat
    BY <1>2, MissingLess DEF Missing
  <2> QED BY <1>4, <2>1, <2>2
<1> QED BY <1>3, <1>4

\* An ack that was read is not missing.
LEMMA AckMisses ==
    ASSUME TypeOK, WireInv, sock, Acks(Head(rx)), NEW h, h = heard \cup {Head(rx).kind}
    PROVE  /\ Missing(Advance(PhaseAfterTimeout), h) \in Nat
           /\ Missing(Advance(PhaseAfterTimeout), h) <= Missing(PhaseAfterTimeout, heard)
<1> DEFINE P == PhaseAfterTimeout
           A == AcksBefore(P)
           a == AckOf(P)
<1>1. /\ P \in Waiting /\ P \in Phases \ {"Closed"} /\ (P = "WaitFeaturesAck" => HasCaps)
      /\ a \in h
  BY TimersSend DEF Acks, AckOf, Waiting
<1>2. AcksBefore(Advance(P)) = A \cup {a}
  BY <1>1, AcksGrow
<1>3. IsFiniteSet(A)
  BY <1>1, AcksFinite
<1> HIDE DEF A, a
<1>4. /\ Cardinality((A \cup {a}) \ h) \in Nat
      /\ Cardinality((A \cup {a}) \ h) = Cardinality(A \ h)
  BY <1>1, <1>3, MissingMore
<1>5. Cardinality(A \ h) <= Cardinality(A \ heard)
  BY <1>3, MissingLess
<1> QED BY <1>2, <1>4, <1>5 DEF A, Missing

(***************************************************************************)
(* What the transcript tells at every point of a run.                      *)
(***************************************************************************)
TotalsInv == capture => Account(transcript, log, count, refusals, runSeen)

LoopInv ==
    pc = "loop" /\ capture =>
        /\ Tells(transcript, ">", wire)
        /\ ReceivedIn(transcript) = heard
        /\ ~UpFront => Missing(phase, heard) <= Times("#", "timeout")

EndInv ==
    /\ pc = "args" => transcript = <<>> /\ refusals = 0
    /\ pc = "done" /\ capture =>
          \/ Times("#", "header") = 0
          \/ /\ exit = Verdict
             /\ transcript[Len(transcript)].what = IF runSeen THEN "endSeen" ELSE "endNone"

TranscriptInv == TotalsInv /\ LoopInv /\ EndInv

\* A turn that leaves the channel open keeps the loop's part.
LEMMA LoopGrows ==
    ASSUME transcript \in Seq(Entries), wire \in Seq(Written), capture, pc = "loop",
           LoopInv, cfg' = cfg, NEW n, NEW ws \in Seq(Written), NEW l, NEW k,
           TurnRecorded(transcript, transcript', n, ws, l, k),
           wire' = wire \o ws, heard' = heard \cup k,
           ~UpFront => /\ Missing(phase, heard) \in Nat /\ Missing(phase', heard') \in Nat
                       /\ Missing(phase', heard') <= Missing(phase, heard)
                                                     + (IF n = "timeout" THEN 1 ELSE 0)
    PROVE  LoopInv'
<1> DEFINE t == transcript
<1>1. PICK x : Grows(t, t', ws, l, k, x) /\ NotesOf(n, x)
  BY Zenon DEF TurnRecorded
<1>2. /\ Tells(t, ">", wire) /\ ReceivedIn(t) = heard
      /\ ~UpFront => Missing(phase, heard) <= Times("#", "timeout")
  BY DEF LoopInv
<1>3. Tells(t', ">", wire')
  <2>1. Tells(t', ">", wire \o ws)
    BY <1>1, <1>2, Zenon DEF Grows
  <2> QED BY <2>1, Zenon
<1>4. ReceivedIn(t') = heard'
  <2>1. ReceivedIn(t') = ReceivedIn(t) \cup k
    BY <1>1, Zenon DEF Grows
  <2> QED BY <1>2, <2>1, Zenon
<1>5. (UpFront' <=> UpFront) /\ Missing(phase, heard)' = Missing(phase', heard')
  BY DEF UpFront, Missing, AcksBefore, HasCaps
<1>6. ASSUME ~UpFront PROVE Missing(phase', heard') <= Times("#", "timeout")'
  <2> DEFINE a == Occurrences(t, Entry("#", "timeout"))
             b == Occurrences(t', Entry("#", "timeout"))
             m == Missing(phase, heard)
             mm == Missing(phase', heard')
  <2>1. b = a + (IF "timeout" \in x THEN 1 ELSE 0)
    BY <1>1, Zenon DEF Grows
  <2>2. "timeout" \in x <=> n = "timeout"
    BY <1>1 DEF NotesOf
  <2>3. a \in Nat
    BY OccurrencesType
  <2>4. Times("#", "timeout") = a /\ Times("#", "timeout")' = b
    BY DEF Times
  <2>5. m <= a
    BY <1>2, <1>6, <2>4
  <2>6. m \in Nat /\ mm \in Nat /\ mm <= m + (IF n = "timeout" THEN 1 ELSE 0)
    BY <1>6
  <2> HIDE DEF a, b, m, mm
  <2>7. mm <= b
    BY <2>1, <2>2, <2>3, <2>5, <2>6
  <2> QED BY <2>4, <2>7 DEF mm
<1> QED BY <1>3, <1>4, <1>5, <1>6 DEF LoopInv

LEMMA TurnStaysTold ==
    ASSUME CliInv, TypeOK', WireInv, TranscriptInv, TurnStays \/ TurnInterrupted
    PROVE  TranscriptInv'
<1>1. TypeOK /\ CliTypeOK /\ pc = "loop" /\ sock
  BY DEF CliInv, CliTypeOK, ProbeAgreesWithSession, TurnStays, TurnInterrupted, Turns
<1>2. Turned(NewWrites)
  BY DEF TurnStays, TurnInterrupted
<1>3. StepNothing \/ StepInterrupted \/ StepPacket \/ StepAck
  BY DEF TurnStays, TurnInterrupted
<1>4. ~out'.closed /\ cfg' = cfg
  BY <1>1, <1>3, ReturnedFields
     DEF StepNothing, StepInterrupted, TimersOnly, StepPacket, StepAck, Returns
<1>5. pc' = "loop" /\ capture' = capture
  BY <1>1, <1>2, <1>4 DEF Turned, LeavesLoop, options
<1>6. EndInv'
  BY <1>5 DEF EndInv
<1> SUFFICES ASSUME capture PROVE TotalsInv' /\ LoopInv'
  BY <1>5, <1>6 DEF TranscriptInv, TotalsInv, LoopInv
<1> DEFINE t == transcript
           n == out'.note
           p == Head(rx)
<1>7. /\ Account(t, log, count, refusals, runSeen) /\ t \in Seq(Entries) /\ LoopInv
      /\ log \in Seq(Readings) /\ runSeen \in BOOLEAN /\ wire \in Seq(Written)
      /\ n \in Notes
  BY <1>1 DEF TranscriptInv, TotalsInv, Account, CliTypeOK, TypeOK, Written, StepResults
<1>8. StepNote = NoteLines(n)
  BY DEF StepNote, NoteLines
\* What was sent.
<1>9. PICK ws \in Seq(Written) :
        /\ wire' = wire \o ws
        /\ ~StepAck => ws = TimerWrites
        /\ StepAck => ws = TimerWrites \o <<AdvanceWrite(PhaseAfterTimeout)>>
  <2> DEFINE e == <<AdvanceWrite(PhaseAfterTimeout)>>
  <2>1. TimerWrites \in Seq(Written) /\ AdvanceWrite(PhaseAfterTimeout) \in Written
    BY WritesType
  <2>2. e \in Seq(Written)
    BY <2>1
  <2>3. TimerWrites \o e \in Seq(Written)
    BY <2>1, <2>2, ConcatProperties
  <2>4. CASE StepAck
    <3>1. wire' = (wire \o TimerWrites) \o e
      BY <2>4 DEF StepAck
    <3> HIDE DEF e
    <3>2. wire' = wire \o (TimerWrites \o e)
      BY <1>7, <2>1, <2>2, <3>1, Regroup, Zenon
    <3> QED BY <2>3, <2>4, <3>2, Zenon DEF e
  <2>5. CASE ~StepAck
    <3>1. wire' = wire \o TimerWrites
      BY <1>3, <2>5 DEF StepNothing, StepInterrupted, StepPacket, TimersOnly, TimersRun
    <3> QED BY <2>1, <2>5, <3>1, Zenon
  <2> QED BY <2>4, <2>5
<1>10. NewWrites = ws
  BY <1>7, <1>9, LaterPart DEF NewWrites
\* What the timers noted.
<1>11. n = "timeout" <=> TimedOut
  <2>1. CASE StepNothing \/ StepInterrupted
    <3>1. n = TimerNote
      BY <2>1 DEF StepNothing, StepInterrupted, TimersOnly, Returns, NoStep
    <3> QED BY <3>1 DEF TimerNote
  <2>2. CASE StepPacket \/ StepAck
    <3>1. PacketStep(p) \in StepResults
      BY <1>1, PacketStepType
    <3>2. PacketStep(p).note = PacketNote(p)
      <4> HIDE DEF p
      <4> QED BY DEF PacketStep, NoStep
    <3>3. n = PacketStep(p).note
      BY <2>2, <3>1 DEF StepPacket, StepAck, Returns, StepResults
    <3>4. n = PacketNote(p)
      BY <3>2, <3>3, Zenon
    <3> QED BY <3>4 DEF PacketNote, TimerNote
  <2> QED BY <1>3, <2>1, <2>2
<1>12. /\ Missing(phase, heard) \in Nat /\ Missing(PhaseAfterTimeout, heard) \in Nat
       /\ Missing(PhaseAfterTimeout, heard)
            <= Missing(phase, heard) + (IF n = "timeout" THEN 1 ELSE 0)
  BY <1>1, <1>11, TimersMiss
<1> HIDE DEF t, n
<1>13. CASE StepNothing \/ StepInterrupted
  <2>1. /\ ~out'.packet /\ UNCHANGED <<refusals, heard>> /\ phase' = PhaseAfterTimeout
    BY <1>1, <1>13, ReturnedFields
       DEF knowledge, StepNothing, StepInterrupted, TimersOnly, TimersRun
  <2>2. Record(Hook(ws) \o NoteLines(n)) /\ UNCHANGED <<count, runSeen, log>>
    BY <1>2, <1>8, <1>10, <2>1 DEF Turned, tally
  <2>3. t' = t \o (Hook(ws) \o NoteLines(n))
    BY <2>2 DEF Record, t
  <2>4. TurnRecorded(t, t', n, ws, <<>>, {})
    BY <1>7, <2>3, QuietTurn
  <2>5. PICK x : Grows(t, t', ws, <<>>, {}, x)
    BY <2>4, Zenon DEF TurnRecorded
  <2>6. Account(t', log, count, refusals, runSeen)
    BY <1>7, <2>5, AccountKept
  <2>7. TotalsInv'
    BY <2>1, <2>2, <2>6, Zenon DEF TotalsInv, t
  <2>8. heard' = heard \cup {}
    BY <2>1
  <2>9. LoopInv'
    BY <1>1, <1>4, <1>7, <1>9, <1>12, <2>1, <2>4, <2>8, LoopGrows DEF t
  <2> QED BY <2>7, <2>9
<1>14. CASE StepPacket \/ StepAck
  <2>1. /\ out'.packet /\ rx # <<>> /\ Absorb(p) /\ (out'.battery <=> p.kind = "battery")
    BY <1>1, <1>14, ReturnedFields
  <2>2. /\ Record((Hook(ws) \o NoteLines(n)) \o PacketEntries(p)) /\ Counts(p)
    BY <1>2, <1>4, <1>8, <1>10, <2>1 DEF Turned
  <2>3. p.kind \in Kinds /\ (p.kind = "battery" => p.reading \in Readings)
    <3>1. p \in Packets
      BY <1>1, <2>1, HeadTailProperties DEF TypeOK
    <3> QED BY <3>1 DEF Packets, Kinds
  <2> HIDE DEF p
  <2> DEFINE first == p.kind \in BatteryKinds /\ ~runSeen
             parsed == p.kind = "battery"
             r == lastBattery'
             l == IF parsed THEN <<r>> ELSE <<>>
  <2>4. parsed => r \in Readings
    BY <2>1, <2>3 DEF Absorb
  <2>5. t' = t \o ((Hook(ws) \o NoteLines(n))
                     \o ((<<Entry("<", p.kind)>>
                            \o (IF first THEN Note("firstBattery") ELSE <<>>))
                            \o (IF parsed THEN <<Entry("parsed", r)>> ELSE <<>>)))
    <3>1. t' = t \o ((Hook(ws) \o NoteLines(n)) \o PacketEntries(p))
      BY <2>2 DEF Record, t
    <3>2. PacketEntries(p)
            = (<<Entry("<", p.kind)>>
                 \o (IF first THEN Note("firstBattery") ELSE <<>>))
                 \o (IF parsed THEN <<Entry("parsed", r)>> ELSE <<>>)
      BY <2>1, Zenon DEF PacketEntries
    <3> QED BY <3>1, <3>2, Zenon
  <2>6. first \in BOOLEAN /\ parsed \in BOOLEAN
    OBVIOUS
  <2>7. TurnRecorded(t, t', n, ws, l, {p.kind})
    <3> DEFINE y == p.kind
               q == t'
    <3> HIDE DEF first, parsed, r, y, q
    <3>1. TurnRecorded(t, q, n, ws, IF parsed THEN <<r>> ELSE <<>>, {y})
      BY <1>7, <2>3, <2>4, <2>5, <2>6, ReadingTurn DEF y, q
    <3> QED BY <3>1 DEF y, q
  <2>8. TotalsInv'
    <3>1. PICK x : Grows(t, t', ws, IF p.kind = "battery" THEN <<r>> ELSE <<>>, {p.kind}, x)
      BY <2>7, Zenon DEF TurnRecorded
    <3>2. Account(t', IF p.kind = "battery" THEN Append(log, r) ELSE log, count + 1,
                  IF p.kind = "badBattery" THEN refusals + 1 ELSE refusals,
                  runSeen \/ p.kind \in BatteryKinds)
      <4> DEFINE y == p.kind
                 q == t'
      <4>1. Grows(t, q, ws, IF y = "battery" THEN <<r>> ELSE <<>>, {y}, x)
        BY <3>1
      <4>2. y \in Kinds /\ (y = "battery" => r \in Readings)
        BY <2>3, <2>4
      <4> HIDE DEF y, q, r
      <4>3. AccountAfter(q, y, r, log, count, refusals, runSeen)
        BY <1>7, <4>1, <4>2, AccountRead
      <4> QED BY <4>3, Zenon DEF AccountAfter, y, q
    <3>3. /\ count' = count + 1 /\ runSeen' = (runSeen \/ p.kind \in BatteryKinds)
          /\ log' = IF p.kind = "battery" THEN Append(log, r) ELSE log
      BY <2>1, <2>2, Zenon DEF Counts
    <3>4. refusals' = IF p.kind = "badBattery" THEN refusals + 1 ELSE refusals
      BY <2>1 DEF Absorb
    <3> QED BY <3>2, <3>3, <3>4, Zenon DEF TotalsInv, t
  <2>9. heard' = heard \cup {p.kind}
    BY <2>1 DEF Absorb
  <2>10. /\ Missing(phase', heard') \in Nat
         /\ Missing(phase', heard') <= Missing(phase, heard)
                                       + (IF n = "timeout" THEN 1 ELSE 0)
    <3> DEFINE P == PhaseAfterTimeout
               N == IF n = "timeout" THEN 1 ELSE 0
    <3>1. /\ Missing(P, heard) <= Missing(phase, heard) + N
          /\ N \in Nat /\ Missing(phase, heard) \in Nat /\ Missing(P, heard) \in Nat
      BY <1>12
    <3>2. CASE StepAck
      <4>1. phase' = Advance(P) /\ Acks(Head(rx))
        BY <3>2 DEF StepAck
      <4>2. /\ Missing(phase', heard') \in Nat
            /\ Missing(phase', heard') <= Missing(P, heard)
        BY <1>1, <2>9, <4>1, AckMisses DEF p
      <4> HIDE DEF P, N
      <4> QED BY <3>1, <4>2 DEF N
    <3>3. CASE StepPacket
      <4>1. phase' = P
        BY <3>3 DEF StepPacket, TimersRun
      <4>2. IsFiniteSet(AcksBefore(P)) /\ heard \subseteq heard'
        BY <1>1, <2>9, TimersSend, AcksFinite
      <4>3. /\ Missing(P, heard') \in Nat
            /\ Missing(P, heard') <= Missing(P, heard)
        BY <4>2, MissingLess DEF Missing
      <4> HIDE DEF P, N
      <4> QED BY <3>1, <4>1, <4>3 DEF N
    <3> QED BY <1>14, <3>2, <3>3
  <2>11. LoopInv'
    <3> HIDE DEF l
    <3> QED BY <1>1, <1>4, <1>7, <1>9, <1>12, <2>7, <2>9, <2>10, LoopGrows DEF t
  <2> QED BY <2>8, <2>11
<1> QED BY <1>3, <1>13, <1>14

\* A turn that closes the channel: what the timers sent is recorded, and the note.
LEMMA TurnClosesTold ==
    ASSUME CliInv, TypeOK', TranscriptInv,
           TurnTimeoutWriteFails \/ TurnResendWriteFails \/ TurnCloses
    PROVE  TranscriptInv'
<1>1. TypeOK /\ CliTypeOK /\ pc = "loop"
  BY DEF CliInv, CliTypeOK, TurnTimeoutWriteFails, TurnResendWriteFails, TurnCloses,
         Turns
<1>2. out'.closed /\ UNCHANGED knowledge
  BY <1>1, ReturnedFields
     DEF TurnTimeoutWriteFails, TurnResendWriteFails, TurnCloses
<1>3. PICK ws \in Seq(Written) : Turned(ws)
  <2>1. <<>> \in Seq(Written) /\ TimerWrites \in Seq(Written)
    BY WritesType
  <2>2. (IF TimedOut THEN <<AdvanceWrite(phase)>> ELSE <<>>) \in Seq(Written)
    BY WritesType, OptionalWrite
  <2> QED BY <2>1, <2>2, Zenon
          DEF TurnTimeoutWriteFails, TurnResendWriteFails, TurnCloses
<1>4. /\ Record(Hook(ws) \o StepNote) /\ UNCHANGED <<count, runSeen, log>>
      /\ pc' = "summary" /\ capture' = capture
  BY <1>2, <1>3 DEF Turned, LeavesLoop, options, tally
<1>5. LoopInv' /\ EndInv'
  BY <1>4 DEF LoopInv, EndInv
<1>6. ASSUME capture PROVE TotalsInv'
  <2> DEFINE t == transcript
             n == out'.note
  <2>1. /\ Account(t, log, count, refusals, runSeen) /\ t \in Seq(Entries)
        /\ log \in Seq(Readings) /\ n \in Notes
    BY <1>1, <1>6 DEF TranscriptInv, TotalsInv, Account, CliTypeOK, TypeOK, StepResults
  <2>2. StepNote = NoteLines(n)
    BY DEF StepNote, NoteLines
  <2> HIDE DEF n
  <2>3. t' = t \o (Hook(ws) \o NoteLines(n))
    BY <1>4, <1>6, <2>2 DEF Record
  <2> HIDE DEF t
  <2>4. TurnRecorded(t, t', n, ws, <<>>, {})
    BY <2>1, <2>3, QuietTurn
  <2>5. PICK x : Grows(t, t', ws, <<>>, {}, x)
    BY <2>4, Zenon DEF TurnRecorded
  <2>6. Account(t', log, count, refusals, runSeen)
    BY <2>1, <2>5, AccountKept
  <2>7. refusals' = refusals
    BY <1>2 DEF knowledge
  <2> QED BY <1>4, <2>6, <2>7, Zenon DEF TotalsInv, t
<1> QED BY <1>4, <1>5, <1>6 DEF TranscriptInv, TotalsInv

(***************************************************************************)
(* The way to the loop.  The lines of an open are the preamble, what was   *)
(* written, and a note y that says how it ended.                           *)
(***************************************************************************)
OpenRecorded(u, ws, y) ==
    \E x : /\ Grows(<<>>, u, ws, <<>>, {}, x)
           /\ "timeout" \notin x
           /\ "header" \in x <=> y = "header"

LEMMA OpenLines ==
    ASSUME NEW ws \in Seq(Written), NEW y \in {"connectFailed", "header"},
           NEW u, u = <<>> \o ((Preamble \o Hook(ws)) \o Note(y))
    PROVE  OpenRecorded(u, ws, y)
<1> DEFINE z == "handshakeSkipped"
           a == Preamble
           b == a \o Hook(ws)
           c == b \o Note(y)
<1>1. /\ z \in NoteWords /\ y \in NoteWords /\ z # y /\ z # "header" /\ z # "timeout"
      /\ y # "timeout"
  BY DEF NoteWords
<1>2. <<>> \in Seq(Entries) /\ <<>> \in Seq(Written) /\ <<>> \in Seq(Readings)
  OBVIOUS
<1>3. Grows(<<>>, <<>>, <<>>, <<>>, {}, {})
  BY <1>2, GrowsNothing
<1>4. Note(z) = <<>> \o Note(z) /\ Note(z) \in Seq(Entries)
  BY <1>1, NoteType
<1>5. Grows(<<>>, Note(z), <<>>, <<>>, {}, {} \cup {z})
  <2> DEFINE e == {}
             v == Note(z)
  <2>1. Grows(<<>>, <<>>, <<>>, <<>>, {}, e) /\ z \notin e /\ v = <<>> \o Note(z)
    BY <1>3, <1>4
  <2> HIDE DEF e, v, z
  <2>2. Grows(<<>>, v, <<>>, <<>>, {}, e \cup {z})
    BY <1>1, <1>2, <2>1, GrowsNote
  <2> QED BY <2>2 DEF e, v
<1>6. PICK x : /\ Grows(<<>>, a, <<>>, <<>>, {}, x)
               /\ "header" \notin x /\ "timeout" \notin x /\ y \notin x
  <2>1. CASE cfg.sendHandshake
    <3>1. a = <<>>
      BY <2>1 DEF Preamble
    <3> QED BY <1>3, <3>1, Zenon
  <2>2. CASE ~cfg.sendHandshake
    <3>1. a = Note(z)
      BY <2>2 DEF Preamble
    <3> DEFINE e == {} \cup {z}
    <3>2. "header" \notin e /\ "timeout" \notin e /\ y \notin e
      BY <1>1
    <3>3. Grows(<<>>, a, <<>>, <<>>, {}, e)
      BY <1>5, <3>1, Zenon
    <3> HIDE DEF e, a
    <3> QED BY <3>2, <3>3, Zenon
  <2> QED BY <2>1, <2>2
<1>7. b = a \o Hook(ws) /\ c = b \o Note(y)
  OBVIOUS
<1>8. c \in Seq(Entries) /\ u = <<>> \o c
  <2>1. a \in Seq(Entries)
    BY <1>6, Zenon DEF Grows
  <2>2. Hook(ws) \in Seq(Entries) /\ Note(y) \in Seq(Entries)
    BY <1>1, HookType, NoteType
  <2> HIDE DEF a
  <2> QED BY <2>1, <2>2, ConcatProperties DEF a
<1> HIDE DEF a, b, c
<1>9. Grows(<<>>, b, ws, <<>>, {}, x)
  BY <1>2, <1>6, <1>7, GrowsThenSends
<1>10. Grows(<<>>, c, ws, <<>>, {}, x \cup {y})
  BY <1>1, <1>2, <1>6, <1>7, <1>9, GrowsNote
<1>11. u = c
  BY <1>8
<1>12. "timeout" \notin x \cup {y} /\ ("header" \in x \cup {y} <=> y = "header")
  BY <1>1, <1>6
<1> QED BY <1>10, <1>11, <1>12, Zenon DEF OpenRecorded

LEMMA FirstPart ==
    ASSUME NEW w \in Seq(Written), NEW n \in 0..(Len(w) - 1)
    PROVE  SubSeq(w, 1, n) \in Seq(Written)
BY SubSeqProperties

\* The lines of an open that failed and those of one that did not.
LEMMA OpenAccount ==
    ASSUME CliInv, TranscriptInv, pc = "args", capture, NEW ws \in Seq(Written),
           NEW y \in {"connectFailed", "header"},
           Record((Preamble \o Hook(ws)) \o Note(y))
    PROVE  /\ Account(transcript', log, count, refusals, runSeen)
           /\ Tells(transcript', ">", ws)
           /\ ReceivedIn(transcript') = {}
           /\ Occurrences(transcript', Entry("#", "timeout")) \in Nat
           /\ y # "header" => Occurrences(transcript', Entry("#", "header")) = 0
<1> DEFINE u == transcript'
<1>1. transcript = <<>>
  BY DEF TranscriptInv, EndInv
<1>2. u = <<>> \o ((Preamble \o Hook(ws)) \o Note(y))
  BY <1>1 DEF Record
<1>3. Account(<<>>, log, count, refusals, runSeen)
  BY <1>1, Zenon DEF TranscriptInv, TotalsInv
<1>4. log \in Seq(Readings)
  BY DEF CliInv, CliTypeOK
<1> HIDE DEF u
<1>5. OpenRecorded(u, ws, y)
  BY <1>2, OpenLines
<1>6. PICK x : /\ Grows(<<>>, u, ws, <<>>, {}, x)
               /\ "timeout" \notin x
               /\ "header" \in x <=> y = "header"
  BY <1>5, Zenon DEF OpenRecorded
<1>7. Account(u, log, count, refusals, runSeen)
  BY <1>3, <1>4, <1>6, AccountKept, EmptyTranscript
<1>8. Tells(u, ">", ws)
  <2>1. Tells(<<>>, ">", <<>>) /\ <<>> \in Seq(Written)
    BY EmptyTranscript
  <2>2. Tells(u, ">", <<>> \o ws)
    BY <1>6, <2>1, Zenon DEF Grows
  <2>3. <<>> \o ws = ws
    OBVIOUS
  <2> QED BY <2>2, <2>3, Zenon
<1>9. ReceivedIn(u) = {}
  <2>1. ReceivedIn(u) = ReceivedIn(<<>>) \cup {}
    BY <1>6, Zenon DEF Grows
  <2> QED BY <2>1, EmptyTranscript
<1>10. Occurrences(u, Entry("#", "timeout")) \in Nat
  BY <1>7, OccurrencesType DEF Account
<1>11. ASSUME y # "header" PROVE Occurrences(u, Entry("#", "header")) = 0
  <2>1. Occurrences(u, Entry("#", "header"))
          = Occurrences(<<>>, Entry("#", "header")) + (IF "header" \in x THEN 1 ELSE 0)
    BY <1>6, Zenon DEF Grows
  <2>2. Occurrences(<<>>, Entry("#", "header")) = 0
    BY EmptyTranscript
  <2> QED BY <1>6, <1>11, <2>1, <2>2
<1> QED BY <1>7, <1>8, <1>9, <1>10, <1>11 DEF u

LEMMA UsageTold ==
    ASSUME CliInv, TranscriptInv, Usage
    PROVE  TranscriptInv'
<1>1. /\ pc = "args" /\ pc' = "done"
      /\ UNCHANGED <<transcript, capture, count, runSeen, log, refusals>>
  BY DEF Usage, Ends, options, tally, vars, knowledge
<1>2. transcript' = <<>>
  BY <1>1 DEF TranscriptInv, EndInv
<1>3. TotalsInv'
  BY <1>1, Zenon DEF TranscriptInv, TotalsInv
<1>4. Times("#", "header")' = 0
  BY <1>2, EmptyTranscript, Zenon DEF Times
<1> QED BY <1>1, <1>3, <1>4, Zenon DEF TranscriptInv, LoopInv, EndInv

LEMMA AbortsTold ==
    ASSUME CliInv, TranscriptInv, ConnectFails \/ WriteFails
    PROVE  TranscriptInv'
<1>1. pc = "args" /\ refusals' = refusals
  BY DEF ConnectFails, WriteFails, OpenConnectFails, OpenWriteFails, knowledge
<1>2. PICK ws \in Seq(Written) : Aborts(ws)
  <2>1. CASE ConnectFails
    <3>1. <<>> \in Seq(Written)
      OBVIOUS
    <3> QED BY <2>1, <3>1, Zenon DEF ConnectFails
  <2>2. CASE WriteFails
    <3> DEFINE w == IF UpFront THEN UpFrontWrites ELSE FirstWrite
    <3>1. w \in Seq(Written)
      BY WritesType
    <3>2. \E n \in 0..(Len(w) - 1) : Aborts(SubSeq(w, 1, n))
      BY <2>2, Zenon DEF WriteFails
    <3> HIDE DEF w
    <3>3. PICK n \in 0..(Len(w) - 1) : Aborts(SubSeq(w, 1, n))
      BY <3>2, Zenon
    <3>4. SubSeq(w, 1, n) \in Seq(Written)
      BY <3>1, FirstPart
    <3> QED BY <3>3, <3>4, Zenon
  <2> QED BY <2>1, <2>2
<1>3. /\ Record((Preamble \o Hook(ws)) \o Note("connectFailed"))
      /\ pc' = "done" /\ UNCHANGED <<capture, count, runSeen, log>>
  BY <1>2 DEF Aborts, Ends, options, tally
<1> DEFINE y == "connectFailed"
<1>4. y \in {"connectFailed", "header"} /\ y # "header"
  OBVIOUS
<1>5. ASSUME capture
      PROVE  /\ Account(transcript', log, count, refusals, runSeen)
             /\ Times("#", "header")' = 0
  <2>1. Record((Preamble \o Hook(ws)) \o Note(y))
    BY <1>3
  <2> HIDE DEF y
  <2>2. /\ Account(transcript', log, count, refusals, runSeen)
        /\ Occurrences(transcript', Entry("#", "header")) = 0
    BY <1>1, <1>4, <1>5, <2>1, OpenAccount
  <2> QED BY <2>2, Zenon DEF Times
<1>6. TotalsInv'
  BY <1>1, <1>3, <1>5, Zenon DEF TotalsInv
<1> QED BY <1>3, <1>5, <1>6, Zenon DEF TranscriptInv, LoopInv, EndInv

LEMMA ConnectsTold ==
    ASSUME CliInv, TypeOK', WaitInv, TranscriptInv, Connects
    PROVE  TranscriptInv'
<1>1. /\ pc = "args" /\ pc' = "loop" /\ (OpenWaits \/ OpenUpFront)
      /\ UNCHANGED <<capture, count, runSeen, log>>
      /\ Record((Preamble \o Hook(wire')) \o Note("header"))
  BY DEF Connects, options, tally
<1>2. /\ refusals' = refusals /\ wire' \in Seq(Written) /\ cfg' = cfg
      /\ heard' = {}
  BY <1>1, WritesType DEF OpenWaits, OpenUpFront, knowledge, WaitInv
<1> DEFINE y == "header"
<1>3. y \in {"connectFailed", "header"}
  OBVIOUS
<1>4. ASSUME capture
      PROVE  /\ Account(transcript', log, count, refusals, runSeen)
             /\ Tells(transcript', ">", wire')
             /\ ReceivedIn(transcript') = {}
             /\ Times("#", "timeout")' \in Nat
  <2>1. PICK ws \in Seq(Written) :
          ws = wire' /\ Record((Preamble \o Hook(ws)) \o Note(y))
    BY <1>1, <1>2, Zenon
  <2> HIDE DEF y
  <2>2. /\ Account(transcript', log, count, refusals, runSeen)
        /\ Tells(transcript', ">", ws)
        /\ ReceivedIn(transcript') = {}
        /\ Occurrences(transcript', Entry("#", "timeout")) \in Nat
    BY <1>1, <1>3, <1>4, <2>1, OpenAccount
  <2> QED BY <2>1, <2>2, Zenon DEF Times
<1>5. ASSUME ~UpFront' PROVE Missing(phase, heard)' = 0
  <2>1. phase' = "WaitHandshakeAck"
    BY <1>1, <1>2, <1>5 DEF OpenWaits, OpenUpFront, UpFront
  <2>2. AcksBefore(phase)' = {}
    BY <2>1 DEF AcksBefore
  <2>3. AcksBefore(phase)' \ heard' = {}
    BY <2>2
  <2> QED BY <2>3, FS_EmptySet, Zenon DEF Missing
<1>6. ASSUME capture, ~UpFront' PROVE (Missing(phase, heard) <= Times("#", "timeout"))'
  <2> DEFINE m == Missing(phase, heard)'
             k == Times("#", "timeout")'
  <2>1. m = 0 /\ k \in Nat
    BY <1>4, <1>5, <1>6
  <2> HIDE DEF m, k
  <2>2. m <= k
    BY <2>1
  <2> QED BY <2>2 DEF m, k
<1>7. TotalsInv'
  BY <1>1, <1>2, <1>4, Zenon DEF TotalsInv
<1>8. LoopInv'
  BY <1>1, <1>2, <1>4, <1>6, Zenon DEF LoopInv
<1>9. EndInv'
  BY <1>1 DEF EndInv
<1> QED BY <1>7, <1>8, <1>9 DEF TranscriptInv

\* The summary: one more note, the last line.
LEMMA LastLine ==
    ASSUME NEW t \in Seq(Entries), NEW y \in NoteWords, NEW u, u = t \o Note(y)
    PROVE  u[Len(u)].what = y
<1> DEFINE e == Entry("#", y)
<1>1. e.what = y
  BY DEF Entry
<1>2. Note(y) = <<e>>
  BY DEF Note
<1> HIDE DEF e
<1>3. <<e>>[1] = e /\ Len(<<e>>) = 1
  OBVIOUS
<1>4. e \in Entries
  <2>1. y \in Words
    BY Zenon DEF Words
  <2> QED BY <2>1 DEF e, Entry, Entries, Dirs
<1>5. u = Append(t, e)
  BY <1>2, <1>4
<1>6. Len(u) = Len(t) + 1 /\ u[Len(t) + 1] = e
  BY <1>4, <1>5
<1> QED BY <1>1, <1>6

LEMMA SummaryTold ==
    ASSUME CliInv, TranscriptInv, Summary
    PROVE  TranscriptInv'
<1> DEFINE y == IF runSeen THEN "endSeen" ELSE "endNone"
<1>1. /\ pc' = "done" /\ exit' = Verdict /\ Record(Note(y))
      /\ UNCHANGED <<capture, count, runSeen, log, refusals>>
  BY DEF Summary, Ends, Close, options, tally, knowledge
<1>2. y \in NoteWords
  BY DEF NoteWords
<1>3. y' = y /\ Verdict' = Verdict
  BY <1>1 DEF Verdict
<1>4. ASSUME capture
      PROVE  /\ Account(transcript', log, count, refusals, runSeen)
             /\ transcript'[Len(transcript')].what = y
  <2> DEFINE t == transcript
             e == {}
  <2>1. /\ Account(t, log, count, refusals, runSeen) /\ t \in Seq(Entries)
        /\ log \in Seq(Readings)
    BY <1>4 DEF TranscriptInv, TotalsInv, Account, CliInv, CliTypeOK
  <2>2. t' = t \o Note(y)
    BY <1>1, <1>4 DEF Record
  <2>3. Grows(t, t, <<>>, <<>>, {}, e) /\ y \notin e
    BY <2>1, GrowsNothing
  <2>4. <<>> \in Seq(Written) /\ <<>> \in Seq(Readings)
    OBVIOUS
  <2> HIDE DEF t, e, y
  <2>5. Grows(t, t', <<>>, <<>>, {}, e \cup {y})
    BY <1>2, <2>1, <2>2, <2>3, <2>4, GrowsNote
  <2>6. Account(t', log, count, refusals, runSeen)
    BY <2>1, <2>5, AccountKept
  <2>7. t'[Len(t')].what = y
    BY <1>2, <2>1, <2>2, LastLine
  <2> QED BY <2>6, <2>7 DEF t
<1>5. TotalsInv'
  BY <1>1, <1>4, Zenon DEF TotalsInv
<1>6. LoopInv'
  BY <1>1 DEF LoopInv
<1>7. EndInv'
  BY <1>1, <1>3, <1>4, Zenon DEF EndInv
<1> QED BY <1>5, <1>6, <1>7 DEF TranscriptInv

\* What the pods and the clock do, and a signal, is not recorded.
LEMMA OthersTold ==
    ASSUME TranscriptInv,
           Signal \/ PodsSendInRun \/ PodsHangUpInRun \/ TimePasses \/ UNCHANGED cliAll
    PROVE  TranscriptInv'
<1>1. /\ UNCHANGED <<cfg, phase, refusals, wire, heard>>
      /\ UNCHANGED <<capture, pc, count, runSeen, log, transcript, exit>>
  BY DEF Signal, PodsSendInRun, PodsHangUpInRun, TimePasses, PodsSend, PodsHangUp,
         Elapse, Quiet, cliAll, cliVars, vars, options, tally, knowledge, bookkeeping
<1>2. TotalsInv'
  BY <1>1, Zenon DEF TranscriptInv, TotalsInv
<1>3. /\ Times("#", "timeout")' = Times("#", "timeout")
      /\ Times("#", "header")' = Times("#", "header")
      /\ Missing(phase, heard)' = Missing(phase, heard)
      /\ UpFront' <=> UpFront
      /\ Verdict' = Verdict
  BY <1>1, Zenon DEF Times, Missing, AcksBefore, HasCaps, UpFront, Verdict
<1>4. LoopInv'
  BY <1>1, <1>3, Zenon DEF TranscriptInv, LoopInv
<1>5. EndInv'
  BY <1>1, <1>3, Zenon DEF TranscriptInv, EndInv
<1> QED BY <1>2, <1>4, <1>5 DEF TranscriptInv

LEMMA TranscriptStep ==
    ASSUME CliInv, TypeOK', WireInv, WaitInv, TranscriptInv, [CliNext]_cliAll
    PROVE  TranscriptInv'
<1>1. ASSUME Starts PROVE TranscriptInv'
  BY <1>1, UsageTold, AbortsTold, ConnectsTold DEF Starts
<1>2. ASSUME TurnRuns \/ TurnInterrupted PROVE TranscriptInv'
  BY <1>2, TurnStaysTold, TurnClosesTold DEF TurnRuns
<1>3. ASSUME Summary PROVE TranscriptInv'
  BY <1>3, SummaryTold
<1>4. ASSUME Signal \/ PodsSendInRun \/ PodsHangUpInRun \/ TimePasses
                    \/ UNCHANGED cliAll
      PROVE  TranscriptInv'
  BY <1>4, OthersTold
<1> QED BY <1>1, <1>2, <1>3, <1>4 DEF CliNext

LEMMA TranscriptInvariant == CliSpec => []TranscriptInv
<1>1. CliInit => TranscriptInv
  <2> SUFFICES ASSUME CliInit PROVE TranscriptInv
    OBVIOUS
  <2>1. /\ transcript = <<>> /\ refusals = 0 /\ log = <<>> /\ count = 0 /\ ~runSeen
        /\ pc = "args"
    BY DEF CliInit, Init
  <2>2. Account(<<>>, <<>>, 0, 0, runSeen)
    <3>1. /\ Tells(<<>>, "parsed", <<>>) /\ Cardinality(Lines(<<>>, "<")) = 0
          /\ Occurrences(<<>>, Entry("<", "badBattery")) = 0
          /\ Occurrences(<<>>, Entry("<", "battery")) = 0
      BY EmptyTranscript, Zenon
    <3>2. <<>> \in Seq(Entries) /\ ReceivedIn(<<>>) \cap BatteryKinds = {}
          /\ Len(<<>>) = 0
      BY EmptyTranscript
    <3> QED BY <2>1, <3>1, <3>2, Zenon DEF Account
  <2>3. TotalsInv
    BY <2>1, <2>2, Zenon DEF TotalsInv
  <2>4. LoopInv /\ EndInv
    BY <2>1 DEF LoopInv, EndInv
  <2> QED BY <2>3, <2>4 DEF TranscriptInv
<1>2. CliInv /\ TypeOK' /\ WireInv /\ WaitInv /\ TranscriptInv /\ [CliNext]_cliAll
        => TranscriptInv'
  BY TranscriptStep
<1> QED BY <1>1, <1>2, CliInvariant, CliRefinesSession, TypeCorrect, WireInvariant,
           WaitInvariant, PTL DEF CliSpec, cliAll

\* For every configuration and every run: the sends a transcript shows while the
\* loop runs are those of the handshake as far as it has got, once each and in
\* their order, with the repeated request if there was one.
THEOREM TranscriptTold == CliSpec => []TranscriptTellsPhase
<1>1. CliInv /\ WireInv /\ TranscriptInv => TranscriptTellsPhase
  <2> SUFFICES ASSUME CliInv, WireInv, TranscriptInv, pc = "loop", capture
               PROVE  Tells(transcript, ">",
                        SentBy(phase) \o (IF notifyResent THEN <<"notify">> ELSE <<>>))
    BY Zenon DEF TranscriptTellsPhase
  <2>1. Tells(transcript, ">", wire)
    BY DEF TranscriptInv, LoopInv
  <2>2. wire = SentBy(phase) \o (IF notifyResent THEN <<"notify">> ELSE <<>>)
    BY DEF CliInv, ProbeAgreesWithSession, WireInv, WireMatchesPhase
  <2> QED BY <2>1, <2>2, Zenon
<1> QED BY <1>1, CliInvariant, CliRefinesSession, WireInvariant, TranscriptInvariant, PTL

\* For every configuration that waits for acks: the transcript holds the ack of
\* every advance, or a timeout's note in its place.
THEOREM AdvancesExplained == CliSpec => []AdvancesAreExplained
<1>1. TranscriptInv => AdvancesAreExplained
  BY DEF TranscriptInv, LoopInv, AdvancesAreExplained, Missing, Received
<1> QED BY <1>1, TranscriptInvariant, PTL

\* For every run: the totals, the table, the exit code and the last line of a
\* run are those its transcript calls for.
THEOREM TotalsRecorded == CliSpec => []TotalsAreRecorded
<1>1. CliInv /\ TranscriptInv => TotalsAreRecorded
  <2> SUFFICES ASSUME CliInv, TranscriptInv, capture PROVE TotalsAreRecorded
    BY Zenon DEF TotalsAreRecorded
  <2>1. Account(transcript, log, count, refusals, runSeen)
    BY DEF TranscriptInv, TotalsInv
  <2>2. /\ count = Cardinality(Lines(transcript, "<"))
        /\ refusals = Times("<", "badBattery")
        /\ Tells(transcript, "parsed", log)
        /\ Len(log) = Times("<", "battery")
    BY <2>1, Zenon DEF Account, Times
  <2>3. ASSUME pc = "done", Times("#", "header") = 1
        PROVE  /\ exit = IF Received = {} THEN 1 ELSE 0
               /\ transcript[Len(transcript)].what =
                    IF Received \cap BatteryKinds = {} THEN "endNone" ELSE "endSeen"
    <3>1. Times("#", "header") # 0
      BY <2>3
    <3>2. /\ exit = Verdict
          /\ transcript[Len(transcript)].what = IF runSeen THEN "endSeen" ELSE "endNone"
      BY <2>3, <3>1, Zenon DEF TranscriptInv, EndInv
    <3>3. count \in Nat /\ runSeen \in BOOLEAN
      BY DEF CliInv, CliTypeOK
    <3>4. Received = {} <=> count = 0
      BY <2>1, <2>2, HeardLines, Zenon DEF Received, Account
    <3>5. exit = IF Received = {} THEN 1 ELSE 0
      BY <3>2, <3>3, <3>4 DEF Verdict
    <3>6. runSeen <=> Received \cap BatteryKinds # {}
      BY <2>1, Zenon DEF Account, Received
    <3> QED BY <3>2, <3>5, <3>6, Zenon
  <2> QED BY <2>2, <2>3, Zenon DEF TotalsAreRecorded
<1> QED BY <1>1, CliInvariant, TranscriptInvariant, PTL
=============================================================================
