------------------------------ MODULE Channel ------------------------------
(***************************************************************************)
(* What class Session (lib/include/airprobe/session.h) promises the        *)
(* programs that use it, without saying how.  A consumer sees the phase,   *)
(* the cached battery report, the number of refused parses, and the value  *)
(* its last call returned; it may call open(), step() and close().         *)
(*                                                                         *)
(* The daemon's pump is composed with this module (module Lifecycle), and  *)
(* module Session, the handshake machine itself, implements it.            *)
(***************************************************************************)
EXTENDS Integers

CONSTANTS
    Readings,       \* the battery reports the parser can produce
    NoReading       \* last_battery_ == nullopt

ASSUME ReadingsAssumption == NoReading \notin Readings

VARIABLES
    phase,      \* Session::phase_
    battery,    \* Session::last_battery_
    refusals,   \* Session::refusals_
    out,        \* what the last step() returned, or NoStep
    result      \* what the last open() returned, or "none"

chVars == <<phase, battery, refusals, out, result>>

Phases == {"Closed", "WaitHandshakeAck", "WaitFeaturesAck", "Listening"}

(***************************************************************************)
(* Session::Step.  note is TRUE when the pointer is set.  called tells a   *)
(* returned Step from the NoStep left by every other call.                 *)
(***************************************************************************)
StepResults ==
    [called : BOOLEAN, packet : BOOLEAN, battery : BOOLEAN,
     closed : BOOLEAN, phaseChanged : BOOLEAN, note : BOOLEAN]

\* A step that read nothing and has nothing to say.
PlainStep(called, closed) ==
    [called |-> called, packet |-> FALSE, battery |-> FALSE,
     closed |-> closed, phaseChanged |-> FALSE, note |-> FALSE]

NoStep == PlainStep(FALSE, FALSE)

\* Session::Step::idle()
Idle(o) == ~o.packet /\ ~o.closed /\ ~o.phaseChanged /\ ~o.note

\* The handshake sequence only moves forward while the channel is open.
Rank(p) == CASE p = "Closed"           -> 0
             [] p = "WaitHandshakeAck" -> 1
             [] p = "WaitFeaturesAck"  -> 2
             [] p = "Listening"        -> 3

ChInit ==
    /\ phase = "Closed"
    /\ battery = NoReading
    /\ refusals = 0
    /\ out = NoStep
    /\ result = "none"

(***************************************************************************)
(* open(): called on a closed channel.  The cached knowledge is kept       *)
(* whether or not it succeeds.                                             *)
(***************************************************************************)
\* Mutant: a new connection starts without the cached report.
ChOpenOkForgets ==
    /\ phase = "Closed"
    /\ phase' \in {"WaitHandshakeAck", "Listening"}
    /\ result' = "ok"
    /\ out' = NoStep
    /\ battery' = NoReading
    /\ UNCHANGED refusals

ChOpenOk ==
    /\ phase = "Closed"
    /\ phase' \in {"WaitHandshakeAck", "Listening"}
    /\ result' = "ok"
    /\ out' = NoStep
    /\ UNCHANGED <<battery, refusals>>

ChOpenFails ==
    /\ phase = "Closed"
    /\ result' = "failed"
    /\ out' = NoStep
    /\ UNCHANGED <<phase, battery, refusals>>

\* close(): the cache survives it.
ChClose ==
    /\ phase' = "Closed"
    /\ out' = NoStep
    /\ result' = "none"
    /\ UNCHANGED <<battery, refusals>>

\* step() on a channel that is not open says so and does nothing else.
ChStepNotOpen ==
    /\ phase = "Closed"
    /\ out' = PlainStep(TRUE, TRUE)
    /\ result' = "none"
    /\ UNCHANGED <<phase, battery, refusals>>

\* An idle step changes nothing a consumer can see.
ChStepIdle ==
    /\ phase # "Closed"
    /\ out' = PlainStep(TRUE, FALSE)
    /\ result' = "none"
    /\ UNCHANGED <<phase, battery, refusals>>

(***************************************************************************)
(* A step that is not idle.  It advances by at most one packet: that packet*)
(* replaces the cached report and leaves the channel open, or is counted as*)
(* refused, or does neither.                                               *)
(* The phase moves forward and the step says so, or the channel closes and *)
(* the step says that.                                                     *)
(***************************************************************************)
ChStepActive ==
    /\ phase # "Closed"
    /\ out' \in StepResults
    /\ out'.called
    /\ ~Idle(out')
    /\ phase' \in Phases
    /\ out'.closed <=> phase' = "Closed"
    /\ phase' # "Closed" => /\ Rank(phase') >= Rank(phase)
                            /\ out'.phaseChanged <=> phase' # phase
    /\ out'.battery => out'.packet /\ ~out'.closed
    /\ \/ /\ out'.battery
          /\ battery' \in Readings
          /\ refusals' = refusals
       \/ /\ ~out'.battery
          /\ battery' = battery
          /\ \/ refusals' = refusals
             \/ /\ out'.packet /\ out'.note
                /\ refusals' = refusals + 1
    /\ result' = "none"

\* The consumer has used the returned value.
ChForget ==
    /\ out' = NoStep
    /\ result' = "none"
    /\ UNCHANGED <<phase, battery, refusals>>

ChStep == ChStepNotOpen \/ ChStepIdle \/ ChStepActive

ChNext == ChOpenOk \/ ChOpenFails \/ ChClose \/ ChStep \/ ChForget

ChSpec == ChInit /\ [][ChNext]_chVars
=============================================================================
