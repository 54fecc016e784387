----------------------------- MODULE MCBattery -----------------------------
(***************************************************************************)
(* Battery and Display on the bytes where their conditions turn: both pods, *)
(* the case and an unknown component, the bytes around 100, a component that*)
(* reports and one that does not, and the ages around every change of unit.*)
(***************************************************************************)
EXTENDS Display

\* In seconds: where minutes, hours and days begin, less the halves that
\* rounding adds.  Each is taken with the millisecond before.
Turns == {45, 3570, 84570}

AgesAtTurns ==
    {1000 * s : s \in Turns} \cup {1000 * s - 1 : s \in Turns}
=============================================================================
