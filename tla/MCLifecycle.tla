---------------------------- MODULE MCLifecycle ----------------------------
(***************************************************************************)
(* Lifecycle on small instances.                                           *)
(***************************************************************************)
EXTENDS Lifecycle

\* kRetryMs, in seconds.
Delays == <<1, 2, 4>>
=============================================================================
