------------------------------- MODULE MCCli -------------------------------
(***************************************************************************)
(* The probe on small instances.                                           *)
(***************************************************************************)
EXTENDS Cli

DefaultConfig ==
    [hasCaps |-> TRUE, ackDriven |-> TRUE, sendHandshake |-> TRUE,
     requireSecurity |-> TRUE]

\* The default, and --no-handshake --insecure, which writes the rest up front.
ProbeConfigs ==
    {DefaultConfig,
     [DefaultConfig EXCEPT !.sendHandshake = FALSE, !.requireSecurity = FALSE]}
=============================================================================
