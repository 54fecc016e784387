----------------------------- MODULE MCSession -----------------------------
(***************************************************************************)
(* Session on small instances: the readings are model values, the times a  *)
(* unit or two, the receive queue two packets.                             *)
(***************************************************************************)
EXTENDS Session

\* SessionConfig as its member initialisers leave it.
DefaultConfig ==
    [hasCaps |-> TRUE, ackDriven |-> TRUE, sendHandshake |-> TRUE,
     requireSecurity |-> TRUE]

\* The default; --caps none; and --sequence sleep without capabilities or
\* link security.
ThreeConfigs ==
    {DefaultConfig,
     [DefaultConfig EXCEPT !.hasCaps = FALSE],
     [DefaultConfig EXCEPT !.hasCaps = FALSE, !.ackDriven = FALSE,
                           !.requireSecurity = FALSE]}
=============================================================================
