----------------------------- MODULE MCProvider -----------------------------
(***************************************************************************)
(* Provider on small instances: two reports that differ in the lower pod,  *)
(* one of them with an unreadable pod and a case, and one that cannot be   *)
(* read at all.                                                            *)
(***************************************************************************)
EXTENDS Provider

CONSTANT noLevel

Both == [left |-> 2, right |-> 3]
OnePod == [left |-> noLevel, right |-> 3, case |-> 1]
Neither == [left |-> noLevel, right |-> noLevel]

AllReports == {Both, OnePod, Neither}
OneReport == {Both}
=============================================================================
