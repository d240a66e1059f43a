---------------------------- MODULE MCHealthCheck ----------------------------
(***************************************************************************)
(* Model values for HealthCheck.                                           *)
(***************************************************************************)
EXTENDS HealthCheck
CONSTANTS p1, p2
MCOnePusher == {p1}
MCTwoPushers == {p1, p2}
=============================================================================
