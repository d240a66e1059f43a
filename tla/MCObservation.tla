---------------------------- MODULE MCObservation ----------------------------
(***************************************************************************)
(* Model values for Observation.                                           *)
(***************************************************************************)
EXTENDS Observation
CONSTANTS l1, h1, n1, n2, n3
MCLoops == {l1}
MCHooks == {h1}
MCNames == {n1, n2, n3}
MCResponses == {
  [n \in MCNames |-> "pass"],
  [n \in MCNames |-> IF n = n1 THEN "bad" ELSE "off"],
  [n \in MCNames |-> IF n = n1 THEN "pass" ELSE "bad"]}
MCLatencies == {1}
=============================================================================
