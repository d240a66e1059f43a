------------------------------ MODULE MCWebhook ------------------------------
(***************************************************************************)
(* Model values for Webhook.                                               *)
(***************************************************************************)
EXTENDS Webhook
CONSTANTS l1, l2, up, fail, j1, j2, j3
MCOneLoop == {l1}
MCTwoLoops == {l1, l2}
MCStates == {up, fail}
MCJobs == {j1, j2, j3}
MCTwoJobs == {j1, j2}
=============================================================================
