------------------------------ MODULE MCSSEPush ------------------------------
(***************************************************************************)
(* Model values for SSEPush.                                               *)
(***************************************************************************)
EXTENDS SSEPush
CONSTANTS p1, p2, c1, up, fail, s1, s2
MCOnePusher == {p1}
MCTwoPushers == {p1, p2}
MCOneClient == {c1}
MCOneDigest == {up}
MCTwoDigests == {up, fail}
MCOneSrc == {s1}
MCTwoSrcs == {s1, s2}
=============================================================================
