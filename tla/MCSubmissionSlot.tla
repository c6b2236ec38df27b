---------------------------- MODULE MCSubmissionSlot ----------------------------
(* Two stops and two buys: the smallest set in which a stop overtakes a    *)
(* buy that waits, and the last of several stops is the one that sets the  *)
(* event; one request that is neither.                                     *)
EXTENDS SubmissionSlot

CONSTANTS s1, s2, b1, b2, o1

MCStops == {s1, s2}
MCBuys == {b1, b2}
MCOthers == {o1}
=============================================================================
