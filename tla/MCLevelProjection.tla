-------------------------- MODULE MCLevelProjection --------------------------
(***************************************************************************)
(* One player and two events: two rating changes that may race with each   *)
(* other and with one worker, the projection on or off for each.  A row is *)
(* DEAD after two failures, and the circuit opens after one.               *)
(***************************************************************************)
EXTENDS LevelProjection
CONSTANTS k1, k2, r1, r2, w1
TwoKeys == {k1, k2}
TwoRequests == {r1, r2}
OneWorker == {w1}
OnOrOff == BOOLEAN
=============================================================================
