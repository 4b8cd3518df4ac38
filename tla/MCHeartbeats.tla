---------------------------- MODULE MCHeartbeats ----------------------------
(* Heartbeats on a small instance for TLC: the device's clock may be late, *)
(* right, ahead or too far ahead to be heard.                              *)
EXTENDS Heartbeats

MCSkews == {-1, 0, 1, 3}
=============================================================================
