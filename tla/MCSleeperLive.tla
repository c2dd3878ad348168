---------------------------- MODULE MCSleeperLive ----------------------------
(* The instances of MCSleeper, for the liveness properties.                 *)
EXTENDS SleeperLive, MCSleeper
=============================================================================
