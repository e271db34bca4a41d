---------------------------- MODULE MCTimerWheel ----------------------------
(***************************************************************************)
(* Wheels of three slots and one member with up to two units: one that the *)
(* persistence thread has in hand or that DelTimer has missed, and one     *)
(* that is added.  The first wheel can hold the shorter time, only the     *)
(* second the longer.                                                      *)
(***************************************************************************)
EXTENDS TimerWheel
=============================================================================
