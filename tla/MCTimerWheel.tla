---------------------------- MODULE MCTimerWheel ----------------------------
(* A wheel of a few slots with two or three timers. *)
EXTENDS TimerWheel

(* Delays that reach any slot but the one at the hand. *)
DelaysWithinTurn == 1 .. Capacity - 1

(* All delays up to the one the code calls the maximal one. *)
DelaysUpToTurn == 1 .. Capacity
=============================================================================
