---------------------------- MODULE MCWorldClock -----------------------------
(* WorldClock for TLC: numbers below and above every bound they meet.       *)
EXTENDS WorldClock

MCValues == {-1, 0, 2, 6}
=============================================================================
