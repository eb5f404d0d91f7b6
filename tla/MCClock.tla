------------------------------ MODULE MCClock ------------------------------
(* The clock for TLC: every hour, minutes and seconds about the places where *)
(* a digit or the next field changes.                                        *)
EXTENDS Clock

MCStartTimes ==
  [hour : 0 .. 23, minute : {0, 9, 29, 59}, second : {8, 15, 58}]
=============================================================================
