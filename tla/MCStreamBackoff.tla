---------------------------- MODULE MCStreamBackoff ----------------------------
(* StreamBackoff for TLC: 16 bits, tenths of a second. *)
EXTENDS StreamBackoff
===============================================================================
