-------------------------------- MODULE Powers --------------------------------
(***************************************************************************)
(* Powers of a natural number.                                             *)
(*                                                                         *)
(* The exponentiation of the Integers module is a primitive of the tools:  *)
(* the provers know nothing of it but its type.  Power can be reasoned     *)
(* about.                                                                  *)
(***************************************************************************)
EXTENDS Integers

\* Power(b)[n] is b to the n-th.
Power(b) == LET p[n \in Nat] == IF n = 0 THEN 1 ELSE b * p[n - 1] IN p
===============================================================================
