----------------------------- MODULE MCStreamSubs -----------------------------
(* StreamSubs for TLC; goroutines and keys are interchangeable. *)
EXTENDS StreamSubs, TLC

Symmetry == Permutations(Users) \cup Permutations(Keys)
===============================================================================
