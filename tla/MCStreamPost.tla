----------------------------- MODULE MCStreamPost -----------------------------
(* StreamPost for TLC. *)
EXTENDS StreamPost

CONSTANT First

\* The posters are interchangeable: it is enough to look at the runs in which First
\* makes the first call.
FirstPostsFirst == nextID > 0 => count[First] > 0

\* A crashed program takes no more steps.
NotCrashed == ~panicked
===============================================================================
