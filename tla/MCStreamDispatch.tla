--------------------------- MODULE MCStreamDispatch ---------------------------
(* StreamDispatch for TLC. *)
EXTENDS StreamDispatch, TLC

\* Two users' order updates, two dexes' mids: keys the matching cannot tell apart.
\* Two books: keys it can.
Firsts == {AllMids, Book("BTC"), OrderUpdates("a")}
MCKeys == Firsts \cup {AllMidsOn("flx"), Book("ETH"), OrderUpdates("b")}

\* The two keys of a type may be swapped throughout a behaviour, so the first one to be
\* subscribed is in Firsts.  Two subscriptions of different types end with the book's
\* (bound).
FirstKeysFirst ==
    /\ keyOf[1] \in Firsts \cup {None}
    /\ keyOf[2] \in {Book("BTC"), None} \/ keyOf[2].typ = keyOf[1].typ

\* The trades feed, whose payload is an array.
TradesKeys == {Trades("BTC")}
===============================================================================
