---------------------------- MODULE MCTradeClient ----------------------------
(* A small account: two goroutines, coin c on the default dex, coin d on a *)
(* builder dex, orders of one or two lots at prices 1 to 3.                *)
EXTENDS TradeClient, TLC

CONSTANTS c, d

MCCoins    == {c, d}
MCDexCoins == {d}

Bracket  == [Order("gtc", c, TRUE, 1, 2) EXCEPT !.takeProfit = 3, !.stopLoss = 1]
Reducing == [Order("ioc", c, FALSE, 2, 2) EXCEPT !.reduceOnly = TRUE]
Stop     == Trigger(d, TRUE, 1, 3)
Unpriced == Order("alo", d, FALSE, 1, 0)
Unnamed  == [Order("gtc", NoCoin, TRUE, 1, 1) EXCEPT !.skip = TRUE]
Blind    == [Order("alo", d, FALSE, 1, 1) EXCEPT !.skip = TRUE]

MCBatches == {<< Bracket >>, << Reducing, Blind >>, << Stop, Unpriced >>, << Unnamed >>}
MCMarkets == {Order("market", c, TRUE, 1, 0)}
Closing   == Order("close", c, FALSE, 0, 0)
MCCloses  == {Closing, [Closing EXCEPT !.limitPrice = 2, !.overrideSize = 1, !.skip = TRUE]}
MCStarts  == {[x \in {c, d} |-> IF x = c THEN szi ELSE 0] : szi \in {-2, 1}}
MCClients == {{}, {"account"}, {"account", "vault"}}
MCSweeps  == {{}, {c}}
MCQuotes  == {2}

Symmetry == Permutations(Users)
===============================================================================
