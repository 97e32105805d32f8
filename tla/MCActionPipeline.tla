--------------------------- MODULE MCActionPipeline ---------------------------
(* ActionPipeline for TLC: numbers in units of 10^-4. *)
EXTENDS ActionPipeline

Plain(name)     == <<name, "", "", "", "", 0>>
InDex(dex, name) == <<dex, name, "", "", "", 0>>

MCTokens == << [name |-> "USDC", index |-> 0, dec |-> 2], [name |-> "USDH", index |-> 1, dec |-> 1] >>

\* Two perps, a spot pair and one whose base token is not listed, a question of two
\* thresholds whose three outcomes share a name, and an outcome of its own.
MainUniverse ==
    [dex |-> "", dexs |-> << "" >>,
     perps |-> << [name |-> Plain("BTC"), dec |-> 3], [name |-> Plain("DOGE"), dec |-> 0] >>,
     tokens |-> MCTokens,
     spots |-> << [name |-> Plain("@1"), index |-> 1, base |-> 1, quote |-> 0],
                  [name |-> Plain("@7"), index |-> 7, base |-> 9, quote |-> 0] >>,
     sides |-> << [id |-> 1, name |-> "HYPE", idx |-> 0, side |-> "Yes"],
                  [id |-> 1, name |-> "HYPE", idx |-> 1, side |-> "No"],
                  [id |-> 2, name |-> "HYPE", idx |-> 0, side |-> "Yes"],
                  [id |-> 3, name |-> "HYPE", idx |-> 0, side |-> "Yes"] >>,
     questions |-> << [name |-> "Q", fallback |-> 9, named |-> << 1, 2, 3 >>,
                       thresholds |-> << "40", "50" >>] >>]

\* A builder dex with a perp whose name is the friendly name of an outcome and one whose
\* prices are whole.
FlxUniverse ==
    [dex |-> "flx", dexs |-> << "", "flx" >>,
     perps |-> << [name |-> InDex("flx", "GOLD"), dec |-> 2],
                  [name |-> InDex("flx", "PEPE"), dec |-> 6] >>,
     tokens |-> << >>, spots |-> << >>,
     sides |-> << [id |-> 4, name |-> "flx", idx |-> 0, side |-> "GOLD"],
                  [id |-> 5, name |-> "rate", idx |-> 0, side |-> "Yes"] >>,
     questions |-> << [name |-> "R", fallback |-> 4, named |-> << 5 >>, thresholds |-> << >>] >>]

MCUniverses == {MainUniverse, FlxUniverse}

\* Every verb on its own, and two calls at a time of the two ways to sign.
Roster(one, two) == [g \in Calls |-> IF g = "g1" THEN one ELSE two]
MCRosters == {Roster({v}, {}) : v \in Verbs} \cup {Roster({"cancel"}, {"stake"})}

Order(coin, buy, size, price) == [coin |-> coin, buy |-> buy, size |-> size, price |-> price]

\* Sizes with and without decimals, tens among them; prices between two steps and of
\* tens; market orders; a coin that nobody lists.
MCOrderArgs ==
    {Order(Plain("BTC"), TRUE, 1200, 12345), Order(Plain("BTC"), FALSE, 200000, 0),
     Order(Plain("DOGE"), TRUE, 1000000, 1234), Order(Plain("DOGE"), TRUE, 70000, 0),
     Order(Plain("@1"), FALSE, 21000, 12345), Order(Plain("@7"), TRUE, 200000, 0),
     Order(Friendly("HYPE", "Yes"), TRUE, 2000000, 4200),
     Order(Canonical(10), FALSE, 30000, 0),
     Order(Bucket("Q", <<"to", "40", "50">>, "Yes"), TRUE, 30000, 4200),
     Order(InDex("flx", "GOLD"), TRUE, 100000, 0),
     Order(InDex("flx", "PEPE"), TRUE, 20000, 100000),
     Order(InDex("flx", "PEPE"), FALSE, 20000, 0),
     Order(Plain("NOPE"), TRUE, 10000, 1000)}

MCCoinArgs == {Friendly("HYPE", "Yes"), Plain("NOPE")}
MCTokenPair == << "USDH", "USDC" >>
===============================================================================
