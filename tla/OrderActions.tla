------------------------------ MODULE OrderActions ------------------------------
(***************************************************************************)
(* From what the application asks for to the orders, cancels and changes   *)
(* of an action: the checks of validate on coins and numbers, the price of *)
(* a market order, and the look-ups and roundings of the action builders.  *)
(*                                                                         *)
(* A builder yields the set of actions that the roundings allow.           *)
(***************************************************************************)
EXTENDS AssetRegistry, WireNumbers, SignedActions

Decimals(asset) == IF asset \in DOMAIN assetToDecimal THEN {assetToDecimal[asset]} ELSE {}

Within(x, y, d) == x - y <= d /\ y - x <= d

-------------------------------------------------------------------------------
(***************************************************************************)
(* Numbers of an asset.                                                    *)
(***************************************************************************)
AllowedDecimals(asset) ==
    LET d == MaxPriceDecimals(ClassifyAsset(asset)) - SzDecimals(asset)
    IN  IF d < 0 THEN 0 ELSE d

\* Asset: MinSize of a coin, which may be unknown.
MinSize(coin) == DecimalStep(SzDecimals(AssetID(coin)))

sizeToWireWithAsset(x, asset) ==
    IF Decimals(asset) = {} THEN SizeToWire(x) ELSE SizeToWireDecimals(x, SzDecimals(asset))

PriceToWire(x, asset) ==
    IF Decimals(asset) = {} THEN FloatToWire(x)
    ELSE PriceToWireDecimals(x, AllowedDecimals(asset))

FormatPriceToTickSize(price, asset) ==
    UNION {Nearest(x, DecimalStep(AllowedDecimals(asset))) :
              x \in RoundToSignificantFigures(price, 5)}

\* getAssetTickSize: by the number of the asset, not by its decimals.
getAssetTickSize(asset) ==
    CASE asset = 0                      -> DecimalStep(1)
      [] asset > 0 /\ asset < spotAssetIndexOffset -> DecimalStep(2)
      [] OTHER                          -> DecimalStep(4)

\* formatPriceToTickSize, then validateAndAdjustPrice.
Adjusted(price, asset) ==
    UNION {Nearest(x, getAssetTickSize(asset)) : x \in FormatPriceToTickSize(price, asset)}

\* SlippagePrice before it is rounded; slippage in percent.
Worst(coin, buy, slippage, mid) ==
    LET price == (mid * (IF buy THEN 100 + slippage ELSE 100 - slippage)) \div 100
        least == One \div 10000
        most  == One - least
    IN  IF ClassifyAsset(AssetID(coin)) # "outcome" THEN price
        ELSE IF price > most THEN most
        ELSE IF price < least THEN least ELSE price

SlippagePrice(coin, buy, slippage, mid) ==
    Adjusted(Worst(coin, buy, slippage, mid), AssetID(coin))

\* The exchange quotes coins, not the friendly names of outcomes.
Quoted(name) == name \in DOMAIN nameToCoin => nameToCoin[name] = name

-------------------------------------------------------------------------------
(***************************************************************************)
(* Orders.  An order asks for a size of a coin at a price, 0 for none.     *)
(***************************************************************************)
validateSignificantFigures(px) == RoundToSignificantFigures(px, 5) = {px}

\* Mutant: the coin is not looked up.
Valid_AnyCoin(o, needsPrice) ==
    /\ o.size >= MinSize(o.coin) /\ o.size % MinSize(o.coin) = 0
    /\ needsPrice => o.price > 0
    /\ o.price > 0 => validateSignificantFigures(o.price)

Valid(o, needsPrice) ==
    /\ Known(o.coin)
    /\ o.size >= MinSize(o.coin) /\ o.size % MinSize(o.coin) = 0
    /\ needsPrice => o.price > 0
    /\ o.price > 0 => validateSignificantFigures(o.price)

\* The wires of an order.
OrderWires(o) ==
    LET asset == AssetID(o.coin)
    IN  {[a |-> asset, b |-> o.buy, p |-> p, s |-> s] :
            p \in PriceToWire(o.price, asset), s \in sizeToWireWithAsset(o.size, asset)}

newCreateOrderAction(own, o) ==
    {L1("order", [orders |-> << w >>], own, "shown") : w \in OrderWires(o)}

\* The coin of a blank spec.  Nothing is listed without a name.
Blank == <<"", "", "", "", "", 0>>

ASSUME BlankAssumption ==
    \A u \in Universes : /\ \A i \in DOMAIN u.perps : u.perps[i].name # Blank
                         /\ \A i \in DOMAIN u.spots : u.spots[i].name # Blank

\* doModify: the coin, side, price and size are those of a blank spec but for the
\* options given, 0 when they are not; no rule looks at the coin.  An envelope that was
\* refused is an error, an order that was refused a result.
newModifyOrderAction(own, oid, price, size) ==
    {L1("modify", [oid |-> oid, order |-> w], own, "either") :
        w \in OrderWires([coin |-> Blank, buy |-> FALSE, price |-> price, size |-> size])}

\* Mutant: a refused cancel passes for a cancelled order.
bulkCancel_Idempotent(own, coin, oid) ==
    L1("cancel", [cancels |-> << [a |-> AssetID(coin), o |-> oid] >>], own, "lost")

bulkCancel(own, coin, oid) ==
    L1("cancel", [cancels |-> << [a |-> AssetID(coin), o |-> oid] >>], own, "raised")

CancelByCloid(own, coin, cloid) ==
    L1("cancelByCloid", [cancels |-> << [asset |-> AssetID(coin), cloid |-> cloid] >>],
       own, "raised")

-------------------------------------------------------------------------------
(***************************************************************************)
(* Conversions of spot tokens.                                             *)
(***************************************************************************)
\* findSpotPair: the first pair of the two tokens, found by the index they carry.
TokenIndex(u, token) ==
    LET named == {t \in DOMAIN u.tokens : u.tokens[t].name = token}
    IN  {u.tokens[t].index : t \in {t \in named : \A v \in named : v <= t}}

Pairs(u, base, quote) ==
    {i \in DOMAIN u.spots : /\ u.spots[i].base \in TokenIndex(u, base)
                            /\ u.spots[i].quote \in TokenIndex(u, quote)}

findSpotPair(u, base, quote) ==
    {u.spots[i].name : i \in {i \in Pairs(u, base, quote) :
                                  \A j \in Pairs(u, base, quote) : i <= j}}

\* snapSpotSize of num/den units: whole steps, at least one.  The quotient of floats that
\* should be whole may come out just below.
snapSpotSize(pair, num, den) ==
    LET step  == MinSize(pair)
        whole == num \div (den * step)
        steps == IF num % (den * step) = 0 THEN {whole, whole - 1} ELSE {whole}
    IN  {n * step : n \in {n \in steps : n >= 1}}

\* convertSpot: the size that an amount of quote buys at mid.
BuySizes(pair, quoteAmount, mid) == snapSpotSize(pair, quoteAmount * One, mid)

\* convertSpotSize: the size that an amount of base is sold in.
SellSizes(pair, baseAmount) == snapSpotSize(pair, baseAmount, 1)
===============================================================================
