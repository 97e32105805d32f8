------------------------- MODULE ActionPipeline_proofs -------------------------
(***************************************************************************)
(* Proofs about ActionPipeline, for any number of calls, whatever /info    *)
(* lists and whatever the orders, amounts and deadlines.                   *)
(*                                                                         *)
(* All that is asked of a verb is Formed and Intended: that its schema is  *)
(* the fields it sends, that its asset comes from the tables and that its  *)
(* numbers are those asked for, but for rounding.  The rest is an          *)
(* invariant of each call (CallInv) and one of the exchange's nonces       *)
(* (NonceInv).                                                             *)
(***************************************************************************)
EXTENDS ActionPipeline, AssetRegistry_proofs

\* What the builders of actions have in common.
FormedL1(a) ==
    /\ a.scheme = "L1" /\ a.type \notin userSignedActionTypes
    /\ a.type = "updateLeverage" \/ a.reply \in {"shown", "raised", "either"}

FormedUser(a) ==
    /\ a.scheme = "user" /\ a.type \in userSignedActionTypes
    /\ "signatureChainId" \notin a.signs
    /\ a.signs = DOMAIN a.fields \cup {a.stamp, "hyperliquidChain"}
    /\ a.reply \in {"shown", "raised"}

Formed(a) == FormedL1(a) \/ FormedUser(a)

\* ActionsHitTheirCoin, of one call.
Targeted(w, a) ==
    w # None =>
        \/ w.kind # "modify" /\ Means(w.coin, ActionAsset(a))
        \/ /\ \/ w.kind = "other" /\ w.coin \notin DOMAIN nameToCoin
              \/ w.kind = "modify"
           /\ ActionAsset(a) = 0

\* NumbersArrive, of one call.
Priced(w, a) == w # None /\ a.type = "order" => NumberArrives(a.fields.orders[1], w)

Intended(w, a) == Targeted(w, a) /\ Priced(w, a)

\* What the call has signed and sent.
Sent(g) ==
    \E deadline \in Deadlines :
        envelope[g] =
            [type |-> action[g].type, fields |-> Posted(action[g], nonce[g]), nonce |-> nonce[g],
             vaultAddress |-> VaultAddress(action[g].type, vault),
             signature |-> Signature(action[g], nonce[g], deadline)]

Stamped(g) ==
    IF pc[g] \in {"idle", "stamp"} THEN stamped[g] = None /\ nonce[g] = None
    ELSE stamped[g] \in 0..now /\ nonce[g] = UnixMilli(stamped[g])

CallInv(g) ==
    /\ pc[g] # "idle" => Made /\ Formed(action[g])
    /\ IF pc[g] = "idle" THEN want[g] = None ELSE Intended(want[g], action[g])
    /\ Stamped(g)
    /\ pc[g] \in {"post", "answer"} => Sent(g)
    /\ verdict[g] # "none" => pc[g] \in {"answer", "done"}
    /\ pc[g] = "answer" => verdict[g] # "none"
    /\ result[g] # "none" <=> pc[g] = "done"
    /\ verdict[g] # "none" =>
           (verdict[g] = "forged" <=>
               /\ action[g].scheme = "L1"
               /\ action[g].vault # vault \/ envelope[g].signature[6] # None)
    /\ result[g] = "ok" => verdict[g] = "taken" \/ action[g].type = "updateLeverage"
    /\ result[g] = "refused" => verdict[g] \notin {"none", "taken"}

Accepted(g) == verdict[g] \in {"taken", "declined"}

NonceInv == used \subseteq {nonce[g] : g \in {g \in Calls : Accepted(g)}}

Arrays ==
    /\ DOMAIN action = Calls /\ DOMAIN want = Calls /\ DOMAIN stamped = Calls
    /\ DOMAIN nonce = Calls /\ DOMAIN envelope = Calls
    /\ pc \in [Calls -> {"idle", "stamp", "sign", "post", "answer", "done"}]
    /\ verdict \in [Calls -> {"none", "forged", "stale", "taken", "declined"}]
    /\ result \in [Calls -> {"none", "ok", "refused", "error"}]
    /\ roster \in Rosters /\ vault \in Vaults /\ expiresAfter \in Deadlines
    /\ now \in 0..MaxClock /\ used \subseteq Nat

PipelineInv ==
    RegistryInv /\ Arrays /\ NonceInv /\ NonceRefusal /\ \A g \in Calls : CallInv(g)

-------------------------------------------------------------------------------
(***************************************************************************)
(* Roundings.                                                              *)
(***************************************************************************)
\* Powers of ten.
LEMMA TenIs ==
  /\ \A n \in Nat : Ten[n] \in Nat \ {0} /\ Ten[n] > n /\ Ten[n + 1] = 10 * Ten[n]
  /\ Ten[0] = 1
  <1>1. \A n \in Nat : Power(10)[n] \in Nat /\ Power(10)[n] > n /\ Power(10)[n + 1] = 10 * Power(10)[n]
    BY PowerGrows, PowerIs
  <1>2. Power(10)[0] = 1
    BY PowerIs
  <1> QED BY <1>1, <1>2 DEF Ten

\* Steps are at least one unit.
LEMMA StepIs ==
  /\ One \in Nat \ {0} /\ One = DecimalStep(0)
  /\ \A d \in Nat : DecimalStep(d) \in Nat \ {0}
  <1>1. Places \in 1..6
    BY PlacesAssumption
  <1>2. \A d \in Nat : d >= Places \/ Places - d \in Nat
    BY <1>1
  <1> QED BY <1>1, <1>2, TenIs DEF One, DecimalStep

\* A step is a multiple of every finer one.
LEMMA StepDivides ==
  ASSUME NEW d \in Nat, NEW e \in Nat, d <= e
  PROVE  \E q \in Nat \ {0} : DecimalStep(d) = DecimalStep(e) * q
  <1>1. Places \in 1..6
    BY PlacesAssumption
  <1>2. CASE e >= Places
    <2>1. DecimalStep(e) = 1 /\ DecimalStep(d) \in Nat \ {0}
      BY <1>2, StepIs DEF DecimalStep
    <2> QED BY <2>1
  <1>3. CASE ~(e >= Places)
    <2>1. Places - e \in Nat /\ Places - d \in Nat /\ Places - e <= Places - d /\ ~(d >= Places)
      BY <1>1, <1>3
    <2>2. \E q \in Nat \ {0} : Power(10)[Places - d] = Power(10)[Places - e] * q
      BY <2>1, PowerDivides
    <2> QED BY <1>3, <2>1, <2>2 DEF DecimalStep, Ten
  <1> QED BY <1>2, <1>3

\* A number has a last of its significant figures.
LEMMA FigureIs ==
  ASSUME NEW x \in Nat, NEW n \in Nat
  PROVE  FigureStep(x, n) \in Nat \ {0}
  <1> SUFFICES ASSUME x # 0 PROVE FigureStep(x, n) \in Nat \ {0}
    BY DEF FigureStep
  <1> DEFINE digits == CHOOSE e \in 0..x : x <= Ten[e] /\ (e > 0 => x > Ten[e - 1])
             S == {e \in Nat : x <= Ten[e]}
  <1>1. x \in S
    BY TenIs
  <1>2. PICK e \in S : \A f \in S : e <= f
    BY <1>1, MinExists
  <1>3. e \in 0..x /\ x <= Ten[e]
    BY <1>1, <1>2
  <1>4. ASSUME e > 0 PROVE x > Ten[e - 1]
    <2>1. e - 1 \in Nat /\ ~(e <= e - 1)
      BY <1>3, <1>4
    <2>2. ~(x <= Ten[e - 1]) /\ Ten[e - 1] \in Nat
      BY <1>2, <2>1, TenIs
    <2> QED BY <2>2
  <1> HIDE DEF S
  <1>5. \E k \in 0..x : x <= Ten[k] /\ (k > 0 => x > Ten[k - 1])
    BY <1>3, <1>4
  <1>6. digits \in 0..x
    BY <1>5
  <1>7. FigureStep(x, n) = IF digits > n THEN Ten[digits - n] ELSE 1
    BY DEF FigureStep
  <1> HIDE DEF digits
  <1>8. digits > n => digits - n \in Nat
    BY <1>6
  <1> QED BY <1>7, <1>8, TenIs

\* A rounded number is a multiple of the step, half a step away at most.
LEMMA NearestIs ==
  ASSUME NEW x \in Nat, NEW step \in Nat \ {0}, NEW y \in Nearest(x, step)
  PROVE  /\ y \in Nat /\ 2 * x - 2 * y <= step /\ 2 * y - 2 * x <= step
         /\ \E m \in Nat : y = step * m
  <1> DEFINE q == x \div step
             b == step * q
             r == x % step
  <1>1. q \in Nat /\ r \in 0..(step - 1) /\ b \in Nat /\ x = b + r
    BY DivIs
  <1>2. \/ y = b /\ ~(2 * (x - b) > step)
        \/ y = b + step /\ ~(2 * (x - b) < step)
    <2> DEFINE e == 2 * (x - b)
    <2>1. Nearest(x, step) = CASE e < step -> {b} [] e > step -> {b + step} [] OTHER -> {b, b + step}
      BY DEF Nearest
    <2>2. e \in Int
      BY <1>1
    <2> HIDE DEF b, e
    <2>3. CASE e < step
      BY <2>1, <2>2, <2>3 DEF e
    <2>4. CASE e > step
      BY <2>1, <2>2, <2>4 DEF e
    <2>5. CASE ~(e < step) /\ ~(e > step)
      BY <2>1, <2>2, <2>5 DEF e
    <2> QED BY <2>3, <2>4, <2>5
  <1>3. b = step * q /\ b + step = step * (q + 1) /\ q + 1 \in Nat
    BY <1>1
  <1> HIDE DEF q, b, r
  <1>4. \E m \in Nat : y = step * m
    BY <1>1, <1>2, <1>3
  <1> QED BY <1>1, <1>2, <1>4

\* A multiple of the step stays what it is.
LEMMA NearestExact ==
  ASSUME NEW m \in Nat, NEW step \in Nat \ {0}
  PROVE  Nearest(step * m, step) = {step * m}
  <1> DEFINE x == step * m
  <1>1. x = step * m + 0 /\ 0 \in 0..(step - 1) /\ x \in Nat
    OBVIOUS
  <1>2. x \div step = m
    BY <1>1, DivUnique
  <1>3. step * (x \div step) = x
    BY <1>2
  <1> HIDE DEF x
  <1>4. 2 * (x - x) < step
    BY <1>1
  <1>5. Nearest(x, step) = {x}
    <2> DEFINE b == step * (x \div step)
    <2>1. Nearest(x, step) = CASE 2 * (x - b) < step -> {b}
                               [] 2 * (x - b) > step -> {b + step}
                               [] OTHER              -> {b, b + step}
      BY DEF Nearest
    <2>2. b = x
      BY <1>3
    <2> HIDE DEF b
    <2> QED BY <1>1, <1>4, <2>1, <2>2, SMTT(30)
  <1> QED BY <1>5 DEF x

\* A number that is written with decimals keeps its zeros.
LEMMA TrimDecimals == ASSUME NEW x, NEW d \in Nat \ {0} PROVE Trim(x, d) = x
  BY DEF Trim

\* A whole number that is written without decimals keeps its value unless it is one of
\* tens; otherwise a tenth of it is left, or less.
LEMMA TrimWhole ==
  ASSUME NEW n \in Nat \ {0}, NEW x \in Nat, x = One * n
  PROVE  /\ Trim(x, 0) \in Nat
         /\ Trim(x, 0) = x <=> x % (10 * One) # 0
         /\ Trim(x, 0) # x => 10 * Trim(x, 0) <= x
  <1> DEFINE zeros == CHOOSE k \in 0..(x \div One) : /\ (x \div One) % Ten[k] = 0
                                                     /\ (x \div One) % Ten[k + 1] # 0
             t     == Trim(x, 0)
  <1> PICK c \in Nat \ {0} : c = One
    BY StepIs
  <1>1. x \div One = n /\ x # 0
    <2>1. x = c * n + 0 /\ 0 \in 0..(c - 1)
      OBVIOUS
    <2>2. x # 0
      <3>1. c * 1 <= c * n
        BY TimesMonotonic
      <3> QED BY <3>1
    <2> QED BY <2>1, <2>2, DivUnique
  <1>2. t = (n \div Ten[zeros]) * c
    <2>1. t = ((x \div One) \div Ten[zeros]) * One
      BY <1>1 DEF Trim
    <2> HIDE DEF t, zeros
    <2> QED BY <1>1, <2>1
  <1>3. \E k \in 0..n : n % Ten[k] = 0 /\ n % Ten[k + 1] # 0
    <2> DEFINE S == {k \in Nat : n % Ten[k + 1] # 0}
    <2>1. n \in S
      <3>1. Ten[n + 1] \in Nat \ {0} /\ Ten[n + 1] > n
        BY TenIs
      <3>2. n = Ten[n + 1] * 0 + n /\ n \in 0..(Ten[n + 1] - 1)
        BY <3>1
      <3>3. n % Ten[n + 1] = n
        BY <3>1, <3>2, DivUnique
      <3> QED BY <3>3
    <2>2. PICK k \in S : \A l \in S : k <= l
      BY <2>1, MinExists
    <2>3. k \in 0..n /\ n % Ten[k + 1] # 0
      BY <2>1, <2>2
    <2>4. CASE k = 0
      BY <2>3, <2>4, TenIs
    <2>5. CASE k # 0
      <3>1. k - 1 \in Nat /\ ~(k <= k - 1) /\ (k - 1) + 1 = k
        BY <2>3, <2>5
      <3>2. n % Ten[(k - 1) + 1] = 0
        BY <2>2, <3>1
      <3> QED BY <2>3, <3>1, <3>2
    <2> QED BY <2>4, <2>5
  <1>4. zeros \in 0..n /\ n % Ten[zeros] = 0 /\ n % Ten[zeros + 1] # 0
    <2>1. \E k \in 0..(x \div One) : /\ (x \div One) % Ten[k] = 0
                                     /\ (x \div One) % Ten[k + 1] # 0
      BY <1>1, <1>3
    <2>2. zeros \in 0..(x \div One) /\ (x \div One) % Ten[zeros] = 0
          /\ (x \div One) % Ten[zeros + 1] # 0
      BY <2>1
    <2> HIDE DEF zeros
    <2> QED BY <1>1, <2>2
  <1> HIDE DEF zeros, t
  <1> DEFINE p == Ten[zeros]
             m == n \div p
  <1>5. p \in Nat \ {0} /\ m \in Nat /\ n = p * m
    <2>1. p \in Nat \ {0} /\ n % p = 0
      BY <1>4, TenIs
    <2> HIDE DEF p
    <2> QED BY <2>1, DivIs
  <1>6. t = m * c
    BY <1>2
  <1>7. x % (10 * One) = c * (n % 10)
    <2>1. (c * n) % (c * 10) = c * (n % 10)
      <3>1. 10 \in Nat \ {0} /\ n \in Nat
        OBVIOUS
      <3> QED BY <3>1, RestTimes, Zenon
    <2>2. c * 10 = 10 * One /\ c * n = x
      OBVIOUS
    <2> QED BY <2>1, <2>2, Zenon
  <1>8. CASE zeros = 0
    <2>1. m = n /\ n % 10 # 0
      BY <1>4, <1>8, TenIs
    <2>2. t = x
      BY <1>6, <2>1
    <2>3. c * 1 <= c * (n % 10)
      BY <2>1, TimesMonotonic
    <2> QED BY <1>7, <2>2, <2>3 DEF t
  <1>9. CASE zeros # 0
    <2> DEFINE o == Ten[zeros - 1]
    <2>1. o \in Nat \ {0} /\ p = 10 * o
      <3>1. zeros - 1 \in Nat /\ (zeros - 1) + 1 = zeros
        BY <1>4, <1>9
      <3> QED BY <3>1, TenIs
    <2> HIDE DEF o, p, m
    <2>2. n = 10 * (o * m) /\ o * m \in Nat
      BY <1>5, <2>1
    <2>3. n % 10 = 0
      BY <2>2
    <2>4. 10 * t <= x
      <3>1. m * 1 <= m * o
        BY <1>5, <2>1, TimesMonotonic
      <3>2. m <= o * m
        BY <1>5, <2>1, <3>1
      <3>3. (10 * c) * m <= (10 * c) * (o * m)
        BY <1>5, <2>2, <3>2, TimesMonotonic
      <3> QED BY <1>5, <1>6, <2>2, <3>3
    <2>5. t \in Nat
      BY <1>5, <1>6
    <2>6. t # x
      BY <1>1, <2>4, <2>5
    <2> QED BY <1>7, <2>3, <2>4, <2>5, <2>6 DEF t
  <1> QED BY <1>8, <1>9

-------------------------------------------------------------------------------
(***************************************************************************)
(* The numbers of orders.                                                  *)
(***************************************************************************)
\* The numbers of an asset; its tick is a power of ten.
LEMMA AssetNumbers ==
  ASSUME RegistryTypeOK, NEW asset
  PROVE  /\ SzDecimals(asset) \in Nat /\ AllowedDecimals(asset) \in Nat
         /\ Decimals(asset) = {} => SzDecimals(asset) = 0
         /\ Decimals(asset) # {} => Decimals(asset) = {SzDecimals(asset)}
         /\ \E c \in Nat : getAssetTickSize(asset) = DecimalStep(c)
  <1>1. /\ SzDecimals(asset) \in Nat
        /\ Decimals(asset) = {} => SzDecimals(asset) = 0
        /\ Decimals(asset) # {} => Decimals(asset) = {SzDecimals(asset)}
    BY DEF RegistryTypeOK, SzDecimals, Decimals
  <1>2. AllowedDecimals(asset) \in Nat
    <2>1. MaxPriceDecimals(ClassifyAsset(asset)) \in Nat
      BY DEF MaxPriceDecimals
    <2> QED BY <1>1, <2>1 DEF AllowedDecimals
  <1>3. \E c \in Nat : getAssetTickSize(asset) = DecimalStep(c)
    <2>1. \/ getAssetTickSize(asset) = DecimalStep(1)
          \/ getAssetTickSize(asset) = DecimalStep(2)
          \/ getAssetTickSize(asset) = DecimalStep(4)
      BY DEF getAssetTickSize
    <2> QED BY <2>1
  <1> QED BY <1>1, <1>2, <1>3

\* A number that its decimals hold is printed as it is, but for zeros.
LEMMA PrintedExact ==
  ASSUME NEW d \in Nat, NEW m \in Nat
  PROVE  Printed(DecimalStep(d) * m, d) = {Trim(DecimalStep(d) * m, d)}
  <1>1. Nearest(DecimalStep(d) * m, DecimalStep(d)) = {DecimalStep(d) * m}
    BY StepIs, NearestExact, Zenon
  <1> QED BY <1>1 DEF Printed

\* A size of whole lots is sent as it is unless it is shortened, and then it is smaller.
LEMMA SizeOf ==
  ASSUME RegistryTypeOK, NEW asset, NEW size \in Nat,
         size >= DecimalStep(SzDecimals(asset)), size % DecimalStep(SzDecimals(asset)) = 0,
         NEW s \in sizeToWireWithAsset(size, asset)
  PROVE  s \in Nat /\ s <= size /\ (s = size <=> ~Shortened(size, asset))
  <1> DEFINE d    == SzDecimals(asset)
             step == DecimalStep(d)
             k    == size \div step
  <1>1. d \in Nat /\ step \in Nat \ {0}
    BY AssetNumbers, StepIs
  <1>2. k \in Nat /\ size = step * k /\ size >= step
    <2>1. size >= step /\ size % step = 0
      OBVIOUS
    <2> HIDE DEF step
    <2>2. k \in Nat /\ step * k \in Nat /\ size = step * k + (size % step)
      BY <1>1, DivIs, Zenon
    <2> HIDE DEF k
    <2> QED BY <2>1, <2>2
  <1>3. CASE Decimals(asset) = {}
    <2>1. d = 0 /\ s \in Printed(size, 3)
      BY <1>3, AssetNumbers DEF sizeToWireWithAsset, SizeToWire
    <2>2. PICK q \in Nat \ {0} : DecimalStep(0) = DecimalStep(3) * q
      BY StepDivides
    <2>3. q * k \in Nat /\ size = DecimalStep(3) * (q * k)
      <3>1. DecimalStep(3) \in Nat
        BY StepIs
      <3>2. size = (DecimalStep(3) * q) * k
        BY <1>2, <2>1, <2>2, Zenon
      <3> HIDE DEF k
      <3> QED BY <1>2, <3>1, <3>2
    <2>4. Printed(size, 3) = {Trim(size, 3)}
      BY <2>3, PrintedExact
    <2> QED BY <1>3, <2>1, <2>4, TrimDecimals DEF Shortened
  <1>4. CASE Decimals(asset) # {} /\ d # 0
    <2>1. s \in Printed(size, d) /\ Decimals(asset) = {d}
      BY <1>4, AssetNumbers DEF sizeToWireWithAsset, SizeToWireDecimals
    <2>2. Printed(size, d) = {Trim(size, d)}
      <3> HIDE DEF d, k
      <3> QED BY <1>1, <1>2, PrintedExact
    <2> QED BY <1>1, <1>4, <2>1, <2>2, TrimDecimals DEF Shortened
  <1>5. CASE Decimals(asset) # {} /\ d = 0
    <2>1. s \in Printed(size, 0) /\ Decimals(asset) = {0}
      BY <1>5, AssetNumbers DEF sizeToWireWithAsset, SizeToWireDecimals
    <2>2. step = One
      BY <1>5, StepIs
    <2>3. k # 0 /\ size = One * k
      <3> HIDE DEF step, k
      <3> QED BY <1>1, <1>2, <2>2
    <2>4. Printed(size, 0) = {Trim(size, 0)}
      <3> HIDE DEF k
      <3> QED BY <1>2, <2>3, StepIs, PrintedExact
    <2>5. s = Trim(size, 0)
      BY <2>1, <2>4
    <2> HIDE DEF k
    <2> QED BY <1>2, <2>1, <2>3, <2>5, TrimWhole DEF Shortened
  <1> QED BY <1>3, <1>4, <1>5

\* p is y but for the zeros that a whole price may lose.
Cut(p, y, asset) ==
    \/ p = y
    \/ Whole(asset) /\ (p = NoNumber \/ (p \in Nat /\ 10 * p <= y))

\* A price that validate takes is rounded once, to the decimals of its asset.
LEMMA PriceOf ==
  ASSUME RegistryTypeOK, NEW asset, NEW price \in Nat,
         price > 0 => validateSignificantFigures(price), NEW p \in PriceToWire(price, asset)
  PROVE  /\ price = 0 => p = IF Whole(asset) THEN NoNumber ELSE 0
         /\ \E y : /\ Cut(p, y, asset)
                   /\ y = price \/ y \in Nearest(price, DecimalStep(AllowedDecimals(asset)))
  <1> DEFINE d    == AllowedDecimals(asset)
             step == DecimalStep(d)
  <1>1. d \in Nat /\ step \in Nat \ {0} /\ 0 = step * 0
    BY AssetNumbers, StepIs
  <1>2. CASE Decimals(asset) = {}
    <2>1. p = price
      BY <1>2 DEF PriceToWire, FloatToWire
    <2> QED BY <1>2, <2>1 DEF Cut, Whole
  <1>3. CASE Decimals(asset) # {}
    <2>1. RoundToSignificantFigures(price, 5) = {price}
      <3>1. CASE price > 0
        BY <3>1 DEF validateSignificantFigures
      <3>2. CASE price = 0
        <4>1. FigureStep(0, 5) = 1 /\ 1 * 0 = 0 /\ 1 \in Nat \ {0} /\ 0 \in Nat
          BY DEF FigureStep
        <4>2. Nearest(1 * 0, 1) = {1 * 0}
          BY <4>1, NearestExact, Zenon
        <4> QED BY <3>2, <4>1, <4>2 DEF RoundToSignificantFigures
      <3> QED BY <3>1, <3>2
    <2>2. p \in Printed(price, d)
      <3>1. p \in PriceToWireDecimals(price, d) /\ ~(d < 0)
        BY <1>1, <1>3 DEF PriceToWire
      <3> QED BY <2>1, <3>1 DEF PriceToWireDecimals
    <2>3. PICK y \in Nearest(price, step) : p = Trim(y, d)
      BY <2>2 DEF Printed
    <2>4. y \in Nat /\ \E m \in Nat : y = step * m
      <3> HIDE DEF step
      <3> QED BY <1>1, NearestIs
    <2>5. price = 0 => y = 0
      <3>1. Nearest(step * 0, step) = {step * 0}
        <4>1. 0 \in Nat
          OBVIOUS
        <4> QED BY <1>1, <4>1, NearestExact, Zenon
      <3> HIDE DEF step
      <3> QED BY <1>1, <3>1
    <2>6. CASE d # 0
      BY <1>1, <2>3, <2>5, <2>6, TrimDecimals DEF Cut, Whole
    <2>7. CASE d = 0
      <3>1. Whole(asset) /\ step = One
        BY <1>3, <2>7, StepIs DEF Whole
      <3>2. y = 0 => p = NoNumber
        BY <2>3, <2>7 DEF Trim
      <3>3. ASSUME y # 0 PROVE p = y \/ (p \in Nat /\ 10 * p <= y)
        <4>1. PICK m \in Nat : y = One * m
          BY <2>4, <3>1
        <4>2. m # 0
          BY <3>3, <4>1, StepIs
        <4> QED BY <2>3, <2>4, <2>7, <4>1, <4>2, TrimWhole
      <3> QED BY <2>3, <2>5, <3>1, <3>2, <3>3 DEF Cut
    <2> QED BY <2>6, <2>7
  <1> QED BY <1>2, <1>3

\* Half a step from the price asked for, if no zeros are lost.
LEMMA CutArrives ==
  ASSUME NEW asset, NEW price \in Nat, NEW err \in Nat, NEW y \in Nat,
         2 * price - 2 * y <= err, 2 * y - 2 * price <= err, NEW p, Cut(p, y, asset)
  PROVE  Arrives(p, price, err, asset)
  <1>1. CASE p = y
    <2>1. p # NoNumber
      BY <1>1, PlacesAssumption
    <2> QED BY <1>1, <2>1 DEF Arrives, Within
  <1>2. CASE Whole(asset) /\ p = NoNumber
    BY <1>2 DEF Arrives
  <1>3. CASE Whole(asset) /\ p \in Nat /\ 10 * p <= y
    <2>1. 20 * p <= 2 * price + err
      BY <1>3
    <2> QED BY <1>3, <2>1 DEF Arrives
  <1> QED BY <1>1, <1>2, <1>3 DEF Cut

\* The three roundings of a market price; the decimals of the asset hold what is left.
LEMMA AdjustedIs ==
  ASSUME RegistryTypeOK, NEW asset, NEW price \in Nat, NEW x \in Adjusted(price, asset)
  PROVE  LET err == FigureStep(price, 5) + DecimalStep(AllowedDecimals(asset))
                    + getAssetTickSize(asset)
         IN  /\ x \in Nat /\ err \in Nat
             /\ 2 * price - 2 * x <= err /\ 2 * x - 2 * price <= err
             /\ \E m \in Nat : x = DecimalStep(AllowedDecimals(asset)) * m
  <1> DEFINE f == FigureStep(price, 5)
             d == AllowedDecimals(asset)
             a == DecimalStep(d)
             t == getAssetTickSize(asset)
  <1>1. PICK c \in Nat : t = DecimalStep(c)
    BY AssetNumbers
  <1>2. d \in Nat
    BY AssetNumbers
  <1>3. f \in Nat \ {0} /\ a \in Nat \ {0} /\ t \in Nat \ {0}
    BY <1>1, <1>2, FigureIs, StepIs
  <1> PICK y \in Nearest(price, f) : \E z \in Nearest(y, a) : x \in Nearest(z, t)
    BY DEF Adjusted, FormatPriceToTickSize, RoundToSignificantFigures
  <1>4. PICK z \in Nearest(y, a) : x \in Nearest(z, t)
    OBVIOUS
  <1> HIDE DEF f, a, t, d
  <1>5. y \in Nat /\ 2 * price - 2 * y <= f /\ 2 * y - 2 * price <= f
    BY <1>3, <1>4, NearestIs
  <1>6. z \in Nat /\ 2 * y - 2 * z <= a /\ 2 * z - 2 * y <= a
    BY <1>3, <1>4, <1>5, NearestIs
  <1>7. x \in Nat /\ 2 * z - 2 * x <= t /\ 2 * x - 2 * z <= t
    BY <1>3, <1>4, <1>6, NearestIs
  <1>8. \E m \in Nat : x = a * m
    <2>1. PICK k \in Nat : z = a * k
      BY <1>3, <1>4, <1>5, NearestIs, ZenonT(40)
    <2>2. CASE c <= d
      <3>1. PICK q \in Nat \ {0} : t = a * q
        BY <1>1, <1>2, <2>2, StepDivides DEF a
      <3>2. PICK l \in Nat : x = t * l
        BY <1>3, <1>4, <1>6, NearestIs, ZenonT(60)
      <3>3. x = a * (q * l) /\ q * l \in Nat
        BY <1>3, <3>1, <3>2
      <3> QED BY <3>3
    <2>3. CASE d <= c
      <3>1. PICK q \in Nat \ {0} : a = t * q
        BY <1>1, <1>2, <2>3, StepDivides DEF a
      <3>2. z = t * (q * k) /\ q * k \in Nat
        BY <1>3, <2>1, <3>1
      <3>3. Nearest(t * (q * k), t) = {t * (q * k)}
        BY <1>3, <3>2, NearestExact, Zenon
      <3>4. x = z
        BY <1>4, <3>2, <3>3, Zenon
      <3> QED BY <2>1, <3>4
    <2> QED BY <1>2, <2>2, <2>3
  <1>9. /\ f + a + t \in Nat
        /\ 2 * price - 2 * x <= f + a + t /\ 2 * x - 2 * price <= f + a + t
    BY <1>3, <1>5, <1>6, <1>7
  <1> QED BY <1>7, <1>8, <1>9 DEF f, a, t, d

\* What is on the wire of an order that validate takes.
LEMMA WireIs ==
  ASSUME RegistryTypeOK, NEW o, o.size \in Nat, o.price \in Nat, NEW needsPrice,
         Valid(o, needsPrice), NEW wire \in OrderWires(o)
  PROVE  /\ wire.s \in Nat /\ wire.s <= o.size
         /\ wire.s = o.size <=> ~Shortened(o.size, wire.a)
         /\ o.price = 0 => wire.p = IF Whole(wire.a) THEN NoNumber ELSE 0
         /\ wire.a = AssetID(o.coin)
         /\ \E y : /\ Cut(wire.p, y, wire.a)
                   /\ \/ y = o.price
                      \/ y \in Nearest(o.price, DecimalStep(AllowedDecimals(wire.a)))
  <1> PICK asset : asset = AssetID(o.coin)
    OBVIOUS
  <1> PICK size \in Nat : size = o.size
    OBVIOUS
  <1> PICK price \in Nat : price = o.price
    OBVIOUS
  <1>1. /\ wire.a = asset /\ wire.p \in PriceToWire(price, asset)
        /\ wire.s \in sizeToWireWithAsset(size, asset)
    BY DEF OrderWires
  <1>2. /\ size >= DecimalStep(SzDecimals(asset)) /\ size % DecimalStep(SzDecimals(asset)) = 0
        /\ price > 0 => validateSignificantFigures(price)
    BY DEF Valid, MinSize
  <1>3. wire.s \in Nat /\ wire.s <= size /\ (wire.s = size <=> ~Shortened(size, asset))
    BY <1>1, <1>2, SizeOf
  <1>4. /\ price = 0 => wire.p = IF Whole(asset) THEN NoNumber ELSE 0
        /\ \E y : /\ Cut(wire.p, y, asset)
                  /\ y = price \/ y \in Nearest(price, DecimalStep(AllowedDecimals(asset)))
    BY <1>1, <1>2, PriceOf
  <1> QED BY <1>1, <1>3, <1>4, Zenon

\* A limit order.
LEMMA LimitArrives ==
  ASSUME RegistryTypeOK, NEW o \in OrderArgs, Valid(o, TRUE), NEW wire \in OrderWires(o)
  PROVE  NumberArrives(wire, Wanted("limit", o.coin, o.size, o.price))
  <1> DEFINE w == Wanted("limit", o.coin, o.size, o.price)
  <1> PICK price \in Nat : price = o.price
    BY NumbersAssumption
  <1> PICK step \in Nat \ {0} : step = DecimalStep(AllowedDecimals(wire.a))
    BY AssetNumbers, StepIs
  <1>1. o.size \in Nat
    BY NumbersAssumption
  <1>2. PICK y : Cut(wire.p, y, wire.a) /\ (y = price \/ y \in Nearest(price, step))
    BY <1>1, WireIs
  <1>3. y \in Nat /\ 2 * price - 2 * y <= step /\ 2 * y - 2 * price <= step
    BY <1>2, NearestIs
  <1>4. Arrives(wire.p, price, step, wire.a)
    BY <1>2, <1>3, CutArrives
  <1>5. wire.s = o.size <=> ~Shortened(o.size, wire.a)
    BY <1>1, WireIs
  <1>6. w.kind = "limit" /\ w.size = o.size /\ w.price = price
    BY DEF Wanted
  <1>7. NumberArrives(wire, w)
    <2> HIDE DEF w
    <2> QED BY <1>4, <1>5, <1>6 DEF NumberArrives, SizeArrives
  <1> QED BY <1>7

\* A market order of a batch.
LEMMA BatchArrives ==
  ASSUME RegistryTypeOK, NEW o \in OrderArgs, Valid(o, FALSE), o.price = 0,
         NEW wire \in OrderWires(o)
  PROVE  NumberArrives(wire, Wanted("batch", o.coin, o.size, 0))
  <1> DEFINE w == Wanted("batch", o.coin, o.size, 0)
  <1>1. o.size \in Nat /\ o.price \in Nat
    BY NumbersAssumption
  <1>2. /\ wire.s = o.size <=> ~Shortened(o.size, wire.a)
        /\ wire.p = IF Whole(wire.a) THEN NoNumber ELSE 0
    BY <1>1, WireIs
  <1>3. w.kind = "batch" /\ w.size = o.size
    BY DEF Wanted
  <1>4. NumberArrives(wire, w)
    <2> HIDE DEF w
    <2> QED BY <1>2, <1>3 DEF NumberArrives, SizeArrives
  <1> QED BY <1>4

\* The price that the slippage allows is a number.
LEMMA WorstIs ==
  ASSUME NEW coin, NEW buy \in BOOLEAN, NEW slippage \in 0..100, NEW mid \in Mids
  PROVE  Worst(coin, buy, slippage, mid) \in Nat
  <1> DEFINE factor == IF buy THEN 100 + slippage ELSE 100 - slippage
             price  == (mid * factor) \div 100
             least  == One \div 10000
  <1>1. mid \in Nat /\ factor \in Nat
    BY NumbersAssumption
  <1>2. mid * factor \in Nat /\ 100 \in Nat \ {0}
    <2> HIDE DEF factor
    <2> QED BY <1>1
  <1>3. price \in Nat
    <2> HIDE DEF factor
    <2> QED BY <1>2, DivIs
  <1>4. least \in Nat /\ One - least \in Nat
    <2> PICK one \in Nat : one = One
      BY StepIs
    <2>1. one \div 10000 \in Nat /\ one \div 10000 <= one
      OBVIOUS
    <2> QED BY <2>1
  <1>5. \/ Worst(coin, buy, slippage, mid) = price
        \/ Worst(coin, buy, slippage, mid) = least
        \/ Worst(coin, buy, slippage, mid) = One - least
    BY DEF Worst
  <1> HIDE DEF price, least
  <1> QED BY <1>3, <1>4, <1>5

\* A market order, of a call of its own or of a conversion.
LEMMA MarketArrives ==
  ASSUME RegistryTypeOK, NEW coin, NEW buy \in BOOLEAN, NEW size \in Nat, NEW slippage \in 0..100,
         NEW mid \in Mids, NEW px \in SlippagePrice(coin, buy, slippage, mid),
         NEW o, o = [coin |-> coin, buy |-> buy, size |-> size, price |-> px], Valid(o, FALSE),
         NEW wire \in OrderWires(o), NEW w, w.price = Worst(coin, buy, slippage, mid),
         \/ w.kind = "market" /\ w.size = size
         \/ w.kind = "convert" /\ w.size \in Nat /\ size <= w.size
  PROVE  NumberArrives(wire, w)
  <1> PICK asset : asset = AssetID(coin)
    OBVIOUS
  <1> PICK worst \in Nat : worst = Worst(coin, buy, slippage, mid)
    BY WorstIs
  <1> PICK step \in Nat \ {0} : step = DecimalStep(AllowedDecimals(asset))
    BY AssetNumbers, StepIs
  <1>1. PICK err : err = FigureStep(worst, 5) + step + getAssetTickSize(asset)
    OBVIOUS
  <1>2. /\ px \in Nat /\ err \in Nat
        /\ 2 * worst - 2 * px <= err /\ 2 * px - 2 * worst <= err
        /\ \E m \in Nat : px = step * m
    BY <1>1, AdjustedIs DEF SlippagePrice
  <1>3. Nearest(px, step) = {px}
    <2>1. PICK m \in Nat : px = step * m
      BY <1>2
    <2> QED BY <2>1, NearestExact, Zenon
  <1>4. o.size \in Nat /\ o.price \in Nat /\ o.price = px /\ o.size = size /\ o.coin = coin
    BY <1>2
  <1>5. /\ wire.s \in Nat /\ wire.s <= size
        /\ wire.s = size <=> ~Shortened(size, asset)
        /\ wire.a = asset
        /\ \E y : Cut(wire.p, y, asset) /\ (y = px \/ y \in Nearest(px, step))
    BY <1>4, WireIs, ZenonT(40)
  <1>6. Cut(wire.p, px, asset)
    BY <1>3, <1>5
  <1>7. Arrives(wire.p, worst, err, asset)
    BY <1>2, <1>6, CutArrives
  <1>8. CASE w.kind = "market" /\ w.size = size
    BY <1>1, <1>5, <1>7, <1>8 DEF NumberArrives, SizeArrives
  <1>9. CASE w.kind = "convert" /\ w.size \in Nat /\ size <= w.size
    BY <1>5, <1>9 DEF NumberArrives
  <1> QED BY <1>8, <1>9

\* A conversion takes whole lots of what its amount is worth.
LEMMA SnapIs ==
  ASSUME RegistryTypeOK, NEW pair, NEW num \in Nat, NEW den \in Nat \ {0},
         NEW size \in snapSpotSize(pair, num, den)
  PROVE  size \in Nat /\ size <= num \div den
  <1> PICK step \in Nat \ {0} : step = MinSize(pair)
    BY AssetNumbers, StepIs DEF MinSize
  <1> DEFINE e     == den * step
             whole == num \div e
             q     == num \div den
  <1>1. e \in Nat \ {0}
    OBVIOUS
  <1>2. PICK n : n \in {whole, whole - 1} /\ n >= 1 /\ size = n * step
    BY DEF snapSpotSize
  <1> HIDE DEF e
  <1>3. whole \in Nat /\ e * whole \in Nat /\ e * whole <= num
    <2>1. /\ num = e * whole + (num % e) /\ num % e \in 0..(e - 1)
          /\ whole \in Nat /\ e * whole \in Nat
      BY <1>1, DivIs, Zenon
    <2> HIDE DEF whole
    <2> QED BY <1>1, <2>1
  <1>4. q \in Nat /\ den * q \in Nat /\ num < den * q + den
    <2>1. num = den * q + (num % den) /\ num % den \in 0..(den - 1) /\ q \in Nat /\ den * q \in Nat
      BY DivIs
    <2> HIDE DEF q
    <2> QED BY <2>1
  <1> HIDE DEF whole, q
  <1>5. n \in Nat /\ n <= whole
    BY <1>2, <1>3
  <1>6. size \in Nat
    BY <1>2, <1>5
  <1>7. den * size <= num
    <2>1. e * n <= e * whole
      BY <1>1, <1>3, <1>5, TimesMonotonic
    <2>2. e * n = den * size
      BY <1>2, <1>5 DEF e
    <2> QED BY <1>3, <2>1, <2>2, <1>6
  <1>8. ASSUME q < size PROVE FALSE
    <2>1. den * (q + 1) <= den * size /\ den * (q + 1) = den * q + den
      BY <1>4, <1>6, <1>8, TimesMonotonic
    <2>2. den * size \in Nat
      BY <1>6
    <2> QED BY <1>4, <1>7, <2>1, <2>2
  <1> QED BY <1>4, <1>6, <1>8 DEF q

-------------------------------------------------------------------------------
(***************************************************************************)
(* Verbs: what they build is formed and goes to the right asset.           *)
(***************************************************************************)
\* A coin that is looked up is its last registration's, or 0 when there is none.
LEMMA LookedUp ==
  ASSUME RegistryInv, NEW n
  PROVE  /\ n \in DOMAIN nameToCoin => Means(n, AssetID(n))
         /\ n \notin DOMAIN nameToCoin => AssetID(n) = 0
         /\ Known(n) => n \in DOMAIN nameToCoin
  <1>1. n \in DOMAIN nameToCoin => Means(n, AssetID(n))
    BY LookUpEnds DEF NamesResolve, Means
  <1>2. n \notin DOMAIN nameToCoin => AssetID(n) = 0
    BY DEF AssetID
  <1>3. Known(n) => n \in DOMAIN nameToCoin
    BY <1>2 DEF Known, IsFirstAsset, RegistryInv, RegistryTypeOK
  <1> QED BY <1>1, <1>2, <1>3

\* Nothing is registered under the coin of a blank spec.
LEMMA BlankUnlisted ==
  ASSUME NEW u \in Universes, NEW k \in 1..Len(Registrations[u])
  PROVE  Blank \notin Registrations[u][k].names
  <1>1. \A name, side, q, label : /\ Friendly(name, side) = Blank => side = ""
                                  /\ Bucket(q, label, side) = Blank => side = ""
    BY DEF Friendly, Bucket, Blank
  <1>2. \A e : Canonical(e) # Blank
    BY DEF Canonical, Blank
  <1> DEFINE p == Len(u.perps)
             l == Listed(u)
             o == Len(u.sides)
             q == Len(u.spots)
             r == Registrations[u][k]
  <1>3. /\ p \in Nat /\ l \in Nat /\ o \in Nat /\ q \in Nat /\ k \in 1..(l + o) /\ l = p + q
        /\ DOMAIN u.perps = 1..p /\ DOMAIN u.spots = 1..q /\ DOMAIN u.sides = 1..o
    <2>1. u.perps \in Seq([name : Names, dec : Nat])
      BY UniversesAssumption DEF Universe
    <2>2. u.spots \in Seq([name : Names, index : Nat, base : Nat, quote : Nat])
      BY UniversesAssumption DEF Universe
    <2>3. DOMAIN u.perps = 1..p /\ DOMAIN u.spots = 1..q
      BY <2>1, <2>2, SeqFacts, Zenon
    <2>4. /\ p \in Nat /\ l \in Nat /\ o \in Nat /\ q \in Nat /\ k \in 1..(l + o)
          /\ DOMAIN u.sides = 1..o
      BY UniverseFacts
    <2>5. l = p + q
      BY DEF Listed
    <2> QED BY <2>3, <2>4, <2>5, Zenon
  <1>4. /\ k <= p => r = PerpRegistration(u, k)
        /\ k > p /\ k <= l => r = SpotRegistration(u, k - p)
        /\ k > l => r = SideRegistration(u, k - l)
    BY <1>3, UniverseFacts, Zenon
  <1>5. \/ k <= p /\ k \in 1..p
        \/ k > p /\ k <= l /\ k - p \in 1..q
        \/ k > l /\ k - l \in 1..o
    <2> HIDE DEF p, l, o, q
    <2> QED BY <1>3, SMTT(30)
  <1>6. ASSUME NEW i \in 1..p PROVE Blank \notin PerpRegistration(u, i).names
    <2>1. u.perps[i].name # Blank
      BY <1>3, BlankAssumption, Zenon
    <2> QED BY <2>1 DEF PerpRegistration
  <1>7. ASSUME NEW i \in 1..q PROVE Blank \notin SpotRegistration(u, i).names
    <2>1. u.spots[i].name # Blank
      BY <1>3, BlankAssumption, Zenon
    <2> QED BY <2>1 DEF SpotRegistration
  <1>8. ASSUME NEW i \in 1..o, Blank \in SideRegistration(u, i).names PROVE FALSE
    <2> DEFINE s == u.sides[i]
    <2>1. s.side # ""
      BY <1>3, UniversesAssumption, Zenon
    <2>2. \/ Blank = Friendly(s.name, s.side)
          \/ Blank = Canonical(Enc(s))
          \/ \E q1, label : Blank = Bucket(q1, label, s.side)
      BY <1>8, Zenon DEF SideRegistration
    <2> QED BY <2>1, <2>2, <1>1, <1>2, Zenon
  <1> QED BY <1>4, <1>5, <1>6, <1>7, <1>8, Zenon

LEMMA BlankIsZero == RegistryInv => AssetID(Blank) = 0
  <1> SUFFICES ASSUME RegistryInv, Blank \in DOMAIN nameToCoin PROVE FALSE
    BY LookedUp
  <1>1. PICK k \in 1..registered : IsLast(Blank, k)
    BY DEF RegistryInv, TableInv
  <1>2. universe \in Universes /\ k \in 1..Len(Registrations[universe])
    BY UniverseFacts DEF RegistryInv, RegistryTypeOK
  <1>3. Blank \in Registrations[universe][k].names
    BY <1>1 DEF IsLast
  <1> QED BY <1>2, <1>3, BlankUnlisted, Zenon

\* What a call builds and is asked for.
Ready(g) == \E a, w : Build(g, a, w) /\ Formed(a) /\ Intended(w, a)

LEMMA BuiltL1 ==
  ASSUME NEW g, NEW w, NEW type, NEW fields, NEW own, NEW reply,
         Build(g, L1(type, fields, own, reply), w), Targeted(w, L1(type, fields, own, reply)),
         type \notin userSignedActionTypes, type # "order",
         type = "updateLeverage" \/ reply \in {"shown", "raised", "either"}
  PROVE  Ready(g)
  <1> PICK a : a = L1(type, fields, own, reply)
    OBVIOUS
  <1>1. a.type = type /\ Formed(a)
    BY DEF L1, Formed, FormedL1
  <1>2. Intended(w, a)
    BY <1>1 DEF Intended, Priced
  <1> QED BY <1>1, <1>2 DEF Ready

LEMMA BuiltPlain ==
  ASSUME NEW g, NEW type, NEW fields, NEW own, NEW reply,
         Build(g, L1(type, fields, own, reply), None),
         type \notin userSignedActionTypes, reply \in {"shown", "raised", "either"}
  PROVE  Ready(g)
  BY DEF Ready, L1, Formed, FormedL1, Intended, Targeted, Priced

LEMMA BuiltUser ==
  ASSUME NEW g, NEW type, NEW fields, NEW signs, NEW stamp, NEW reply,
         Build(g, User(type, fields, signs, stamp, reply), None),
         type \in userSignedActionTypes, reply \in {"shown", "raised"},
         signs = DOMAIN fields \cup {stamp, "hyperliquidChain"}, "signatureChainId" \notin signs
  PROVE  Ready(g)
  BY DEF Ready, User, Formed, FormedUser, Intended, Targeted, Priced

\* An order of a known coin.
LEMMA BuiltOrder ==
  ASSUME RegistryInv, NEW g, NEW o, Known(o.coin), NEW a \in newCreateOrderAction(vault, o),
         NEW w, Build(g, a, w), w.kind # "modify", w.coin = o.coin,
         \A wire \in OrderWires(o) : NumberArrives(wire, w)
  PROVE  Ready(g)
  <1>1. PICK wire \in OrderWires(o) : a = L1("order", [orders |-> << wire >>], vault, "shown")
    BY DEF newCreateOrderAction
  <1>2. wire.a = AssetID(o.coin)
    BY DEF OrderWires
  <1>3. ActionAsset(a) = wire.a /\ a.fields.orders[1] = wire
    BY <1>1 DEF ActionAsset, L1
  <1>4. Means(w.coin, ActionAsset(a))
    BY <1>2, <1>3, LookedUp
  <1>5. Targeted(w, a)
    BY <1>4 DEF Targeted
  <1>6. Priced(w, a)
    BY <1>3 DEF Priced
  <1>7. Formed(a)
    BY <1>1 DEF L1, Formed, FormedL1, userSignedActionTypes
  <1> HIDE DEF Targeted, Priced, Formed
  <1> QED BY <1>5, <1>6, <1>7 DEF Ready, Intended

\* A setting or cancel of a coin, known or not.
LEMMA OtherTargeted ==
  ASSUME RegistryInv, NEW coin, NEW a, ActionAsset(a) = AssetID(coin)
  PROVE  Targeted(Wanted("other", coin, 0, 0), a)
  <1> DEFINE w == Wanted("other", coin, 0, 0)
  <1>1. w.kind = "other" /\ w.coin = coin
    BY DEF Wanted
  <1> QED BY <1>1, LookedUp DEF Targeted

LEMMA MarketReady ==
  ASSUME RegistryInv, NEW g, NEW coin, NEW buy \in BOOLEAN, NEW size \in Nat,
         NEW slippage \in 0..100, NEW kind, NEW n, NEW w, w = Wanted(kind, coin, n, 0),
         \/ kind = "market" /\ n = size
         \/ kind = "convert" /\ n \in Nat /\ size <= n,
         Market(g, coin, buy, size, slippage, w)
  PROVE  Ready(g)
  <1>1. PICK mid \in Mids : \E px \in SlippagePrice(coin, buy, slippage, mid) :
          LET o == [coin |-> coin, buy |-> buy, size |-> size, price |-> px]
          IN  /\ Valid(o, FALSE)
              /\ \E a \in newCreateOrderAction(vault, o) :
                    Build(g, a, [w EXCEPT !.price = Worst(coin, buy, slippage, mid)])
    BY DEF Market
  <1>2. PICK px \in SlippagePrice(coin, buy, slippage, mid) :
          LET o == [coin |-> coin, buy |-> buy, size |-> size, price |-> px]
          IN  /\ Valid(o, FALSE)
              /\ \E a \in newCreateOrderAction(vault, o) :
                    Build(g, a, [w EXCEPT !.price = Worst(coin, buy, slippage, mid)])
    BY <1>1
  <1> DEFINE o == [coin |-> coin, buy |-> buy, size |-> size, price |-> px]
             v == [w EXCEPT !.price = Worst(coin, buy, slippage, mid)]
  <1>3. PICK a \in newCreateOrderAction(vault, o) : Build(g, a, v)
    BY <1>2
  <1>4. /\ v.kind = kind /\ v.coin = coin /\ v.size = n
        /\ v.price = Worst(coin, buy, slippage, mid) /\ o.coin = coin
    BY DEF Wanted
  <1>5. Known(o.coin) /\ Valid(o, FALSE)
    BY <1>2 DEF Valid
  <1>6. v.kind # "modify"
    BY <1>4
  <1>7. ASSUME NEW wire \in OrderWires(o) PROVE NumberArrives(wire, v)
    <2> PICK order : order = o
      OBVIOUS
    <2> PICK wanted : wanted = v
      OBVIOUS
    <2> HIDE DEF o, v
    <2>1. RegistryTypeOK
      BY DEF RegistryInv
    <2>2. order = [coin |-> coin, buy |-> buy, size |-> size, price |-> px]
      BY DEF o
    <2>3. wanted.price = Worst(coin, buy, slippage, mid)
      BY <1>4
    <2>4. \/ wanted.kind = "market" /\ wanted.size = size
          \/ wanted.kind = "convert" /\ wanted.size \in Nat /\ size <= wanted.size
      BY <1>4
    <2>5. Valid(order, FALSE) /\ wire \in OrderWires(order)
      BY <1>5
    <2>6. NumberArrives(wire, wanted)
      BY <2>1, <2>2, <2>3, <2>4, <2>5, MarketArrives, ZenonT(60)
    <2> QED BY <2>6
  <1> HIDE DEF o, v
  <1> QED BY <1>3, <1>4, <1>5, <1>6, <1>7, BuiltOrder, Zenon

\* Every verb builds an action that is formed and goes where it should.
LEMMA BeginReady == ASSUME RegistryInv, NEW g, Begin(g) PROVE Ready(g)
  <1> USE DEF userSignedActionTypes
  <1>1. CASE PlaceLimit(g)
    <2>1. PICK o \in OrderArgs : /\ Valid(o, TRUE)
                                 /\ \E a \in newCreateOrderAction(vault, o) :
                                       Build(g, a, Wanted("limit", o.coin, o.size, o.price))
      BY <1>1 DEF PlaceLimit
    <2> DEFINE w == Wanted("limit", o.coin, o.size, o.price)
    <2>2. Known(o.coin) /\ w.kind # "modify" /\ w.coin = o.coin
      BY <2>1 DEF Valid, Wanted
    <2>3. \A wire \in OrderWires(o) : NumberArrives(wire, w)
      BY <2>1, LimitArrives DEF RegistryInv
    <2> HIDE DEF w
    <2> QED BY <2>1, <2>2, <2>3, BuiltOrder DEF w
  <1>2. CASE PlaceManyMarket(g)
    <2>1. PICK o \in OrderArgs : /\ o.price = 0 /\ Valid(o, FALSE)
                                 /\ \E a \in newCreateOrderAction(vault, o) :
                                       Build(g, a, Wanted("batch", o.coin, o.size, 0))
      BY <1>2 DEF PlaceManyMarket
    <2> DEFINE w == Wanted("batch", o.coin, o.size, 0)
    <2>2. Known(o.coin) /\ w.kind # "modify" /\ w.coin = o.coin
      BY <2>1 DEF Valid, Wanted
    <2>3. \A wire \in OrderWires(o) : NumberArrives(wire, w)
      BY <2>1, BatchArrives DEF RegistryInv
    <2> HIDE DEF w
    <2> QED BY <2>1, <2>2, <2>3, BuiltOrder DEF w
  <1>3. CASE PlaceMarket(g)
    <2>1. PICK o \in OrderArgs : Market(g, o.coin, o.buy, o.size, Slippage,
                                        Wanted("market", o.coin, o.size, 0))
      BY <1>3 DEF PlaceMarket
    <2>2. o.buy \in BOOLEAN /\ o.size \in Nat /\ Slippage \in 0..100
      BY NumbersAssumption
    <2> QED BY <2>1, <2>2, MarketReady
  <1>4. CASE ConvertSpot(g)
    <2> PICK pair : \E mid \in Mids : \E size \in BuySizes(pair, Amount, mid) :
             Market(g, pair, TRUE, size, 5, Wanted("convert", pair, (Amount * One) \div mid, 0))
      BY <1>4 DEF ConvertSpot
    <2>1. PICK mid \in Mids : \E size \in BuySizes(pair, Amount, mid) :
             Market(g, pair, TRUE, size, 5, Wanted("convert", pair, (Amount * One) \div mid, 0))
      OBVIOUS
    <2>2. PICK size \in BuySizes(pair, Amount, mid) :
             Market(g, pair, TRUE, size, 5, Wanted("convert", pair, (Amount * One) \div mid, 0))
      BY <2>1
    <2> PICK num : num = Amount * One
      OBVIOUS
    <2> PICK n : n = num \div mid
      OBVIOUS
    <2>3. num \in Nat /\ mid \in Nat \ {0}
      BY NumbersAssumption, StepIs
    <2>4. n \in Nat
      BY <2>3, DivIs
    <2>5. size \in Nat /\ size <= n
      BY <2>3, SnapIs DEF BuySizes, RegistryInv
    <2>6. Market(g, pair, TRUE, size, 5, Wanted("convert", pair, n, 0))
      BY <2>2
    <2>7. 5 \in 0..100
      OBVIOUS
    <2> QED BY <2>4, <2>5, <2>6, <2>7, MarketReady
  <1>5. CASE ConvertSpotSize(g)
    <2>1. PICK pair : \E size \in SellSizes(pair, Amount) :
             Market(g, pair, FALSE, size, 5, Wanted("convert", pair, Amount, 0))
      BY <1>5 DEF ConvertSpotSize
    <2>2. PICK size \in SellSizes(pair, Amount) :
             Market(g, pair, FALSE, size, 5, Wanted("convert", pair, Amount, 0))
      BY <2>1
    <2>3. Amount \in Nat /\ Amount \div 1 = Amount /\ 5 \in 0..100 /\ 1 \in Nat \ {0}
      BY NumbersAssumption
    <2>4. size \in Nat /\ size <= Amount \div 1
      BY <2>3, SnapIs DEF SellSizes, RegistryInv
    <2>5. size <= Amount
      BY <2>3, <2>4
    <2> QED BY <2>2, <2>3, <2>4, <2>5, MarketReady
  <1>6. CASE Cancel(g)
    <2>1. PICK coin \in CoinArgs : Build(g, bulkCancel(vault, coin, Oid), Wanted("other", coin, 0, 0))
      BY <1>6 DEF Cancel
    <2>2. ActionAsset(bulkCancel(vault, coin, Oid)) = AssetID(coin)
      BY DEF ActionAsset, bulkCancel, L1
    <2> QED BY <2>1, <2>2, OtherTargeted, BuiltL1 DEF bulkCancel
  <1>7. CASE CancelCloid(g)
    <2>1. PICK coin \in CoinArgs :
             Build(g, CancelByCloid(vault, coin, Cloid), Wanted("other", coin, 0, 0))
      BY <1>7 DEF CancelCloid
    <2>2. ActionAsset(CancelByCloid(vault, coin, Cloid)) = AssetID(coin)
      BY DEF ActionAsset, CancelByCloid, L1
    <2> QED BY <2>1, <2>2, OtherTargeted, BuiltL1 DEF CancelByCloid
  <1>8. CASE Modify(g)
    <2>1. PICK id \in {Oid, Cloid}, o \in OrderArgs :
             \E a \in newModifyOrderAction(vault, id, o.price, o.size) :
                 Build(g, a, Wanted("modify", None, o.size, o.price))
      BY <1>8 DEF Modify
    <2>2. PICK a \in newModifyOrderAction(vault, id, o.price, o.size) :
             Build(g, a, Wanted("modify", None, o.size, o.price))
      BY <2>1
    <2> DEFINE w    == Wanted("modify", None, o.size, o.price)
               spec == [coin |-> Blank, buy |-> FALSE, price |-> o.price, size |-> o.size]
    <2>3. PICK wire \in OrderWires(spec) :
             a = L1("modify", [oid |-> id, order |-> wire], vault, "either")
      BY DEF newModifyOrderAction
    <2>4. wire.a = 0
      BY BlankIsZero DEF OrderWires
    <2>5. ActionAsset(a) = 0
      BY <2>3, <2>4 DEF ActionAsset, L1
    <2>6. Targeted(w, a)
      BY <2>5 DEF Targeted, Wanted
    <2> QED BY <2>2, <2>3, <2>6, BuiltL1
  <1>9. CASE Leverage(g)
    <2>1. PICK coin \in CoinArgs :
             \/ \E cross \in BOOLEAN :
                   Build(g, SetLeverage(vault, AssetID(coin), 5, cross), Wanted("other", coin, 0, 0))
             \/ Build(g, AdjustMargin(vault, AssetID(coin), Amount), Wanted("other", coin, 0, 0))
      BY <1>9 DEF Leverage
    <2>2. /\ \A cross : ActionAsset(SetLeverage(vault, AssetID(coin), 5, cross)) = AssetID(coin)
          /\ ActionAsset(AdjustMargin(vault, AssetID(coin), Amount)) = AssetID(coin)
      BY DEF ActionAsset, SetLeverage, AdjustMargin, L1
    <2>3. ASSUME NEW cross \in BOOLEAN,
                 Build(g, SetLeverage(vault, AssetID(coin), 5, cross), Wanted("other", coin, 0, 0))
          PROVE  Ready(g)
      BY <2>2, <2>3, OtherTargeted, BuiltL1 DEF SetLeverage
    <2>4. ASSUME Build(g, AdjustMargin(vault, AssetID(coin), Amount), Wanted("other", coin, 0, 0))
          PROVE  Ready(g)
      BY <2>2, <2>4, OtherTargeted, BuiltL1 DEF AdjustMargin
    <2> QED BY <2>1, <2>3, <2>4
  <1>10. CASE Transfer(g)
    <2> DEFINE amount == FormatUsdAmount(Amount)
    <2>1. CASE Build(g, SendUSD("to", amount), None)
      BY <2>1, BuiltUser DEF SendUSD, UsdSendSignTypes
    <2>2. CASE Build(g, SendSpot("to", "USDC", amount), None)
      BY <2>2, BuiltUser DEF SendSpot, SpotTransferSignTypes
    <2>3. CASE Build(g, Withdraw(amount, "to"), None)
      BY <2>3, BuiltUser DEF Withdraw, WithdrawSignTypes
    <2>4. ASSUME NEW in, NEW usd, Build(g, VaultTransfer("vault", in, usd), None) PROVE Ready(g)
      BY <2>4, BuiltPlain DEF VaultTransfer
    <2>5. ASSUME NEW in, Build(g, UsdClassTransfer(vault, amount, in), None) PROVE Ready(g)
      BY <2>5, BuiltUser DEF UsdClassTransfer, UsdClassTransferSignTypes
    <2>6. ASSUME NEW from, NEW to, Build(g, SendAsset(vault, "own", from, to, "USDC", amount), None)
          PROVE  Ready(g)
      BY <2>6, BuiltUser DEF SendAsset, SendAssetSignTypes
    <2> QED BY <1>10, <2>1, <2>2, <2>3, <2>4, <2>5, <2>6 DEF Transfer
  <1>11. CASE Stake(g)
    <2>1. ASSUME NEW wei, NEW undo, Build(g, TokenDelegate("validator", wei, undo), None)
          PROVE  Ready(g)
      BY <2>1, BuiltUser DEF TokenDelegate, TokenDelegateSignTypes
    <2> QED BY <1>11, <2>1 DEF Stake
  <1>12. CASE Account(g)
    <2>1. ASSUME NEW deadline, Build(g, ScheduleCancelAll(vault, deadline), None) PROVE Ready(g)
      BY <2>1, BuiltPlain DEF ScheduleCancelAll
    <2>2. CASE Build(g, SetReferrer("code"), None)
      BY <2>2, BuiltPlain DEF SetReferrer
    <2>3. ASSUME NEW big, Build(g, UseBigBlocks(big), None) PROVE Ready(g)
      BY <2>3, BuiltPlain DEF UseBigBlocks
    <2>4. ASSUME NEW name, Build(g, ApproveAgent("key", name), None) PROVE Ready(g)
      BY <2>4, BuiltUser DEF ApproveAgent, ApproveAgentSignTypes
    <2>5. CASE Build(g, ApproveBuilderFee("builder", "0.1%"), None)
      BY <2>5, BuiltUser DEF ApproveBuilderFee, ApproveBuilderFeeSignTypes
    <2>6. CASE Build(g, MultiSigConvert({"a", "b"}, 1), None)
      BY <2>6, BuiltUser DEF MultiSigConvert, ConvertToMultiSigUserSignTypes
    <2>7. CASE Build(g, MultiSigExecute(vault, "inner", "signers", "signatures"), None)
      BY <2>7, BuiltPlain DEF MultiSigExecute
    <2> QED BY <1>12, <2>1, <2>2, <2>3, <2>4, <2>5, <2>6, <2>7 DEF Account
  <1>13. CASE SubAccount(g)
    <2>1. CASE Build(g, CreateSubAccount("name"), None)
      BY <2>1, BuiltPlain DEF CreateSubAccount
    <2>2. ASSUME NEW in, NEW usd, Build(g, SubAccountTransfer("sub", in, usd), None)
          PROVE  Ready(g)
      BY <2>2, BuiltPlain DEF SubAccountTransfer
    <2>3. ASSUME NEW in, Build(g, SubAccountSpotTransfer(vault, "sub", in, "USDC", Amount), None)
          PROVE  Ready(g)
      BY <2>3, BuiltPlain DEF SubAccountSpotTransfer
    <2> QED BY <1>13, <2>1, <2>2, <2>3 DEF SubAccount
  <1>14. CASE Outcome(g)
    BY <1>14, BuiltPlain DEF Outcome, Split, Merge, MergeQuestion, Negate
  <1>15. CASE Deploy(g)
    BY <1>15, BuiltPlain
    DEF Deploy, SpotDeployRegisterToken, SpotDeployUserGenesis, SpotDeployEnableFreezePrivilege,
        SpotDeployFreezeUser, SpotDeployRevokeFreezePrivilege, SpotDeployGenesis,
        SpotDeployRegisterSpot, SpotDeployRegisterHyperliquidity,
        SpotDeploySetDeployerTradingFeeShare, PerpDeployRegisterAsset, PerpDeploySetOracle
  <1>16. CASE Validator(g)
    BY <1>16, BuiltPlain
    DEF Validator, CSignerUnjailSelf, CSignerJailSelf, CSignerInner, CValidatorRegister,
        CValidatorChangeProfile, CValidatorUnregister
  <1> QED
    BY <1>1, <1>2, <1>3, <1>4, <1>5, <1>6, <1>7, <1>8, <1>9, <1>10, <1>11, <1>12, <1>13, <1>14,
       <1>15, <1>16
    DEF Begin

-------------------------------------------------------------------------------
(***************************************************************************)
(* The exchange.                                                           *)
(***************************************************************************)
\* What it recomputes is what was signed, but for two kinds of L1 action.
LEMMA SentGenuine ==
  ASSUME NEW g \in Calls, Formed(action[g]), Sent(g)
  PROVE  ~Genuine(g) <=>
             /\ action[g].scheme = "L1"
             /\ action[g].vault # vault \/ envelope[g].signature[6] # None
  <1> PICK a : a = action[g]
    OBVIOUS
  <1> PICK n : n = nonce[g]
    OBVIOUS
  <1>1. PICK deadline \in Deadlines :
            envelope[g] = [type |-> a.type, fields |-> Posted(a, n), nonce |-> n,
                           vaultAddress |-> VaultAddress(a.type, vault),
                           signature |-> Signature(a, n, deadline)]
    BY DEF Sent
  <1>2. CASE FormedL1(a)
    <2>1. envelope[g].signature = <<"L1", a.type, a.fields, a.vault, n, deadline>>
      BY <1>1, <1>2 DEF FormedL1, Signature, ActionHash
    <2>2. Recomputed("L1", envelope[g]) = <<"L1", a.type, a.fields, vault, n, None>>
      BY <1>1, <1>2 DEF FormedL1, Recomputed, ActionHash, VaultAddress, Posted
    <2>3. Genuine(g) <=> envelope[g].signature = Recomputed("L1", envelope[g])
      BY <1>2 DEF FormedL1, Genuine
    <2>4. envelope[g].signature[6] = deadline
      BY <2>1
    <2>5. Genuine(g) <=> a.vault = vault /\ deadline = None
      BY <2>1, <2>2, <2>3
    <2> QED BY <2>4, <2>5, <1>2 DEF FormedL1
  <1>3. CASE FormedUser(a)
    <2> DEFINE fields == Posted(a, n)
    <2>1. /\ DOMAIN fields = DOMAIN a.fields \cup {a.stamp, "hyperliquidChain", "signatureChainId"}
          /\ fields[a.stamp] = n
      BY <1>3 DEF FormedUser, Posted, OnChain, Put
    <2>2. DOMAIN fields \ {"signatureChainId"} = a.signs
      BY <2>1, <1>3 DEF FormedUser
    <2>3. Recomputed("user", envelope[g]) = HashStructLenient(a.type, fields, a.signs)
      BY <1>1, <2>2 DEF Recomputed
    <2>4. envelope[g].signature = HashStructLenient(a.type, fields, a.signs)
      BY <1>1, <1>3 DEF FormedUser, Signature
    <2>5. envelope[g].vaultAddress = None /\ envelope[g].fields[a.stamp] = envelope[g].nonce
      BY <1>1, <1>3, <2>1 DEF FormedUser, VaultAddress
    <2>6. Genuine(g)
      BY <1>3, <2>3, <2>4, <2>5 DEF FormedUser, Genuine
    <2> QED BY <2>6, <1>3 DEF FormedUser
  <1> QED BY <1>2, <1>3 DEF Formed

\* Two times of the same millisecond.
LEMMA SameMillisecond ==
  ASSUME NEW s \in Nat, NEW t \in Nat, UnixMilli(s) = UnixMilli(t)
  PROVE  s - t < TicksPerMs /\ t - s < TicksPerMs
  <1>1. TicksPerMs \in Nat \ {0}
    BY TimeAssumption
  <1>2. \A x \in Nat : /\ x \div TicksPerMs \in Nat
                       /\ TicksPerMs * (x \div TicksPerMs) <= x
                       /\ x < TicksPerMs * (x \div TicksPerMs) + TicksPerMs
    BY <1>1
  <1> DEFINE q == s \div TicksPerMs
             m == TicksPerMs * q
  <1>3. m \in Int /\ m <= s /\ s < m + TicksPerMs /\ m <= t /\ t < m + TicksPerMs
    BY <1>1, <1>2 DEF UnixMilli
  <1> HIDE DEF m
  <1> QED BY <1>1, <1>3

-------------------------------------------------------------------------------
(***************************************************************************)
(* Steps.                                                                  *)
(***************************************************************************)
\* What was true of the asset and the numbers of an action stays true with the tables.
LEMMA IntentStays ==
  ASSUME NEW g, NEW w, NEW a, Intended(w, a), want'[g] = w, action'[g] = a,
         UNCHANGED registryVars
  PROVE  Intended(want[g], action[g])'
  <1>1. Targeted(want[g], action[g])'
    BY SMTT(30) DEF Intended, Targeted, Means, IsLast, registryVars
  <1>2. Priced(want[g], action[g])'
    BY DEF Intended, Priced, NumberArrives, SizeArrives, Shortened, Arrives, Whole,
           AllowedDecimals, SzDecimals, Decimals, registryVars
  <1> QED BY <1>1, <1>2 DEF Intended

\* A call that nobody touches keeps its invariant: once it has begun the tables stand.
LEMMA Untouched ==
  ASSUME Arrays, NEW h \in Calls, CallInv(h),
         pc'[h] = pc[h], action'[h] = action[h], want'[h] = want[h], stamped'[h] = stamped[h],
         nonce'[h] = nonce[h], envelope'[h] = envelope[h], verdict'[h] = verdict[h],
         result'[h] = result[h], vault' = vault, now' \in Nat, now <= now',
         pc[h] = "idle" \/ UNCHANGED registryVars
  PROVE  CallInv(h)'
  <1>1. Stamped(h)'
    BY DEF CallInv, Stamped, Arrays
  <1>2. pc[h] \in {"post", "answer"} => Sent(h)'
    BY DEF CallInv, Sent
  <1>3. pc[h] # "idle" => Made'
    BY DEF CallInv, Made, registryVars
  <1>4. pc[h] # "idle" => Intended(want[h], action[h])'
    <2> PICK w : w = want[h]
      OBVIOUS
    <2> PICK a : a = action[h]
      OBVIOUS
    <2> HIDE DEF Intended
    <2> QED BY IntentStays DEF CallInv
  <1> HIDE DEF Made, Intended, Stamped, Sent
  <1> QED BY <1>1, <1>2, <1>3, <1>4 DEF CallInv

\* A step of one call.
LEMMA OneCall ==
  ASSUME Arrays, NEW g \in Calls, \A h \in Calls : CallInv(h), CallInv(g)',
         UNCHANGED clientVars,
         \A h \in Calls \ {g} :
            /\ pc'[h] = pc[h] /\ action'[h] = action[h] /\ want'[h] = want[h]
            /\ stamped'[h] = stamped[h] /\ nonce'[h] = nonce[h] /\ envelope'[h] = envelope[h]
            /\ verdict'[h] = verdict[h] /\ result'[h] = result[h]
  PROVE  \A h \in Calls : CallInv(h)'
  <1>1. ASSUME NEW h \in Calls \ {g} PROVE CallInv(h)'
    <2>1. UNCHANGED <<registryVars, vault, now>> /\ now' \in Nat /\ now <= now'
      BY TimeAssumption DEF clientVars, Arrays
    <2> QED BY <2>1, Untouched
  <1> QED BY <1>1

LEMMA BeginInv ==
  ASSUME RegistryInv, Arrays, NEW g \in Calls, CallInv(g), Begin(g)
  PROVE  /\ CallInv(g)' /\ Arrays' /\ ~Accepted(g)
         /\ \A h \in Calls \ {g} :
               /\ pc'[h] = pc[h] /\ action'[h] = action[h] /\ want'[h] = want[h]
               /\ stamped'[h] = stamped[h] /\ nonce'[h] = nonce[h] /\ envelope'[h] = envelope[h]
               /\ verdict'[h] = verdict[h] /\ result'[h] = result[h]
  <1>1. PICK a, w : Build(g, a, w) /\ Formed(a) /\ Intended(w, a)
    BY BeginReady DEF Ready
  <1>2. /\ Made /\ UNCHANGED <<registryVars, roster, vault, expiresAfter, now, used, verdict>>
    BY DEF Begin, clientVars, exchangeVars
  <1>3. /\ pc[g] = "idle" /\ pc' = [pc EXCEPT ![g] = "stamp"]
        /\ action' = [action EXCEPT ![g] = a] /\ want' = [want EXCEPT ![g] = w]
        /\ UNCHANGED <<stamped, nonce, envelope, result>>
    BY <1>1 DEF Build, Goto
  <1>4. Arrays'
    BY <1>2, <1>3 DEF Arrays
  <1>5. pc'[g] = "stamp" /\ action'[g] = a /\ want'[g] = w
    BY <1>3 DEF Arrays
  <1>6. Made'
    BY <1>2 DEF Made, registryVars
  <1>7. Intended(want[g], action[g])'
    BY <1>1, <1>2, <1>5, IntentStays
  <1>8. verdict[g] = "none" /\ result[g] = "none" /\ Stamped(g)'
    BY <1>2, <1>3, <1>5 DEF CallInv, Arrays, Stamped
  <1>9. CallInv(g)'
    <2> HIDE DEF Made, Intended, Stamped
    <2> QED BY <1>1, <1>2, <1>3, <1>5, <1>6, <1>7, <1>8 DEF CallInv
  <1> QED BY <1>2, <1>3, <1>4, <1>8, <1>9 DEF Arrays, Accepted

\* Steps that read the clock, sign, lose or report.
LEMMA StepInv ==
  ASSUME Arrays, NEW g \in Calls, CallInv(g), Step(g)
  PROVE  /\ CallInv(g)' /\ Arrays'
         /\ Accepted(g) => stamped'[g] = stamped[g] /\ nonce'[g] = nonce[g]
         /\ verdict[g] = "stale" => stamped'[g] = stamped[g]
         /\ UNCHANGED <<clientVars, exchangeVars>>
         /\ \A h \in Calls \ {g} :
               /\ pc'[h] = pc[h] /\ action'[h] = action[h] /\ want'[h] = want[h]
               /\ stamped'[h] = stamped[h] /\ nonce'[h] = nonce[h] /\ envelope'[h] = envelope[h]
               /\ verdict'[h] = verdict[h] /\ result'[h] = result[h]
  <1>1. /\ UNCHANGED <<clientVars, exchangeVars>>
        /\ UNCHANGED <<registryVars, roster, vault, expiresAfter, now, used, verdict>>
    BY DEF Step, clientVars, exchangeVars
  <1>2. UNCHANGED <<action, want>> /\ pc[g] # "idle"
    BY DEF Step, Stamp, SignFails, Sign, Lose, Reply
  <1>3. Made' /\ Formed(action[g])' /\ Intended(want[g], action[g])'
    <2>1. Made' /\ Formed(action[g])'
      BY <1>1, <1>2 DEF CallInv, Made, registryVars
    <2> PICK w : w = want[g]
      OBVIOUS
    <2> PICK a : a = action[g]
      OBVIOUS
    <2>2. Intended(want[g], action[g])'
      BY <1>1, <1>2, IntentStays DEF CallInv
    <2> QED BY <2>1, <2>2
  <1> USE DEF Goto
  <1>4. CASE Stamp(g)
    <2>1. /\ pc' = [pc EXCEPT ![g] = "sign"] /\ stamped' = [stamped EXCEPT ![g] = now]
          /\ nonce' = [nonce EXCEPT ![g] = UnixMilli(now)] /\ UNCHANGED <<envelope, result>>
          /\ pc[g] = "stamp"
      BY <1>4 DEF Stamp
    <2>2. Arrays'
      BY <1>1, <1>2, <2>1 DEF Arrays
    <2>3. pc'[g] = "sign" /\ stamped'[g] = now /\ nonce'[g] = UnixMilli(now)
      BY <2>1 DEF Arrays
    <2>4. Stamped(g)' /\ verdict[g] = "none" /\ result[g] = "none"
      BY <1>1, <2>1, <2>3, TimeAssumption DEF Stamped, Arrays, CallInv
    <2>5. CallInv(g)'
      <3> HIDE DEF Made, Intended, Stamped, Formed
      <3> QED BY <1>1, <1>3, <2>1, <2>3, <2>4 DEF CallInv
    <2> QED BY <1>1, <1>2, <2>1, <2>2, <2>4, <2>5 DEF Arrays, Accepted
  <1>5. CASE SignFails(g)
    <2>1. /\ pc' = [pc EXCEPT ![g] = "done"] /\ result' = [result EXCEPT ![g] = "error"]
          /\ UNCHANGED <<stamped, nonce, envelope>> /\ pc[g] = "sign"
      BY <1>5 DEF SignFails
    <2>2. Arrays'
      BY <1>1, <1>2, <2>1 DEF Arrays
    <2>3. pc'[g] = "done" /\ result'[g] = "error"
      BY <2>1 DEF Arrays
    <2>4. Stamped(g)' /\ verdict[g] = "none"
      BY <1>1, <2>1, <2>3 DEF Stamped, Arrays, CallInv
    <2>5. CallInv(g)'
      <3> HIDE DEF Made, Intended, Stamped, Formed
      <3> QED BY <1>1, <1>3, <2>1, <2>3, <2>4 DEF CallInv
    <2> QED BY <1>1, <1>2, <2>1, <2>2, <2>4, <2>5 DEF Arrays, Accepted
  <1>6. CASE Sign(g)
    <2>1. /\ pc' = [pc EXCEPT ![g] = "post"] /\ UNCHANGED <<stamped, nonce, result>>
          /\ pc[g] = "sign"
          /\ envelope' = [envelope EXCEPT ![g] =
                [type |-> action[g].type, fields |-> Posted(action[g], nonce[g]),
                 nonce |-> nonce[g], vaultAddress |-> VaultAddress(action[g].type, vault),
                 signature |-> Signature(action[g], nonce[g], expiresAfter)]]
      BY <1>6 DEF Sign
    <2>2. Arrays'
      BY <1>1, <1>2, <2>1 DEF Arrays
    <2>3. pc'[g] = "post"
      BY <2>1 DEF Arrays
    <2>4. Stamped(g)' /\ verdict[g] = "none" /\ result[g] = "none"
      BY <1>1, <2>1, <2>3 DEF Stamped, Arrays, CallInv
    <2>5. Sent(g)'
      BY <1>1, <1>2, <2>1 DEF Sent, Arrays
    <2>6. CallInv(g)'
      <3> HIDE DEF Made, Intended, Stamped, Formed, Sent
      <3> QED BY <1>1, <1>3, <2>1, <2>3, <2>4, <2>5 DEF CallInv
    <2> QED BY <1>1, <1>2, <2>1, <2>2, <2>4, <2>6 DEF Arrays, Accepted
  <1>7. CASE Lose(g)
    <2>1. /\ pc' = [pc EXCEPT ![g] = "done"] /\ result' = [result EXCEPT ![g] = "error"]
          /\ UNCHANGED <<stamped, nonce, envelope>> /\ pc[g] \in {"post", "answer"}
      BY <1>7 DEF Lose
    <2>2. Arrays'
      BY <1>1, <1>2, <2>1 DEF Arrays
    <2>3. pc'[g] = "done" /\ result'[g] = "error"
      BY <2>1 DEF Arrays
    <2>4. Stamped(g)'
      BY <1>1, <2>1, <2>3 DEF Stamped, Arrays, CallInv
    <2>5. CallInv(g)'
      <3> HIDE DEF Made, Intended, Stamped, Formed
      <3> QED BY <1>1, <1>2, <1>3, <2>1, <2>3, <2>4 DEF CallInv
    <2> QED BY <1>1, <1>2, <2>1, <2>2, <2>5 DEF Arrays
  <1>8. CASE Reply(g)
    <2>1. PICK r \in Results(action[g].reply, verdict[g]) : result' = [result EXCEPT ![g] = r]
      BY <1>8 DEF Reply
    <2>2. /\ pc' = [pc EXCEPT ![g] = "done"] /\ pc[g] = "answer"
          /\ UNCHANGED <<stamped, nonce, envelope>>
      BY <1>8 DEF Reply
    <2>3. /\ r \in {"ok", "refused", "error"}
          /\ r = "ok" => verdict[g] = "taken" \/ action[g].type = "updateLeverage"
          /\ r = "refused" => verdict[g] # "taken"
      <3>1. PICK reply : reply = action[g].reply
        OBVIOUS
      <3>2. reply \in {"shown", "raised", "either"} \/ action[g].type = "updateLeverage"
        BY <1>2, <3>1 DEF CallInv, Formed, FormedL1, FormedUser
      <3> QED BY <2>1, <3>1, <3>2 DEF Results
    <2>4. Arrays'
      BY <1>1, <1>2, <2>1, <2>2, <2>3 DEF Arrays
    <2>5. pc'[g] = "done" /\ result'[g] = r
      BY <2>1, <2>2 DEF Arrays
    <2>6. Stamped(g)' /\ verdict[g] # "none"
      BY <1>1, <2>2, <2>5 DEF Stamped, Arrays, CallInv
    <2>7. CallInv(g)'
      <3> HIDE DEF Made, Intended, Stamped, Formed
      <3> QED BY <1>1, <1>2, <1>3, <2>2, <2>3, <2>5, <2>6 DEF CallInv
    <2> QED BY <1>1, <1>2, <2>1, <2>2, <2>4, <2>7 DEF Arrays
  <1> QED BY <1>4, <1>5, <1>6, <1>7, <1>8 DEF Step

\* The exchange takes, declines or refuses what was sent.
LEMMA ReceiveInv ==
  ASSUME Arrays, NEW g \in Calls, CallInv(g), Receive(g)
  PROVE  /\ CallInv(g)' /\ Arrays' /\ UNCHANGED <<clientVars, stamped, nonce>>
         /\ verdict[g] = "none"
         /\ used' \subseteq used \cup {nonce[g]} /\ used \subseteq used'
         /\ used' # used => Accepted(g)'
         /\ verdict'[g] = "stale" => nonce[g] \in used
         /\ \A h \in Calls \ {g} :
               /\ pc'[h] = pc[h] /\ action'[h] = action[h] /\ want'[h] = want[h]
               /\ stamped'[h] = stamped[h] /\ nonce'[h] = nonce[h] /\ envelope'[h] = envelope[h]
               /\ verdict'[h] = verdict[h] /\ result'[h] = result[h]
  <1>1. /\ pc[g] = "post" /\ pc' = [pc EXCEPT ![g] = "answer"]
        /\ UNCHANGED <<clientVars, action, want, stamped, nonce, envelope, result>>
        /\ UNCHANGED <<registryVars, roster, vault, expiresAfter, now>>
    BY DEF Receive, Goto, clientVars
  <1>2. PICK v \in {"forged", "stale", "taken", "declined"} :
            /\ verdict' = [verdict EXCEPT ![g] = v]
            /\ v = "forged" <=> ~Genuine(g)
            /\ v = "stale" => envelope[g].nonce \in used
            /\ \/ UNCHANGED used
               \/ v \in {"taken", "declined"} /\ used' = used \cup {envelope[g].nonce}
    BY DEF Receive
  <1>3. Sent(g) /\ Formed(action[g]) /\ verdict[g] = "none" /\ result[g] = "none"
    BY <1>1 DEF CallInv, Arrays
  <1>4. envelope[g].nonce = nonce[g]
    BY <1>3 DEF Sent
  <1>5. nonce[g] \in Nat
    <2>1. stamped[g] \in Nat /\ nonce[g] = UnixMilli(stamped[g])
      BY <1>1, TimeAssumption DEF CallInv, Stamped, Arrays
    <2>2. TicksPerMs \in Nat \ {0}
      BY TimeAssumption
    <2> QED BY <2>1, <2>2 DEF UnixMilli
  <1>6. Arrays'
    BY <1>1, <1>2, <1>4, <1>5 DEF Arrays
  <1>7. pc'[g] = "answer" /\ verdict'[g] = v
    BY <1>1, <1>2 DEF Arrays
  <1>8. /\ v = "forged" <=>
               /\ action[g].scheme = "L1"
               /\ action[g].vault # vault \/ envelope[g].signature[6] # None
        /\ Sent(g)'
    BY <1>1, <1>2, <1>3, SentGenuine DEF Sent
  <1>9. Stamped(g)' /\ Made' /\ Intended(want[g], action[g])'
    <2>1. Stamped(g)' /\ Made'
      BY <1>1, <1>7 DEF CallInv, Stamped, Made, registryVars
    <2> PICK w : w = want[g]
      OBVIOUS
    <2> PICK a : a = action[g]
      OBVIOUS
    <2>2. Intended(want[g], action[g])'
      BY <1>1, IntentStays DEF CallInv
    <2> QED BY <2>1, <2>2
  <1>10. CallInv(g)'
    <2> HIDE DEF Made, Intended, Stamped, Formed, Sent
    <2> QED BY <1>1, <1>2, <1>3, <1>7, <1>8, <1>9 DEF CallInv
  <1> QED BY <1>1, <1>2, <1>3, <1>4, <1>6, <1>7, <1>10 DEF Arrays, Accepted

-------------------------------------------------------------------------------
(***************************************************************************)
(* Nonces.                                                                 *)
(***************************************************************************)
\* Calls keep their nonces and verdicts once the exchange has decided.
LEMMA NoncesKept ==
  ASSUME Arrays, NonceInv, NonceRefusal, UNCHANGED exchangeVars,
         \A h \in Calls : verdict[h] # "none" => stamped'[h] = stamped[h] /\ nonce'[h] = nonce[h]
  PROVE  NonceInv' /\ NonceRefusal'
  <1>1. used' = used /\ verdict' = verdict
    BY DEF exchangeVars
  <1>2. NonceInv'
    <2>1. \A n \in used : \E h \in Calls : Accepted(h) /\ nonce[h] = n
      BY DEF NonceInv
    <2>2. \A n \in used' : \E h \in Calls : Accepted(h)' /\ nonce'[h] = n
      BY <1>1, <2>1 DEF Accepted
    <2> QED BY <2>2 DEF NonceInv
  <1>3. NonceRefusal'
    BY <1>1 DEF NonceRefusal
  <1> QED BY <1>2, <1>3

\* A nonce that is refused was accepted for another call.
LEMMA ReceiveNonces ==
  ASSUME Arrays, NonceInv, NonceRefusal, \A h \in Calls : CallInv(h), NEW g \in Calls, Receive(g)
  PROVE  NonceInv' /\ NonceRefusal'
  <1>1. /\ UNCHANGED <<stamped, nonce>> /\ verdict[g] = "none"
        /\ used' \subseteq used \cup {nonce[g]} /\ (used' # used => Accepted(g)')
        /\ verdict'[g] = "stale" => nonce[g] \in used
        /\ \A h \in Calls \ {g} : verdict'[h] = verdict[h]
    BY ReceiveInv
  <1>2. \A n \in used : \E h \in Calls \ {g} : Accepted(h) /\ nonce[h] = n
    BY <1>1 DEF NonceInv, Accepted
  <1>3. \A n \in used' : \E h \in Calls : Accepted(h)' /\ nonce'[h] = n
    BY <1>1, <1>2 DEF Accepted
  <1>4. NonceInv'
    BY <1>3 DEF NonceInv
  <1>5. ASSUME verdict'[g] = "stale"
        PROVE  \E h \in Calls \ {g} : /\ verdict'[h] \in {"taken", "declined"}
                                      /\ stamped[h] - stamped[g] < TicksPerMs
                                      /\ stamped[g] - stamped[h] < TicksPerMs
    <2>1. PICK h \in Calls \ {g} : Accepted(h) /\ nonce[h] = nonce[g]
      BY <1>1, <1>2, <1>5
    <2>2. pc[g] = "post" /\ pc[h] \in {"answer", "done"}
      BY <2>1 DEF Receive, CallInv, Accepted
    <2>3. /\ stamped[h] \in Nat /\ nonce[h] = UnixMilli(stamped[h])
          /\ stamped[g] \in Nat /\ nonce[g] = UnixMilli(stamped[g])
      BY <2>2 DEF CallInv, Stamped, Arrays
    <2> QED BY <1>1, <2>1, <2>3, SameMillisecond DEF Accepted
  <1>6. NonceRefusal'
    <2>1. ASSUME NEW f \in Calls \ {g}, verdict'[f] = "stale"
          PROVE  \E h \in Calls \ {f} : /\ verdict'[h] \in {"taken", "declined"}
                                        /\ stamped[h] - stamped[f] < TicksPerMs
                                        /\ stamped[f] - stamped[h] < TicksPerMs
      BY <1>1, <2>1 DEF NonceRefusal
    <2> QED BY <1>1, <1>5, <2>1 DEF NonceRefusal
  <1> QED BY <1>4, <1>6

-------------------------------------------------------------------------------
\* The initial state satisfies the inductive invariant.
LEMMA PipelineInitInv == PipelineInit => PipelineInv
  <1> SUFFICES ASSUME PipelineInit PROVE PipelineInv
    OBVIOUS
  <1>1. RegistryInv
    BY RegistryInitInv DEF PipelineInit
  <1>2. Arrays /\ NonceInv /\ NonceRefusal
    BY TimeAssumption DEF PipelineInit, Arrays, NonceInv, NonceRefusal
  <1>3. ASSUME NEW g \in Calls PROVE CallInv(g)
    BY DEF PipelineInit, CallInv, Stamped
  <1> QED BY <1>1, <1>2, <1>3 DEF PipelineInv

LEMMA PipelineNextInv == PipelineInv /\ [PipelineNext]_pipelineVars => PipelineInv'
  <1> SUFFICES ASSUME PipelineInv, [PipelineNext]_pipelineVars PROVE PipelineInv'
    OBVIOUS
  <1>1. RegistryInv /\ Arrays /\ NonceInv /\ NonceRefusal /\ \A h \in Calls : CallInv(h)
    BY DEF PipelineInv
  <1>2. ASSUME NEW g \in Calls, Begin(g) PROVE PipelineInv'
    <2>1. UNCHANGED <<clientVars, exchangeVars, registryVars, stamped, nonce>>
      BY <1>2, BeginReady, <1>1 DEF Begin, Ready, Build, clientVars
    <2>2. Arrays' /\ \A h \in Calls : CallInv(h)'
      BY <1>1, <1>2, <2>1, BeginInv, OneCall
    <2>3. NonceInv' /\ NonceRefusal'
      BY <1>1, <2>1, NoncesKept
    <2> QED BY <1>1, <2>1, <2>2, <2>3, RegistryStutterInv DEF PipelineInv
  <1>3. ASSUME NEW g \in Calls, Step(g) PROVE PipelineInv'
    <2>1. UNCHANGED <<clientVars, exchangeVars, registryVars>>
      BY <1>3 DEF Step, clientVars
    <2>2. Arrays' /\ \A h \in Calls : CallInv(h)'
      BY <1>1, <1>3, <2>1, StepInv, OneCall
    <2>3. \A h \in Calls : verdict[h] # "none" => stamped'[h] = stamped[h] /\ nonce'[h] = nonce[h]
      BY <1>1, <1>3 DEF Step, Stamp, SignFails, Sign, Lose, Reply, CallInv, Arrays
    <2>4. NonceInv' /\ NonceRefusal'
      BY <1>1, <2>1, <2>3, NoncesKept
    <2> QED BY <1>1, <2>1, <2>2, <2>4, RegistryStutterInv DEF PipelineInv
  <1>4. ASSUME NEW g \in Calls, Receive(g) PROVE PipelineInv'
    <2>1. UNCHANGED <<clientVars, registryVars>>
      BY <1>4 DEF Receive, clientVars
    <2>2. Arrays' /\ \A h \in Calls : CallInv(h)'
      BY <1>1, <1>4, <2>1, ReceiveInv, OneCall
    <2>3. NonceInv' /\ NonceRefusal'
      BY <1>1, <1>4, ReceiveNonces
    <2> QED BY <1>1, <2>1, <2>2, <2>3, RegistryStutterInv DEF PipelineInv
  <1>5. ASSUME UNCHANGED <<callVars, exchangeVars, vault, roster>>, now' \in 0..MaxClock, now <= now',
               expiresAfter' \in Deadlines, RegistryInv',
               UNCHANGED registryVars \/ \A h \in Calls : pc[h] = "idle"
        PROVE  PipelineInv'
    <2>1. Arrays'
      BY <1>1, <1>5 DEF Arrays, callVars, exchangeVars
    <2>2. \A h \in Calls : CallInv(h)'
      <3>1. now' \in Nat /\ UNCHANGED <<pc, action, want, stamped, nonce, envelope, result, verdict>>
        BY <1>5, TimeAssumption DEF callVars, exchangeVars
      <3> QED BY <1>1, <1>5, <3>1, Untouched
    <2>3. NonceInv' /\ NonceRefusal'
      BY <1>1, <1>5, NoncesKept DEF callVars
    <2> QED BY <1>5, <2>1, <2>2, <2>3 DEF PipelineInv
  <1>6. now \in 0..MaxClock /\ MaxClock \in Nat /\ expiresAfter \in Deadlines
    BY <1>1, TimeAssumption DEF Arrays
  <1>7. CASE Make
    <2>1. RegistryInv' /\ \A h \in Calls : pc[h] = "idle"
      <3>1. ~Made
        BY <1>1, <1>7, UniverseFacts DEF Make, Register, Made, RegistryInv, RegistryTypeOK
      <3> QED BY <1>1, <1>7, <3>1, RegistryNextInv DEF Make, CallInv
    <2>2. UNCHANGED <<callVars, exchangeVars, vault, roster, now, expiresAfter>>
      BY <1>7 DEF Make
    <2> QED BY <1>5, <1>6, <2>1, <2>2
  <1>8. CASE Tick \/ SetExpiresAfter \/ UNCHANGED pipelineVars
    <2>1. /\ UNCHANGED <<registryVars, callVars, exchangeVars, vault, roster>>
          /\ now' \in 0..MaxClock /\ now <= now' /\ expiresAfter' \in Deadlines
      BY <1>6, <1>8 DEF Tick, SetExpiresAfter, pipelineVars, clientVars
    <2>2. RegistryInv'
      BY <1>1, <2>1, RegistryStutterInv
    <2> QED BY <1>5, <2>1, <2>2
  <1> QED BY <1>2, <1>3, <1>4, <1>7, <1>8 DEF PipelineNext

LEMMA PipelineInvariance == PipelineSpec => []PipelineInv
  BY PipelineInitInv, PipelineNextInv, PTL DEF PipelineSpec

-------------------------------------------------------------------------------
(***************************************************************************)
(* What a reader should know.                                              *)
(***************************************************************************)
\* Every variable of the pipeline keeps its type; a result comes with the end of a call,
\* a nonce with its stamp.
THEOREM PipelineTypeCorrect == PipelineSpec => []PipelineTypeOK
  <1>1. PipelineInv => PipelineTypeOK
    <2> SUFFICES ASSUME PipelineInv PROVE PipelineTypeOK
      OBVIOUS
    <2>1. ASSUME NEW g \in Calls
          PROVE  /\ pc[g] # "idle" => Made
                 /\ pc[g] # "idle" => action[g].scheme \in {"L1", "user"}
                 /\ IF pc[g] \in {"idle", "stamp"} THEN stamped[g] = None /\ nonce[g] = None
                    ELSE stamped[g] \in 0..now /\ nonce[g] = UnixMilli(stamped[g])
                 /\ pc[g] \in {"post", "answer"} => envelope[g].nonce = nonce[g]
                 /\ verdict[g] # "none" => pc[g] \in {"answer", "done"}
                 /\ result[g] # "none" <=> pc[g] = "done"
      <3>1. CallInv(g)
        BY DEF PipelineInv
      <3>2. pc[g] \in {"post", "answer"} => envelope[g].nonce = nonce[g]
        <4>1. Sent(g) => envelope[g].nonce = nonce[g]
          BY DEF Sent
        <4> QED BY <3>1, <4>1 DEF CallInv
      <3>3. pc[g] # "idle" => action[g].scheme \in {"L1", "user"}
        BY <3>1 DEF CallInv, Formed, FormedL1, FormedUser
      <3> QED BY <3>1, <3>2, <3>3 DEF CallInv, Stamped
    <2> QED BY <2>1 DEF PipelineTypeOK, PipelineInv, Arrays, RegistryInv
  <1> QED BY PipelineInvariance, <1>1, PTL

\* exchange.go:236: an envelope names the signer of what executeAction or
\* executeUserSignedAction signed, but for an L1 action with a deadline and one of a verb
\* that hashes no vault on a client that posts one.
THEOREM SignersRecovered == PipelineSpec => []VerifiesExactly
  <1>1. PipelineInv => VerifiesExactly
    BY DEF PipelineInv, CallInv, VerifiesExactly
  <1> QED BY PipelineInvariance, <1>1, PTL

\* exchange.go:175: a nonce is refused only beside one that the client took in the same
\* millisecond and that the exchange accepted.
THEOREM NoncesRefusedInPairs == PipelineSpec => []NonceRefusal
  <1>1. PipelineInv => NonceRefusal
    BY DEF PipelineInv
  <1> QED BY PipelineInvariance, <1>1, PTL

\* account.go:323: every order, cancel and setting goes to the asset of the last
\* registration of its coin; a modify, and a cancel or setting of an unknown coin, to
\* asset 0.
THEOREM ActionsHit == PipelineSpec => []ActionsHitTheirCoin
  <1>1. PipelineInv => ActionsHitTheirCoin
    BY DEF PipelineInv, CallInv, Intended, Targeted, ActionsHitTheirCoin
  <1> QED BY PipelineInvariance, <1>1, PTL

\* internal/wire/wire.go:79, 133 and trade/wire.go:64: an order's size is the one asked for but for
\* lost zeros, its price half a step from it or closer, where whole prices may lose their
\* zeros too; a conversion never moves more than its amount is worth.
THEOREM NumbersSent == PipelineSpec => []NumbersArrive
  <1>1. PipelineInv => NumbersArrive
    <2> SUFFICES ASSUME PipelineInv, NEW g \in Calls, want[g] # None, action[g].type = "order"
                 PROVE  NumberArrives(action[g].fields.orders[1], want[g])
      BY DEF NumbersArrive
    <2> QED BY DEF PipelineInv, CallInv, Intended, Priced
  <1> QED BY PipelineInvariance, <1>1, PTL

\* trade.go, resultFromResponse: a success is of an action that the exchange took, but for a change of
\* leverage; a refusal is of one that it did not.
THEOREM ReportsAreReal == PipelineSpec => []ReportIsReal
  <1>1. PipelineInv => ReportIsReal
    BY DEF PipelineInv, CallInv, ReportIsReal
  <1> QED BY PipelineInvariance, <1>1, PTL

\* info.go:222: the names of the pipeline's tables, which its calls look up, resolve, and
\* the buckets of a question keep theirs.
THEOREM PipelineNamesResolve == PipelineSpec => [](NamesResolve /\ BucketsStayApart)
  <1>1. PipelineInv => NamesResolve /\ BucketsStayApart
    BY LookUpEnds, BucketsAreTold DEF PipelineInv
  <1> QED BY PipelineInvariance, <1>1, PTL
===============================================================================
