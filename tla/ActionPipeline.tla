----------------------------- MODULE ActionPipeline -----------------------------
(***************************************************************************)
(* The life of a signed action: a verb of trade.Client builds it, takes    *)
(* its nonce from the clock, signs it with the deadline of that moment and *)
(* posts it; the exchange recomputes what was signed from the envelope it  *)
(* got; the answer, or its loss, becomes the result of the call.           *)
(*                                                                         *)
(* Every call runs in a goroutine of its own on one client, made before by *)
(* AssetRegistry.  A step runs from one access to shared state (the clock, *)
(* c.expiresAfter, the exchange) to the next.  A call that its own checks  *)
(* refuse changes nothing and is not modelled.  The exchange and the       *)
(* network are external.                                                   *)
(***************************************************************************)
EXTENDS OrderActions

CONSTANTS
    Calls,        \* calls of the application
    Rosters,      \* bound: what the calls may be, a set of verbs for each
    Vaults,       \* vault addresses the client may be made with, None for none
    OrderArgs,    \* orders: records of coin, buy, size and price
    Cloid, Oid,   \* an order of the book
    CoinArgs,     \* coins that other verbs are called with
    Mids,         \* mid prices the exchange may quote
    Slippage,     \* percent
    Tokens,       \* the two tokens of Convert, base and quote
    Amount,       \* their amount
    Deadlines,    \* values of SetExpiresAfter, None to clear it
    TicksPerMs,   \* ticks of the clock in a millisecond
    MaxClock      \* bound: ticks that pass

Verbs == {"limit", "batch", "market", "convert", "cancel", "cancelByCloid", "modify", "margin",
          "transfer", "stake", "sub", "outcome", "account", "deploy", "validator"}

ASSUME CallsAssumption == Rosters \subseteq [Calls -> SUBSET Verbs]
ASSUME TimeAssumption ==
    MaxClock \in Nat /\ TicksPerMs \in Nat \ {0} /\ Deadlines \subseteq Nat \cup {None}
ASSUME NumbersAssumption ==
    /\ Mids \subseteq Nat \ {0} /\ Slippage \in 0..100 /\ Amount \in Nat \ {0}
    /\ OrderArgs \subseteq [coin : Names, buy : BOOLEAN, size : Nat, price : Nat]
ASSUME NoneIsNoTime == None \notin Nat

VARIABLES
    roster,        \* what the application makes its calls for
    vault,         \* c.vault
    expiresAfter,  \* c.expiresAfter
    now,           \* the clock
    pc,            \* pc[g]: where call g is
    action,        \* action[g]: its action
    want,          \* want[g]: the order, cancel or setting it was asked for, if any
    stamped,       \* stamped[g]: when its nonce was taken
    nonce,         \* nonce[g]: its nonce
    envelope,      \* envelope[g]: what it posted
    used,          \* exchange: nonces it accepted
    verdict,       \* verdict[g]: what the exchange made of it
    result         \* result[g]: what it returned

clientVars   == <<registryVars, roster, vault, expiresAfter, now>>
callVars     == <<pc, action, want, stamped, nonce, envelope, result>>
exchangeVars == <<used, verdict>>
pipelineVars == <<clientVars, callVars, exchangeVars>>

PipelineInit ==
    /\ RegistryInit /\ roster \in Rosters /\ vault \in Vaults /\ expiresAfter \in Deadlines /\ now = 0
    /\ pc = [g \in Calls |-> "idle"] /\ action = [g \in Calls |-> None]
    /\ want = [g \in Calls |-> None]
    /\ stamped = [g \in Calls |-> None] /\ nonce = [g \in Calls |-> None]
    /\ envelope = [g \in Calls |-> None] /\ used = {}
    /\ verdict = [g \in Calls |-> "none"] /\ result = [g \in Calls |-> "none"]

Goto(g, label) == pc' = [pc EXCEPT ![g] = label]

-------------------------------------------------------------------------------
(***************************************************************************)
(* Verbs.                                                                  *)
(***************************************************************************)
Wanted(kind, coin, size, price) ==
    [kind |-> kind, coin |-> coin, size |-> size, price |-> price]

\* A call has built its action.
Build(g, a, wanted) ==
    /\ pc[g] = "idle" /\ Goto(g, "stamp")
    /\ action' = [action EXCEPT ![g] = a] /\ want' = [want EXCEPT ![g] = wanted]
    /\ UNCHANGED <<stamped, nonce, envelope, result>>

\* PlaceALO, PlaceIOC, PlaceGTC.
PlaceLimit(g) ==
    \E o \in OrderArgs :
        /\ Valid(o, TRUE)
        /\ \E a \in newCreateOrderAction(vault, o) :
              Build(g, a, Wanted("limit", o.coin, o.size, o.price))

\* PlaceMany of a Market spec: nobody asks for the mid price.
PlaceManyMarket(g) ==
    \E o \in OrderArgs :
        /\ o.price = 0 /\ Valid(o, FALSE)
        /\ \E a \in newCreateOrderAction(vault, o) :
              Build(g, a, Wanted("batch", o.coin, o.size, 0))

\* PlaceMarket at some mid price; wanted is what the caller means by it.
Market(g, coin, buy, size, slippage, wanted) ==
    /\ Quoted(coin)
    /\ \E mid \in Mids : \E px \in SlippagePrice(coin, buy, slippage, mid) :
          LET o == [coin |-> coin, buy |-> buy, size |-> size, price |-> px]
          IN  /\ Valid(o, FALSE)
              /\ \E a \in newCreateOrderAction(vault, o) :
                    Build(g, a, [wanted EXCEPT !.price = Worst(coin, buy, slippage, mid)])

PlaceMarket(g) ==
    \E o \in OrderArgs :
        o.price = 0 /\ Market(g, o.coin, o.buy, o.size, Slippage,
                              Wanted("market", o.coin, o.size, 0))

\* USDCToUSDH: the size is computed at one mid price, the limit at a later one.
ConvertSpot(g) ==
    \E pair \in findSpotPair(universe, Tokens[1], Tokens[2]), mid \in Mids :
        \E size \in BuySizes(pair, Amount, mid) :
            Market(g, pair, TRUE, size, 5,
                   Wanted("convert", pair, (Amount * One) \div mid, 0))

\* USDHToUSDC.
ConvertSpotSize(g) ==
    \E pair \in findSpotPair(universe, Tokens[1], Tokens[2]) :
        \E size \in SellSizes(pair, Amount) :
            Market(g, pair, FALSE, size, 5, Wanted("convert", pair, Amount, 0))

Cancel(g) ==
    \E coin \in CoinArgs :
        Build(g, bulkCancel(vault, coin, Oid), Wanted("other", coin, 0, 0))

CancelCloid(g) ==
    \E coin \in CoinArgs :
        Build(g, CancelByCloid(vault, coin, Cloid), Wanted("other", coin, 0, 0))

\* Modify, ModifyByCloid, of an order of any coin, with WithLimit, WithSize or both.
Modify(g) ==
    \E id \in {Oid, Cloid}, o \in OrderArgs :
        /\ o.price > 0 \/ o.size > 0
        /\ \E a \in newModifyOrderAction(vault, id, o.price, o.size) :
              Build(g, a, Wanted("modify", None, o.size, o.price))

Leverage(g) ==
    \E coin \in CoinArgs :
        \/ \E cross \in BOOLEAN :
              Build(g, SetLeverage(vault, AssetID(coin), 5, cross), Wanted("other", coin, 0, 0))
        \/ Build(g, AdjustMargin(vault, AssetID(coin), Amount), Wanted("other", coin, 0, 0))

Transfer(g) ==
    LET amount == FormatUsdAmount(Amount)
    IN  \/ Build(g, SendUSD("to", amount), None)
        \/ Build(g, SendSpot("to", "USDC", amount), None)
        \/ Build(g, Withdraw(amount, "to"), None)
        \/ \E in \in BOOLEAN, usd \in FloatToUsdInt(Amount) :
              Build(g, VaultTransfer("vault", in, usd), None)
        \/ \E in \in BOOLEAN : Build(g, UsdClassTransfer(vault, amount, in), None)
        \/ Build(g, SendAsset(vault, "own", "", "flx", "USDC", amount), None)
        \/ Build(g, SendAsset(vault, "own", "flx", "", "USDC", amount), None)

\* Delegate, Undelegate; wei is an int64 that is hashed as a uint64.
Stake(g) ==
    \E wei \in {-1, 1}, undo \in BOOLEAN : Build(g, TokenDelegate("validator", wei, undo), None)

Account(g) ==
    \/ \E deadline \in Deadlines : Build(g, ScheduleCancelAll(vault, deadline), None)
    \/ Build(g, SetReferrer("code"), None)
    \/ \E big \in BOOLEAN : Build(g, UseBigBlocks(big), None)
    \/ \E name \in {"", "agent"} : Build(g, ApproveAgent("key", name), None)
    \/ Build(g, ApproveBuilderFee("builder", "0.1%"), None)
    \/ Build(g, MultiSigConvert({"a", "b"}, 1), None)
    \/ Build(g, MultiSigExecute(vault, "inner", "signers", "signatures"), None)

SubAccount(g) ==
    \/ Build(g, CreateSubAccount("name"), None)
    \/ \E in \in BOOLEAN : \/ \E usd \in FloatToUsdInt(Amount) :
                                  Build(g, SubAccountTransfer("sub", in, usd), None)
                           \/ Build(g, SubAccountSpotTransfer(vault, "sub", in, "USDC", Amount),
                                    None)

\* nil asks for the maximum.
Outcome(g) ==
    \/ Build(g, Split(vault, 1, Amount), None)
    \/ \E amount \in {None, Amount} : \/ Build(g, Merge(vault, 1, amount), None)
                                      \/ Build(g, MergeQuestion(vault, 1, amount), None)
    \/ Build(g, Negate(vault, 1, 2, Amount), None)

Deploy(g) ==
    \/ Build(g, SpotDeployRegisterToken("spec", 1, "name"), None)
    \/ Build(g, SpotDeployUserGenesis(vault, "balances"), None)
    \/ Build(g, SpotDeployEnableFreezePrivilege(vault), None)
    \/ Build(g, SpotDeployFreezeUser(vault, "user"), None)
    \/ Build(g, SpotDeployRevokeFreezePrivilege(vault), None)
    \/ Build(g, SpotDeployGenesis(vault, "deployer", "dex"), None)
    \/ Build(g, SpotDeployRegisterSpot(vault, "base", "quote"), None)
    \/ Build(g, SpotDeployRegisterHyperliquidity(vault, "name", "tokens"), None)
    \/ Build(g, SpotDeploySetDeployerTradingFeeShare(vault, "share"), None)
    \/ Build(g, PerpDeployRegisterAsset(vault, "asset", "input"), None)
    \/ Build(g, PerpDeploySetOracle(vault, "asset", "oracle"), None)

Validator(g) ==
    \/ Build(g, CSignerUnjailSelf(vault), None)
    \/ Build(g, CSignerJailSelf(vault), None)
    \/ Build(g, CSignerInner(vault, "inner"), None)
    \/ Build(g, CValidatorRegister(vault, "profile"), None)
    \/ Build(g, CValidatorChangeProfile(vault, "profile"), None)
    \/ Build(g, CValidatorUnregister(vault), None)

\* A call begins once the client is made.
Begin(g) ==
    /\ Made
    /\ \/ "limit" \in roster[g] /\ PlaceLimit(g)
       \/ "batch" \in roster[g] /\ PlaceManyMarket(g)
       \/ "market" \in roster[g] /\ PlaceMarket(g)
       \/ "convert" \in roster[g] /\ (ConvertSpot(g) \/ ConvertSpotSize(g))
       \/ "cancel" \in roster[g] /\ Cancel(g)
       \/ "cancelByCloid" \in roster[g] /\ CancelCloid(g)
       \/ "modify" \in roster[g] /\ Modify(g)
       \/ "margin" \in roster[g] /\ Leverage(g)
       \/ "transfer" \in roster[g] /\ Transfer(g)
       \/ "stake" \in roster[g] /\ Stake(g)
       \/ "sub" \in roster[g] /\ SubAccount(g)
       \/ "outcome" \in roster[g] /\ Outcome(g)
       \/ "account" \in roster[g] /\ Account(g)
       \/ "deploy" \in roster[g] /\ Deploy(g)
       \/ "validator" \in roster[g] /\ Validator(g)
    /\ UNCHANGED <<clientVars, exchangeVars>>

-------------------------------------------------------------------------------
(***************************************************************************)
(* executeAction, executeUserSignedAction and the verbs that do the same   *)
(* themselves: nonce, signature, envelope.                                 *)
(***************************************************************************)
\* Mutant: Unix seconds.
UnixMilli_Seconds(t) == t \div (2 * TicksPerMs)

UnixMilli(t) == t \div TicksPerMs

Stamp(g) ==
    /\ pc[g] = "stamp" /\ Goto(g, "sign")
    /\ stamped' = [stamped EXCEPT ![g] = now]
    /\ nonce' = [nonce EXCEPT ![g] = UnixMilli(now)]
    /\ UNCHANGED <<action, want, envelope, result>>

\* The fields that are posted: an action of the user repeats the nonce and names the chain.
Posted(a, n) ==
    IF a.scheme = "L1" THEN a.fields ELSE OnChain(Put(a.fields, {a.stamp}, n))

Signature(a, n, deadline) ==
    IF a.scheme = "L1" THEN ActionHash(a.type, a.fields, a.vault, n, deadline)
    ELSE HashStructLenient(a.type, Posted(a, n), a.signs)

\* An action that cannot be hashed is not sent.
SignFails(g) ==
    /\ pc[g] = "sign" /\ action[g].scheme = "user"
    /\ ~Hashable(Posted(action[g], nonce[g]), action[g].signs)
    /\ Goto(g, "done") /\ result' = [result EXCEPT ![g] = "error"]
    /\ UNCHANGED <<action, want, stamped, nonce, envelope>>

\* Signed with the deadline of this moment, which the envelope does not carry.
Sign(g) ==
    LET a == action[g]
    IN  /\ pc[g] = "sign"
        /\ a.scheme = "user" => Hashable(Posted(a, nonce[g]), a.signs)
        /\ Goto(g, "post")
        /\ envelope' = [envelope EXCEPT ![g] =
               [type |-> a.type, fields |-> Posted(a, nonce[g]), nonce |-> nonce[g],
                vaultAddress |-> VaultAddress(a.type, vault),
                signature |-> Signature(a, nonce[g], expiresAfter)]]
        /\ UNCHANGED <<action, want, stamped, nonce, result>>

\* Mutant: the error is dropped.
Lose_Silent(g) ==
    /\ pc[g] \in {"post", "answer"} /\ Goto(g, "done")
    /\ UNCHANGED <<action, want, stamped, nonce, envelope, result>>

\* A call fails when its request, or the answer, gets lost and the connection with it.
Lose(g) ==
    /\ pc[g] \in {"post", "answer"} /\ Goto(g, "done")
    /\ result' = [result EXCEPT ![g] = "error"]
    /\ UNCHANGED <<action, want, stamped, nonce, envelope>>

\* What the verb makes of the answer.
Results(reply, v) ==
    IF v = "taken" THEN IF reply = "either" THEN {"ok", "error"} ELSE {"ok"}
    ELSE CASE reply = "shown"  -> {"refused"}
           [] reply = "raised" -> {"error"}
           [] reply = "either" -> {"refused", "error"}
           [] OTHER            -> {"ok"}

Reply(g) ==
    /\ pc[g] = "answer" /\ Goto(g, "done")
    /\ \E r \in Results(action[g].reply, verdict[g]) : result' = [result EXCEPT ![g] = r]
    /\ UNCHANGED <<action, want, stamped, nonce, envelope>>

-------------------------------------------------------------------------------
(***************************************************************************)
(* The exchange, external: it recovers the signer from what the envelope   *)
(* says, takes a nonce once, and takes or declines the action.             *)
(***************************************************************************)
\* What must have been signed for this envelope.  No deadline is posted.
Recomputed(scheme, e) ==
    IF scheme = "L1" THEN ActionHash(e.type, e.fields, e.vaultAddress, e.nonce, None)
    ELSE HashStructLenient(e.type, e.fields, DOMAIN e.fields \ {"signatureChainId"})

Genuine(g) ==
    /\ envelope[g].signature = Recomputed(action[g].scheme, envelope[g])
    /\ action[g].scheme = "user" =>
          /\ envelope[g].vaultAddress = None
          /\ envelope[g].fields[action[g].stamp] = envelope[g].nonce

Receive(g) ==
    /\ pc[g] = "post" /\ Goto(g, "answer")
    /\ \/ /\ ~Genuine(g) /\ verdict' = [verdict EXCEPT ![g] = "forged"] /\ UNCHANGED used
       \/ /\ Genuine(g) /\ envelope[g].nonce \in used
          /\ verdict' = [verdict EXCEPT ![g] = "stale"] /\ UNCHANGED used
       \/ /\ Genuine(g) /\ envelope[g].nonce \notin used
          /\ used' = used \cup {envelope[g].nonce}
          /\ \E v \in {"taken", "declined"} : verdict' = [verdict EXCEPT ![g] = v]
    /\ UNCHANGED <<clientVars, action, want, stamped, nonce, envelope, result>>

-------------------------------------------------------------------------------
Tick ==
    /\ now < MaxClock /\ now' = now + 1
    /\ UNCHANGED <<registryVars, roster, vault, expiresAfter, callVars, exchangeVars>>

SetExpiresAfter ==
    /\ \E deadline \in Deadlines : expiresAfter' = deadline
    /\ UNCHANGED <<registryVars, roster, vault, now, callVars, exchangeVars>>

Make == Register /\ UNCHANGED <<roster, vault, expiresAfter, now, callVars, exchangeVars>>

Step(g) ==
    /\ Stamp(g) \/ SignFails(g) \/ Sign(g) \/ Lose(g) \/ Reply(g)
    /\ UNCHANGED <<clientVars, exchangeVars>>

PipelineNext ==
    Make \/ Tick \/ SetExpiresAfter \/ \E g \in Calls : Begin(g) \/ Step(g) \/ Receive(g)

PipelineSpec == PipelineInit /\ [][PipelineNext]_pipelineVars

-------------------------------------------------------------------------------
(***************************************************************************)
(* Properties.                                                             *)
(***************************************************************************)
\* Types, and what is there at each point of a call.
PipelineTypeOK ==
    /\ RegistryTypeOK /\ roster \in Rosters /\ vault \in Vaults /\ expiresAfter \in Deadlines /\ now \in 0..MaxClock
    /\ pc \in [Calls -> {"idle", "stamp", "sign", "post", "answer", "done"}]
    /\ used \subseteq Nat
    /\ verdict \in [Calls -> {"none", "forged", "stale", "taken", "declined"}]
    /\ result \in [Calls -> {"none", "ok", "refused", "error"}]
    /\ \A g \in Calls :
          /\ pc[g] # "idle" => Made
          /\ pc[g] # "idle" => action[g].scheme \in {"L1", "user"}
          /\ IF pc[g] \in {"idle", "stamp"} THEN stamped[g] = None /\ nonce[g] = None
             ELSE stamped[g] \in 0..now /\ nonce[g] = UnixMilli(stamped[g])
          /\ pc[g] \in {"post", "answer"} => envelope[g].nonce = nonce[g]
          /\ verdict[g] # "none" => pc[g] \in {"answer", "done"}
          /\ result[g] # "none" <=> pc[g] = "done"

\* The exchange recovers the signer of every action, whatever happens to the client
\* between signing and posting, but for two of the L1 scheme: one signed with a deadline,
\* which executeAction does not post, and one of a verb that hashes no vault on a client
\* that posts one.
VerifiesExactly ==
    \A g \in Calls :
        verdict[g] # "none" =>
            (verdict[g] = "forged" <=>
                /\ action[g].scheme = "L1"
                /\ action[g].vault # vault \/ envelope[g].signature[6] # None)

\* An action is refused for its nonce only when another call took its nonce in the same
\* millisecond and the exchange accepted that one: nothing else makes two nonces equal.
NonceRefusal ==
    \A g \in Calls :
        verdict[g] = "stale" =>
            \E h \in Calls \ {g} : /\ verdict[h] \in {"taken", "declined"}
                                   /\ stamped[h] - stamped[g] < TicksPerMs
                                   /\ stamped[g] - stamped[h] < TicksPerMs

\* The asset of a last registration of a name.
Means(name, asset) ==
    \E k \in 1..registered : IsLast(name, k) /\ Registrations[universe][k].asset = asset

ActionAsset(a) ==
    CASE a.type = "order"          -> a.fields.orders[1].a
      [] a.type = "modify"         -> a.fields.order.a
      [] a.type = "cancel"         -> a.fields.cancels[1].a
      [] a.type = "cancelByCloid"  -> a.fields.cancels[1].asset
      [] OTHER                     -> a.fields.asset

\* An action goes to the asset that the coin it was called with was last registered for.
\* A cancel or a setting of an unknown coin goes to asset 0, the first perp, and so does
\* every modify, whose coin is blank; an order never does.
ActionsHitTheirCoin ==
    \A g \in Calls :
        want[g] # None =>
            \/ want[g].kind # "modify" /\ Means(want[g].coin, ActionAsset(action[g]))
            \/ /\ \/ want[g].kind = "other" /\ want[g].coin \notin DOMAIN nameToCoin
                  \/ want[g].kind = "modify"
               /\ ActionAsset(action[g]) = 0

\* SizeToWireDecimals without decimals cuts off the zeros of a number of tens.
Shortened(size, asset) == Decimals(asset) = {0} /\ size % (10 * One) = 0

\* PriceToWireDecimals writes the prices of this asset without a point.
Whole(asset) == Decimals(asset) # {} /\ AllowedDecimals(asset) = 0

\* A price is half of err or less from what was asked for; a whole one may lose zeros
\* instead, which leaves nothing or at most a tenth.
Arrives(p, price, err, asset) ==
    \/ p # NoNumber /\ Within(2 * p, 2 * price, err)
    \/ Whole(asset) /\ (p = NoNumber \/ 20 * p <= 2 * price + err)

\* What reaches the exchange of the numbers asked for.  A size is exact unless it is
\* shortened, a limit price to half its last decimal, and the price of a market order to
\* half of the tick, the last decimal and the fifth figure together, if no zeros are lost;
\* a batch has no price for its market orders; a conversion moves no more than its amount
\* is worth at the first mid price.
SizeArrives(wire, w) == wire.s = w.size <=> ~Shortened(w.size, wire.a)

NumberArrives(wire, w) ==
    LET decimal == DecimalStep(AllowedDecimals(wire.a))
    IN  CASE w.kind = "limit"   -> /\ SizeArrives(wire, w)
                                   /\ Arrives(wire.p, w.price, decimal, wire.a)
          [] w.kind = "market"  -> /\ SizeArrives(wire, w)
                                   /\ Arrives(wire.p, w.price,
                                              FigureStep(w.price, 5) + decimal
                                              + getAssetTickSize(wire.a), wire.a)
          [] w.kind = "batch"   -> /\ SizeArrives(wire, w)
                                   /\ wire.p = IF Whole(wire.a) THEN NoNumber ELSE 0
          [] w.kind = "convert" -> wire.s <= w.size

NumbersArrive ==
    \A g \in Calls :
        want[g] # None /\ action[g].type = "order" =>
            NumberArrives(action[g].fields.orders[1], want[g])

\* What a call returns is true of the exchange: success is of an action that was taken,
\* but for a change of leverage, whose refusal is lost; a refusal in the result is of an
\* action that was not.  Only an error leaves it open.
ReportIsReal ==
    \A g \in Calls :
        /\ result[g] = "ok" => verdict[g] = "taken" \/ action[g].type = "updateLeverage"
        /\ result[g] = "refused" => verdict[g] \notin {"none", "taken"}
===============================================================================
