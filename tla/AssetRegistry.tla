----------------------------- MODULE AssetRegistry -----------------------------
(***************************************************************************)
(* The asset tables of info.Client: New registers every perp, spot pair    *)
(* and outcome side that the exchange lists, in this order and in one name *)
(* table, so that a later registration of a name takes it over.            *)
(*                                                                         *)
(* A name is a tuple of the parts that Sprintf joins, "" where a form has  *)
(* fewer parts; the last part is the number of a canonical name.  Labels   *)
(* made of thresholds never equal a listed name.                           *)
(***************************************************************************)
EXTENDS Integers, Sequences

CONSTANTS
    Universes   \* what /info may list when the client is made

Strings == STRING
Names   == Strings \X Strings \X Strings \X Strings \X Strings \X Nat
Labels  == Strings \X Strings \X Strings

Universe ==
    [dex : Strings, dexs : Seq(Strings),          \* c.perpDexName, /info perpDexs
     perps : Seq([name : Names, dec : Nat]),
     tokens : Seq([name : Strings, index : Nat, dec : Nat]),
     spots : Seq([name : Names, index : Nat, base : Nat, quote : Nat]),
     sides : Seq([id : Nat, name : Strings, idx : Nat, side : Strings]),
     questions : Seq([name : Strings, fallback : Nat, named : Seq(Nat),
                      thresholds : Seq(Strings)])]

\* The client was made for a builder dex.
OnDex(u) == u.dex # ""

\* A pinned client finds its dex (New panics otherwise); the sides of an outcome have
\* names of their own.
ASSUME UniversesAssumption ==
    /\ Universes \subseteq Universe
    /\ \A u \in Universes :
          /\ OnDex(u) => \E i \in DOMAIN u.dexs : u.dexs[i] = u.dex
          /\ \A k \in DOMAIN u.sides :
                /\ u.sides[k].side # ""
                /\ \A l \in DOMAIN u.sides :
                      u.sides[l].id = u.sides[k].id /\ u.sides[l].side = u.sides[k].side
                      => u.sides[l].idx = u.sides[k].idx

VARIABLES
    universe,         \* what /info listed
    registered,       \* registrations made so far
    nameToCoin, coinToAsset, assetToDecimal

registryVars == <<universe, registered, nameToCoin, coinToAsset, assetToDecimal>>

-------------------------------------------------------------------------------
(***************************************************************************)
(* Asset ids and their classes.                                            *)
(***************************************************************************)
spotAssetIndexOffset == 10000
builderPerpAssetBase == 100000
outcomeAssetBase     == 100000000

ClassifyAsset(asset) ==
    CASE asset >= outcomeAssetBase     -> "outcome"
      [] asset >= builderPerpAssetBase
         /\ asset < outcomeAssetBase   -> "builder perp"
      [] asset >= spotAssetIndexOffset
         /\ asset < builderPerpAssetBase -> "spot"
      [] OTHER                         -> "perp"

MaxPriceDecimals(class) == IF class = "spot" THEN 8 ELSE 6

\* The first of the listed dexes that has the name of the pinned one.
DexNumber(u) == CHOOSE i \in DOMAIN u.dexs :
                    u.dexs[i] = u.dex /\ \A j \in 1..(i - 1) : u.dexs[j] # u.dex

PerpBase(u) == IF OnDex(u) THEN builderPerpAssetBase + (DexNumber(u) - 1) * 10000 ELSE 0

-------------------------------------------------------------------------------
(***************************************************************************)
(* Labels of the outcomes of a question.                                   *)
(***************************************************************************)
NoLabel == <<"", "", "">>
Named(name) == <<name, "", "">>

\* bucketLabelsFromThresholds: <<>> when thresholds and outcomes do not match.
LabelsFromThresholds(q) ==
    LET n == Len(q.thresholds)
    IN  IF n = 0 \/ Len(q.named) # n + 1 THEN << >>
        ELSE [i \in 1..(n + 1) |->
                 CASE i = 1              -> <<"Below", q.thresholds[1], "">>
                   [] i > 1 /\ i <= n    -> <<"to", q.thresholds[i - 1], q.thresholds[i]>>
                   [] OTHER              -> <<"Above", q.thresholds[n], "">>]

\* The name of an outcome, "" when it is not listed.
OutcomeName(u, id) ==
    IF \E k \in DOMAIN u.sides : u.sides[k].id = id
    THEN u.sides[CHOOSE k \in DOMAIN u.sides : u.sides[k].id = id].name ELSE ""

\* namesForOutcomes: all of them or none.
NamesForOutcomes(u, ids) ==
    IF \E i \in DOMAIN ids : OutcomeName(u, ids[i]) = "" THEN << >>
    ELSE [i \in DOMAIN ids |-> Named(OutcomeName(u, ids[i]))]

\* Mutant: the names of the outcomes go before the thresholds.
QuestionLabels_NamesFirst(u, q) ==
    IF NamesForOutcomes(u, q.named) # << >> THEN NamesForOutcomes(u, q.named)
    ELSE LabelsFromThresholds(q)

QuestionLabels(u, q) ==
    IF LabelsFromThresholds(q) # << >> THEN LabelsFromThresholds(q)
    ELSE NamesForOutcomes(u, q.named)

\* The questions that own an outcome; FindQuestion returns the first.
Owners(u, id) ==
    {i \in DOMAIN u.questions :
        \/ u.questions[i].fallback = id
        \/ \E k \in DOMAIN u.questions[i].named : u.questions[i].named[k] = id}

FindQuestion(u, id) ==
    u.questions[CHOOSE i \in Owners(u, id) : \A j \in Owners(u, id) : i <= j]

BucketLabel(u, id) ==
    IF Owners(u, id) = {} THEN NoLabel
    ELSE LET q      == FindQuestion(u, id)
             labels == QuestionLabels(u, q)
             at     == {i \in DOMAIN q.named : q.named[i] = id}
         IN  IF id = q.fallback THEN <<"fallback", q.name, "">>
             ELSE IF labels = << >> THEN NoLabel
             ELSE labels[CHOOSE i \in at : \A j \in at : i <= j]

-------------------------------------------------------------------------------
(***************************************************************************)
(* Registrations: the names that come to mean a coin, the coin, its asset  *)
(* and its decimals, a set of at most one.                                 *)
(***************************************************************************)
Canonical(enc)          == <<"#", "", "", "", "", enc>>
Friendly(name, side)    == <<name, side, "", "", "", 0>>
Bucket(q, label, side)  == <<q, label[1], label[2], label[3], side, 0>>

Enc(s) == 10 * s.id + s.idx

PerpRegistration(u, i) ==
    [names |-> {u.perps[i].name}, coin |-> u.perps[i].name,
     asset |-> PerpBase(u) + i - 1, dec |-> {u.perps[i].dec}]

\* The base token is a position in the list of tokens, which may end before it.
SpotRegistration(u, i) ==
    LET s == u.spots[i]
    IN  [names |-> {s.name}, coin |-> s.name, asset |-> spotAssetIndexOffset + s.index,
         dec |-> {u.tokens[t].dec : t \in {t \in DOMAIN u.tokens : t = s.base + 1}}]

\* Mutant: all names of a side go through its friendly name.
SideRegistration_ByName(u, i) ==
    LET s == u.sides[i]
    IN  [names |-> {Friendly(s.name, s.side), Canonical(Enc(s))},
         coin |-> Friendly(s.name, s.side), asset |-> outcomeAssetBase + Enc(s), dec |-> {0}]

SideRegistration(u, i) ==
    LET s == u.sides[i]
        label == BucketLabel(u, s.id)
    IN  [names |-> {Friendly(s.name, s.side), Canonical(Enc(s))}
                   \cup (IF label = NoLabel THEN {}
                         ELSE {Bucket(FindQuestion(u, s.id).name, label, s.side)}),
         coin |-> Canonical(Enc(s)), asset |-> outcomeAssetBase + Enc(s), dec |-> {0}]

Registrations ==
    [u \in Universes |->
        LET p == Len(u.perps)
            s == Len(u.spots)
        IN  [k \in 1..(p + s + Len(u.sides)) |->
                IF k <= p THEN PerpRegistration(u, k)
                ELSE IF k <= p + s THEN SpotRegistration(u, k - p)
                ELSE SideRegistration(u, k - p - s)]]

\* f with every element of S mapped to v.
Put(f, S, v) == [x \in DOMAIN f \cup S |-> IF x \in S THEN v ELSE f[x]]

RegistryInit ==
    /\ universe \in Universes /\ registered = 0
    /\ nameToCoin = << >> /\ coinToAsset = << >> /\ assetToDecimal = << >>

\* One turn of a loop of New.
Register ==
    /\ registered < Len(Registrations[universe])
    /\ LET r == Registrations[universe][registered + 1]
       IN  /\ nameToCoin'     = Put(nameToCoin, r.names, r.coin)
           /\ coinToAsset'    = Put(coinToAsset, r.names, r.asset)
           /\ assetToDecimal' = IF r.dec = {} THEN assetToDecimal
                                ELSE Put(assetToDecimal, {r.asset}, CHOOSE d \in r.dec : TRUE)
    /\ registered' = registered + 1 /\ UNCHANGED universe

RegistrySpec == RegistryInit /\ [][Register]_registryVars

Made == registered = Len(Registrations[universe])

-------------------------------------------------------------------------------
(***************************************************************************)
(* Look-ups.  A missing key of a Go map reads as zero.                     *)
(***************************************************************************)
Asset(coin) == IF coin \in DOMAIN coinToAsset THEN coinToAsset[coin] ELSE 0

AssetID(name) == IF name \in DOMAIN nameToCoin THEN Asset(nameToCoin[name]) ELSE 0

SzDecimals(asset) ==
    IF asset \in DOMAIN assetToDecimal THEN assetToDecimal[asset] ELSE 0

\* isFirstAsset: the name is in the table with id 0.
IsFirstAsset(name) == name \in DOMAIN coinToAsset /\ coinToAsset[name] = 0

\* What validate takes for a coin it knows.
Known(name) == AssetID(name) # 0 \/ IsFirstAsset(name)

-------------------------------------------------------------------------------
(***************************************************************************)
(* Properties.                                                             *)
(***************************************************************************)
\* Types of the tables: a coin that a name stands for has an asset.
RegistryTypeOK ==
    /\ universe \in Universes
    /\ registered \in 0..Len(Registrations[universe])
    /\ DOMAIN nameToCoin = DOMAIN coinToAsset
    /\ \A n \in DOMAIN nameToCoin :
          nameToCoin[n] \in DOMAIN coinToAsset /\ coinToAsset[n] \in Nat
    /\ \A a \in DOMAIN assetToDecimal : a \in Nat /\ assetToDecimal[a] \in Nat

\* The last registration of a name so far.
IsLast(n, k) ==
    /\ k \in 1..registered /\ n \in Registrations[universe][k].names
    /\ \A j \in (k + 1)..registered : n \notin Registrations[universe][j].names

\* A name means the asset of its last registration, although the look-up goes through
\* two tables that other registrations overwrite.
NamesResolve ==
    \A n \in DOMAIN nameToCoin :
        \E k \in 1..registered :
            IsLast(n, k) /\ AssetID(n) = Registrations[universe][k].asset

\* What the bucket names are registered for (comment of New): the sides of different
\* buckets of a question keep names of their own, also when all outcomes have the same
\* name, if the thresholds tell them apart.  A later question of the same name with the
\* same thresholds would take its names over.
DistinctThresholds(q) ==
    /\ LabelsFromThresholds(q) # << >>
    /\ \A i, j \in DOMAIN q.thresholds : i # j => q.thresholds[i] # q.thresholds[j]

BucketsStayApart ==
    \A i \in 1..Len(universe.sides) :
        LET s == universe.sides[i]
            q == FindQuestion(universe, s.id)
            n == Bucket(q.name, BucketLabel(universe, s.id), s.side)
        IN  /\ registered >= Len(universe.perps) + Len(universe.spots) + i
            /\ Owners(universe, s.id) # {} /\ s.id # q.fallback /\ DistinctThresholds(q)
            /\ \A k \in DOMAIN universe.questions :
                  universe.questions[k].name = q.name => universe.questions[k] = q
            => AssetID(n) = outcomeAssetBase + Enc(s)
===============================================================================
