-------------------------- MODULE AssetRegistry_proofs --------------------------
(***************************************************************************)
(* Proofs about AssetRegistry, for whatever /info may list.                *)
(*                                                                         *)
(* A look-up goes from a name to a coin and from the coin to an asset, and *)
(* both tables are overwritten by later registrations.  It still ends at   *)
(* the asset of the name's last registration: the coin of a perp or a spot *)
(* pair is its name, and the canonical name that is the coin of an outcome *)
(* side is the name of no other asset after it.                            *)
(***************************************************************************)
EXTENDS AssetRegistry, NumberLemmas

\* What the tables hold of a name is of its last registration.
TableInv ==
    \A n \in DOMAIN nameToCoin :
        \E k \in 1..registered :
            /\ IsLast(n, k)
            /\ nameToCoin[n] = Registrations[universe][k].coin
            /\ coinToAsset[n] = Registrations[universe][k].asset

\* Every name registered so far is in the table.
FilledInv ==
    \A k \in 1..registered : Registrations[universe][k].names \subseteq DOMAIN nameToCoin

RegistryInv == RegistryTypeOK /\ TableInv /\ FilledInv

-------------------------------------------------------------------------------
LEMMA SeqFacts ==
  ASSUME NEW S, NEW s \in Seq(S)
  PROVE  /\ DOMAIN s = 1..Len(s) /\ Len(s) \in Nat
         /\ \A i \in 1..Len(s) : s[i] \in S
  OBVIOUS

\* The base of a pinned dex is a number.
LEMMA PerpBaseNat == ASSUME NEW u \in Universes PROVE PerpBase(u) \in Nat
  <1>1. CASE ~OnDex(u)
    BY <1>1 DEF PerpBase
  <1>2. CASE OnDex(u)
    <2> DEFINE S == {i \in DOMAIN u.dexs : u.dexs[i] = u.dex}
               First(i) == u.dexs[i] = u.dex /\ \A j \in 1..(i - 1) : u.dexs[j] # u.dex
    <2>1. u.dexs \in Seq(Strings)
      BY UniversesAssumption DEF Universe
    <2>2. DOMAIN u.dexs = 1..Len(u.dexs) /\ Len(u.dexs) \in Nat
      BY <2>1
    <2>3. S \in SUBSET Nat /\ S # {}
      <3>1. \E i \in DOMAIN u.dexs : u.dexs[i] = u.dex
        BY <1>2, UniversesAssumption, Zenon
      <3>2. \A i \in DOMAIN u.dexs : i \in Nat
        BY <2>2
      <3> QED BY <3>1, <3>2
    <2>4. PICK m \in S : \A x \in S : m <= x
      BY <2>3, MinExists
    <2>5. m \in DOMAIN u.dexs /\ First(m)
      <3>1. m \in DOMAIN u.dexs /\ u.dexs[m] = u.dex /\ m \in 1..Len(u.dexs)
        BY <2>2
      <3>2. ASSUME NEW j \in 1..(m - 1), u.dexs[j] = u.dex PROVE FALSE
        <4>1. j \in 1..Len(u.dexs) /\ ~(m <= j)
          BY <2>2, <3>1
        <4> QED BY <2>2, <2>4, <3>2, <4>1
      <3> QED BY <3>1, <3>2
    <2>6. DexNumber(u) \in DOMAIN u.dexs
      BY <2>5, Zenon DEF DexNumber
    <2>7. DexNumber(u) - 1 \in Nat
      BY <2>2, <2>6
    <2> HIDE DEF S, First
    <2>8. PerpBase(u) = builderPerpAssetBase + (DexNumber(u) - 1) * 10000
      BY <1>2 DEF PerpBase
    <2>9. \A n \in Nat : builderPerpAssetBase + n * 10000 \in Nat
      BY DEF builderPerpAssetBase
    <2> QED BY <2>7, <2>8, <2>9
  <1> QED BY <1>1, <1>2

-------------------------------------------------------------------------------
(***************************************************************************)
(* What is registered where.                                               *)
(***************************************************************************)
Listed(u) == Len(u.perps) + Len(u.spots)

LEMMA UniverseFacts ==
  ASSUME NEW u \in Universes
  PROVE  /\ Len(u.perps) \in Nat /\ Len(u.spots) \in Nat /\ Len(u.sides) \in Nat
         /\ Listed(u) \in Nat
         /\ Len(Registrations[u]) = Listed(u) + Len(u.sides)
         /\ \A i \in 1..Len(u.perps) : u.perps[i] \in [name : Names, dec : Nat]
         /\ \A i \in 1..Len(u.spots) :
               u.spots[i] \in [name : Names, index : Nat, base : Nat, quote : Nat]
         /\ \A t \in DOMAIN u.tokens :
               u.tokens[t] \in [name : Strings, index : Nat, dec : Nat]
         /\ DOMAIN u.sides = 1..Len(u.sides)
         /\ \A i \in 1..Len(u.sides) :
               u.sides[i] \in [id : Nat, name : Strings, idx : Nat, side : Strings]
         /\ \A k \in 1..(Listed(u) + Len(u.sides)) :
               /\ k <= Len(u.perps) => Registrations[u][k] = PerpRegistration(u, k)
               /\ k > Len(u.perps) /\ k <= Listed(u) =>
                     Registrations[u][k] = SpotRegistration(u, k - Len(u.perps))
               /\ k > Listed(u) =>
                     Registrations[u][k] = SideRegistration(u, k - Listed(u))
  <1>1. u \in Universe
    BY UniversesAssumption
  <1>2. /\ u.perps \in Seq([name : Names, dec : Nat])
        /\ u.spots \in Seq([name : Names, index : Nat, base : Nat, quote : Nat])
        /\ u.tokens \in Seq([name : Strings, index : Nat, dec : Nat])
        /\ u.sides \in Seq([id : Nat, name : Strings, idx : Nat, side : Strings])
    BY <1>1 DEF Universe
  <1>3. Len(u.perps) \in Nat /\ Len(u.spots) \in Nat /\ Len(u.sides) \in Nat
    BY <1>2
  <1> DEFINE p == Len(u.perps)
             q == Len(u.spots)
             o == Len(u.sides)
             l == Listed(u)
             R(k) == IF k <= p THEN PerpRegistration(u, k)
                     ELSE IF k <= p + q THEN SpotRegistration(u, k - p)
                     ELSE SideRegistration(u, k - p - q)
  <1>4. Registrations[u] = [k \in 1..(p + q + o) |-> R(k)] /\ l = p + q
    BY Zenon DEF Registrations, Listed
  <1> HIDE DEF p, q, o, l
  <1>5. p \in Nat /\ q \in Nat /\ o \in Nat
    BY <1>3 DEF p, q, o
  <1>6. l \in Nat /\ l + o \in Nat /\ p + q + o = l + o
    BY <1>4, <1>5
  <1>7. Len(Registrations[u]) = l + o
    BY <1>4, <1>6
  <1>8. \A k \in 1..(l + o) : Registrations[u][k] = R(k)
    BY <1>4, <1>6, Zenon
  <1>9. ASSUME NEW k \in 1..(l + o), k <= p
        PROVE  Registrations[u][k] = PerpRegistration(u, k)
    BY <1>8, <1>9
  <1>10. ASSUME NEW k \in 1..(l + o), k > p, k <= l
         PROVE  Registrations[u][k] = SpotRegistration(u, k - p)
    <2>1. ~(k <= p) /\ k <= p + q
      BY <1>4, <1>5, <1>10
    <2> QED BY <1>8, <2>1, Zenon
  <1>11. ASSUME NEW k \in 1..(l + o), k > l
         PROVE  Registrations[u][k] = SideRegistration(u, k - l)
    <2>1. ~(k <= p) /\ ~(k <= p + q) /\ k - p - q = k - l
      BY <1>4, <1>5, <1>11
    <2> QED BY <1>8, <2>1, Zenon
  <1>12. \A i \in 1..Len(u.perps) : u.perps[i] \in [name : Names, dec : Nat]
    BY <1>2, SeqFacts, Zenon
  <1>13. \A i \in 1..Len(u.spots) :
            u.spots[i] \in [name : Names, index : Nat, base : Nat, quote : Nat]
    BY <1>2, SeqFacts, Zenon
  <1>14. \A t \in DOMAIN u.tokens : u.tokens[t] \in [name : Strings, index : Nat, dec : Nat]
    BY <1>2, SeqFacts, Zenon
  <1>15. /\ DOMAIN u.sides = 1..Len(u.sides)
         /\ \A i \in 1..Len(u.sides) :
               u.sides[i] \in [id : Nat, name : Strings, idx : Nat, side : Strings]
    BY <1>2, SeqFacts, Zenon
  <1> QED
    BY <1>3, <1>6, <1>7, <1>9, <1>10, <1>11, <1>12, <1>13, <1>14, <1>15 DEF p, o, l

\* A side of an outcome is registered under its canonical name, whose number is its asset's.
LEMMA SideFacts ==
  ASSUME NEW u \in Universes, NEW i \in 1..Len(u.sides)
  PROVE  LET r == SideRegistration(u, i)
             s == u.sides[i]
         IN  /\ Enc(s) \in Nat /\ r.asset = outcomeAssetBase + Enc(s) /\ r.asset \in Nat
             /\ r.dec = {0} /\ r.coin = Canonical(Enc(s)) /\ r.coin \in r.names
             /\ \A e \in Nat : Canonical(e) \in r.names => e = Enc(s)
  <1> DEFINE r == SideRegistration(u, i)
             s == u.sides[i]
  <1>1. s \in [id : Nat, name : Strings, idx : Nat, side : Strings]
    BY UniverseFacts
  <1>2. s.side # ""
    BY UniverseFacts, UniversesAssumption, Zenon
  <1>3. Enc(s) \in Nat /\ outcomeAssetBase + Enc(s) \in Nat
    <2>1. s.id \in Nat /\ s.idx \in Nat
      BY <1>1
    <2> HIDE DEF s
    <2> QED BY <2>1 DEF Enc, outcomeAssetBase
  <1>4. r.asset = outcomeAssetBase + Enc(s) /\ r.dec = {0} /\ r.coin = Canonical(Enc(s))
        /\ r.coin \in r.names
    BY DEF SideRegistration
  <1>5. ASSUME NEW e \in Nat, Canonical(e) \in r.names
        PROVE  e = Enc(s)
    <2>1. \/ Canonical(e) = Friendly(s.name, s.side)
          \/ Canonical(e) = Canonical(Enc(s))
          \/ \E q, label : Canonical(e) = Bucket(q, label, s.side)
      BY <1>5, Zenon DEF SideRegistration
    <2>2. Canonical(e) # Friendly(s.name, s.side)
      BY <1>2 DEF Canonical, Friendly
    <2>3. ASSUME NEW q, NEW label PROVE Canonical(e) # Bucket(q, label, s.side)
      BY <1>2 DEF Canonical, Bucket
    <2>4. Canonical(e) = Canonical(Enc(s))
      BY <2>1, <2>2, <2>3
    <2> QED BY <2>4 DEF Canonical
  <1> QED BY <1>3, <1>4, <1>5, Zenon

\* Types of a registration; its coin is one of its names.
LEMMA RegistrationFacts ==
  ASSUME NEW u \in Universes, NEW k \in 1..Len(Registrations[u])
  PROVE  LET r == Registrations[u][k]
         IN  r.asset \in Nat /\ r.dec \subseteq Nat /\ r.coin \in r.names
  <1> DEFINE p == Len(u.perps)
             l == Listed(u)
             o == Len(u.sides)
             r == Registrations[u][k]
  <1> SUFFICES r.asset \in Nat /\ r.dec \subseteq Nat /\ r.coin \in r.names
    OBVIOUS
  <1>1. /\ p \in Nat /\ l \in Nat /\ o \in Nat /\ Len(u.spots) \in Nat /\ k \in 1..(l + o)
        /\ l = p + Len(u.spots)
    BY UniverseFacts DEF Listed
  <1>2. CASE k <= p
    <2>1. r = PerpRegistration(u, k) /\ k \in 1..p
      <3>1. r = PerpRegistration(u, k)
        BY <1>1, <1>2, UniverseFacts, Zenon
      <3> HIDE DEF p, l, o, r
      <3> QED BY <1>1, <1>2, <3>1
    <2>2. u.perps[k].dec \in Nat
      BY <2>1, UniverseFacts
    <2>3. PerpBase(u) + k - 1 \in Nat
      <3> HIDE DEF p
      <3> QED BY <1>1, <2>1, PerpBaseNat
    <2> QED BY <2>1, <2>2, <2>3 DEF PerpRegistration
  <1>3. CASE ~(k <= p) /\ k <= l
    <2>1. r = SpotRegistration(u, k - p) /\ k - p \in 1..Len(u.spots)
      <3> DEFINE q == Len(u.spots)
      <3>1. k > p => r = SpotRegistration(u, k - p)
        BY <1>1, <1>3, UniverseFacts, Zenon
      <3>2. l = p + q /\ q \in Nat
        BY <1>1
      <3> HIDE DEF p, l, o, r, q
      <3>3. k > p /\ k - p \in 1..q
        BY <1>1, <1>3, <3>2
      <3> QED BY <3>1, <3>3 DEF q
    <2> DEFINE s == u.spots[k - p]
    <2>2. s.index \in Nat
      BY <2>1, UniverseFacts
    <2>3. \A t \in DOMAIN u.tokens : u.tokens[t].dec \in Nat
      BY UniverseFacts
    <2>4. spotAssetIndexOffset + s.index \in Nat
      <3> HIDE DEF s
      <3> QED BY <2>2 DEF spotAssetIndexOffset
    <2>5. /\ r.asset = spotAssetIndexOffset + s.index /\ r.coin \in r.names
          /\ r.dec = {u.tokens[t].dec : t \in {t \in DOMAIN u.tokens : t = s.base + 1}}
      BY <2>1 DEF SpotRegistration
    <2>6. \A d \in r.dec : \E t \in DOMAIN u.tokens : d = u.tokens[t].dec
      BY <2>5, Zenon
    <2> HIDE DEF r, s
    <2> QED BY <2>3, <2>4, <2>5, <2>6
  <1>4. CASE ~(k <= l)
    <2>1. r = SideRegistration(u, k - l) /\ k - l \in 1..o
      <3>1. k > l => r = SideRegistration(u, k - l)
        BY <1>1, UniverseFacts, Zenon
      <3> HIDE DEF p, l, o, r
      <3>2. k > l /\ k - l \in 1..o
        BY <1>1, <1>4
      <3> QED BY <3>1, <3>2, Zenon
    <2>2. r.asset \in Nat /\ r.dec = {0} /\ r.coin \in r.names
      BY <2>1, SideFacts, Zenon
    <2> HIDE DEF r
    <2> QED BY <2>2
  <1>5. k <= p \/ (~(k <= p) /\ k <= l) \/ ~(k <= l)
    OBVIOUS
  <1> QED BY <1>2, <1>3, <1>4, <1>5, Zenon

\* Perps and spot pairs are registered under one name, their coin; sides come after them.
LEMMA WhereRegistered ==
  ASSUME NEW u \in Universes, NEW k \in 1..Len(Registrations[u])
  PROVE  \/ k <= Listed(u) /\ Registrations[u][k].names = {Registrations[u][k].coin}
         \/ /\ k > Listed(u) /\ k - Listed(u) \in 1..Len(u.sides)
            /\ Registrations[u][k] = SideRegistration(u, k - Listed(u))
  <1> DEFINE p == Len(u.perps)
             l == Listed(u)
             o == Len(u.sides)
             r == Registrations[u][k]
  <1>1. p \in Nat /\ l \in Nat /\ o \in Nat /\ k \in 1..(l + o)
    BY UniverseFacts
  <1>2. /\ k <= p => r = PerpRegistration(u, k)
        /\ k > p /\ k <= l => r = SpotRegistration(u, k - p)
        /\ k > l => r = SideRegistration(u, k - l)
    BY <1>1, UniverseFacts, Zenon
  <1>3. ASSUME r = PerpRegistration(u, k) \/ r = SpotRegistration(u, k - p)
        PROVE  r.names = {r.coin}
    BY <1>3 DEF PerpRegistration, SpotRegistration
  <1>4. \/ k <= l /\ (k <= p \/ k > p)
        \/ k > l /\ k - l \in 1..o
    <2> HIDE DEF p, l, o
    <2> QED BY <1>1
  <1>5. k <= p => k <= l
    <2> DEFINE q == Len(u.spots)
    <2>1. q \in Nat /\ l = p + q
      BY UniverseFacts DEF Listed
    <2> HIDE DEF p, q, l
    <2> QED BY <1>1, <2>1
  <1> QED BY <1>2, <1>3, <1>4, <1>5, Zenon

\* The coin of a registration is its only name, or is a name of the same asset later.
LEMMA CoinOwner ==
  ASSUME NEW u \in Universes,
         NEW k \in 1..Len(Registrations[u]), NEW j \in 1..Len(Registrations[u]), k <= j,
         Registrations[u][k].coin \in Registrations[u][j].names
  PROVE  \/ Registrations[u][k].names = {Registrations[u][k].coin}
         \/ Registrations[u][j].asset = Registrations[u][k].asset
  <1> DEFINE l == Listed(u)
             rk == Registrations[u][k]
             rj == Registrations[u][j]
  <1>1. CASE k <= l /\ rk.names = {rk.coin}
    BY <1>1
  <1>2. CASE k > l /\ k - l \in 1..Len(u.sides) /\ rk = SideRegistration(u, k - l)
    <2>1. l \in Nat
      BY UniverseFacts
    <2>2. ~(j <= l)
      <3> HIDE DEF l
      <3> QED BY <1>2, <2>1
    <2>3. j - l \in 1..Len(u.sides) /\ rj = SideRegistration(u, j - l)
      BY <2>2, WhereRegistered, Zenon
    <2> DEFINE sk == u.sides[k - l]
               sj == u.sides[j - l]
    <2>4. /\ Enc(sk) \in Nat /\ rk.asset = outcomeAssetBase + Enc(sk)
          /\ rk.coin = Canonical(Enc(sk))
      BY <1>2, SideFacts, Zenon
    <2>5. /\ rj.asset = outcomeAssetBase + Enc(sj)
          /\ \A e \in Nat : Canonical(e) \in rj.names => e = Enc(sj)
      BY <2>3, SideFacts, Zenon
    <2>6. Enc(sk) = Enc(sj)
      BY <2>4, <2>5, Zenon
    <2> QED BY <2>4, <2>5, <2>6, Zenon
  <1> QED BY <1>1, <1>2, WhereRegistered, Zenon

-------------------------------------------------------------------------------
(***************************************************************************)
(* The tables.                                                             *)
(***************************************************************************)
LEMMA RegistryInitInv == RegistryInit => RegistryInv
  <1> SUFFICES ASSUME RegistryInit PROVE RegistryInv
    OBVIOUS
  <1>1. Len(Registrations[universe]) \in Nat
    BY UniverseFacts DEF RegistryInit
  <1>2. 0 \in 0..Len(Registrations[universe]) /\ 1..0 = {} /\ DOMAIN << >> = {}
    BY <1>1
  <1> QED BY <1>2 DEF RegistryInit, RegistryInv, RegistryTypeOK, TableInv, FilledInv

LEMMA RegistryNextInv ==
  ASSUME RegistryInv, Register PROVE RegistryInv'
  <1>. PICK R : R = Registrations[universe]
    OBVIOUS
  <1>. PICK n : n = registered + 1
    OBVIOUS
  <1> DEFINE r == R[n]
  <1>1. /\ universe \in Universes /\ universe' = universe
        /\ registered \in 0..Len(R) /\ Len(R) \in Nat /\ registered < Len(R)
        /\ registered' = n /\ Registrations[universe'] = R
    BY UniverseFacts DEF Register, RegistryInv, RegistryTypeOK
  <1>2. n \in 1..Len(R) /\ n \in Nat /\ n \in 0..Len(R)
    BY <1>1
  <1>3. r.asset \in Nat /\ r.dec \subseteq Nat /\ r.coin \in r.names
    BY <1>1, <1>2, RegistrationFacts
  <1>4. /\ nameToCoin' = Put(nameToCoin, r.names, r.coin)
        /\ coinToAsset' = Put(coinToAsset, r.names, r.asset)
        /\ assetToDecimal' = IF r.dec = {} THEN assetToDecimal
                             ELSE Put(assetToDecimal, {r.asset}, CHOOSE d \in r.dec : TRUE)
    BY DEF Register
  <1> HIDE DEF r
  <1>5. /\ DOMAIN nameToCoin' = DOMAIN nameToCoin \cup r.names
        /\ DOMAIN coinToAsset' = DOMAIN coinToAsset \cup r.names
        /\ \A x \in r.names : nameToCoin'[x] = r.coin /\ coinToAsset'[x] = r.asset
        /\ \A x \in DOMAIN nameToCoin \ r.names : nameToCoin'[x] = nameToCoin[x]
        /\ \A x \in DOMAIN coinToAsset \ r.names : coinToAsset'[x] = coinToAsset[x]
    BY <1>4 DEF Put
  <1>6. RegistryTypeOK'
    <2>1. DOMAIN nameToCoin = DOMAIN coinToAsset
          /\ \A x \in DOMAIN nameToCoin :
                nameToCoin[x] \in DOMAIN coinToAsset /\ coinToAsset[x] \in Nat
      BY DEF RegistryInv, RegistryTypeOK
    <2>2. DOMAIN nameToCoin' = DOMAIN coinToAsset'
      BY <1>5, <2>1
    <2>3. ASSUME NEW x \in DOMAIN nameToCoin'
          PROVE  nameToCoin'[x] \in DOMAIN coinToAsset' /\ coinToAsset'[x] \in Nat
      BY <1>3, <1>5, <2>1, <2>3
    <2>4. ASSUME NEW a \in DOMAIN assetToDecimal'
          PROVE  a \in Nat /\ assetToDecimal'[a] \in Nat
      <3>1. \A b \in DOMAIN assetToDecimal : b \in Nat /\ assetToDecimal[b] \in Nat
        BY DEF RegistryInv, RegistryTypeOK
      <3>2. CASE r.dec = {}
        BY <1>4, <2>4, <3>1, <3>2
      <3>3. CASE r.dec # {}
        <4> DEFINE d == CHOOSE d \in r.dec : TRUE
        <4>1. d \in r.dec
          BY <3>3
        <4>2. d \in Nat /\ assetToDecimal' = Put(assetToDecimal, {r.asset}, d)
          BY <1>3, <1>4, <3>3, <4>1
        <4> HIDE DEF d
        <4> QED BY <1>3, <2>4, <3>1, <4>2 DEF Put
      <3> QED BY <3>2, <3>3
    <2> QED BY <1>1, <1>2, <2>2, <2>3, <2>4 DEF RegistryTypeOK
  <1>7. TableInv'
    <2> SUFFICES ASSUME NEW x \in DOMAIN nameToCoin'
                 PROVE  \E k \in 1..n : /\ IsLast(x, k)'
                                        /\ nameToCoin'[x] = R[k].coin
                                        /\ coinToAsset'[x] = R[k].asset
      BY <1>1 DEF TableInv
    <2>1. CASE x \in r.names
      <3>1. IsLast(x, n)'
        <4>1. \A j \in (n + 1)..n : FALSE
          BY <1>2
        <4>2. n \in 1..n
          BY <1>2
        <4> QED BY <1>1, <2>1, <4>1, <4>2, Zenon DEF IsLast, r
      <3>2. n \in 1..n
        BY <1>2
      <3>3. nameToCoin'[x] = R[n].coin /\ coinToAsset'[x] = R[n].asset
        BY <1>5, <2>1 DEF r
      <3> QED BY <3>1, <3>2, <3>3, Zenon
    <2>2. CASE x \notin r.names
      <3>1. x \in DOMAIN nameToCoin /\ x \in DOMAIN coinToAsset
        BY <1>5, <2>2 DEF RegistryInv, RegistryTypeOK
      <3>2. PICK k \in 1..registered : /\ IsLast(x, k)
                                       /\ nameToCoin[x] = R[k].coin
                                       /\ coinToAsset[x] = R[k].asset
        BY <3>1 DEF RegistryInv, TableInv
      <3>3. k \in 1..n /\ \A j \in (k + 1)..n : j \in (k + 1)..registered \/ j = n
        BY <1>1
      <3>4. IsLast(x, k)'
        BY <1>1, <2>2, <3>2, <3>3 DEF IsLast, r
      <3> QED BY <1>5, <2>2, <3>1, <3>2, <3>3, <3>4
    <2> QED BY <2>1, <2>2
  <1>8. FilledInv'
    <2> SUFFICES ASSUME NEW k \in 1..n PROVE R[k].names \subseteq DOMAIN nameToCoin'
      BY <1>1 DEF FilledInv
    <2>1. k \in 1..registered \/ k = n
      BY <1>1
    <2> QED BY <1>5, <2>1 DEF r, RegistryInv, FilledInv
  <1> QED BY <1>6, <1>7, <1>8 DEF RegistryInv

\* A step that leaves the tables alone keeps what is known of them.
LEMMA RegistryStutterInv ==
  ASSUME RegistryInv, UNCHANGED registryVars PROVE RegistryInv'
  BY DEF registryVars, RegistryInv, RegistryTypeOK, TableInv, FilledInv, IsLast

LEMMA RegistryInvariant == RegistrySpec => []RegistryInv
  <1>1. RegistryInv /\ [Register]_registryVars => RegistryInv'
    BY RegistryNextInv, RegistryStutterInv
  <1> QED BY <1>1, RegistryInitInv, PTL DEF RegistrySpec

-------------------------------------------------------------------------------
\* The invariant is enough for the look-up.
LEMMA LookUpEnds == RegistryInv => NamesResolve
  <1> SUFFICES ASSUME RegistryInv, NEW n \in DOMAIN nameToCoin
               PROVE  \E k \in 1..registered :
                         IsLast(n, k) /\ AssetID(n) = Registrations[universe][k].asset
    BY DEF NamesResolve
  <1> DEFINE R == Registrations[universe]
  <1>1. universe \in Universes /\ registered \in 0..Len(R) /\ Len(R) \in Nat
    BY UniverseFacts DEF RegistryInv, RegistryTypeOK
  <1>2. \A k \in 1..registered : k \in 1..Len(R)
    BY <1>1
  <1>3. PICK k \in 1..registered : /\ IsLast(n, k)
                                   /\ nameToCoin[n] = R[k].coin
                                   /\ coinToAsset[n] = R[k].asset
    BY DEF RegistryInv, TableInv
  <1> DEFINE c == R[k].coin
  <1>4. c \in R[k].names /\ c \in DOMAIN nameToCoin /\ c \in DOMAIN coinToAsset
    BY <1>1, <1>2, RegistrationFacts DEF RegistryInv, FilledInv, RegistryTypeOK
  <1>5. PICK j \in 1..registered : IsLast(c, j) /\ coinToAsset[c] = R[j].asset
    BY <1>4 DEF RegistryInv, TableInv
  <1>6. AssetID(n) = R[j].asset
    BY <1>3, <1>4, <1>5 DEF AssetID, Asset
  <1>7. k <= j /\ c \in R[j].names
    <2>1. ~(k > j)
      <3> SUFFICES ASSUME k > j PROVE FALSE
        OBVIOUS
      <3>1. k \in (j + 1)..registered
        BY <1>1
      <3> QED BY <1>4, <1>5, <3>1 DEF IsLast
    <2> QED BY <1>5, <2>1 DEF IsLast
  <1>8. R[k].names = {c} \/ R[j].asset = R[k].asset
    BY <1>1, <1>2, <1>7, CoinOwner, Zenon
  <1>9. R[k].names = {c} => n = c /\ coinToAsset[c] = R[k].asset
    BY <1>3 DEF IsLast
  <1> QED BY <1>3, <1>5, <1>6, <1>8, <1>9, Zenon

\* info.go:222: the tables have their types: a name always stands for a coin that has an
\* asset.
THEOREM RegistryTypeCorrect == RegistrySpec => []RegistryTypeOK
  <1>1. RegistryInv => RegistryTypeOK
    BY DEF RegistryInv
  <1> QED BY <1>1, RegistryInvariant, PTL

\* account.go:323: the look-up of a name through both tables ends at the asset of its
\* last registration, whatever /info lists and in the middle of New.
THEOREM NamesAlwaysResolve == RegistrySpec => []NamesResolve
  BY LookUpEnds, RegistryInvariant, PTL

-------------------------------------------------------------------------------
(***************************************************************************)
(* Labels of buckets.                                                      *)
(***************************************************************************)
Question == [name : Strings, fallback : Nat, named : Seq(Nat), thresholds : Seq(Strings)]

\* The least element of a set of numbers is what CHOOSE picks.
LEMMA FirstOf ==
  ASSUME NEW S \in SUBSET Nat, S # {}
  PROVE  (CHOOSE i \in S : \A j \in S : i <= j) \in S
  BY MinExists

\* An owned outcome belongs to a question of the universe.
LEMMA OwnerFacts ==
  ASSUME NEW u \in Universes, NEW id, Owners(u, id) # {}
  PROVE  \E m \in Owners(u, id) : /\ m \in DOMAIN u.questions
                                  /\ FindQuestion(u, id) = u.questions[m]
                                  /\ u.questions[m] \in Question
  <1> DEFINE m == CHOOSE i \in Owners(u, id) : \A j \in Owners(u, id) : i <= j
  <1>1. u.questions \in Seq(Question)
    BY UniversesAssumption DEF Universe, Question
  <1>2. DOMAIN u.questions = 1..Len(u.questions) /\ Len(u.questions) \in Nat
        /\ \A i \in 1..Len(u.questions) : u.questions[i] \in Question
    BY <1>1, SeqFacts, Zenon
  <1>3. Owners(u, id) \subseteq DOMAIN u.questions
    BY Zenon DEF Owners
  <1>4. Owners(u, id) \in SUBSET Nat
    BY <1>2, <1>3
  <1>5. m \in Owners(u, id)
    BY <1>4, FirstOf
  <1>6. FindQuestion(u, id) = u.questions[m]
    BY Zenon DEF FindQuestion
  <1> HIDE DEF m
  <1> QED BY <1>2, <1>3, <1>5, <1>6, Zenon

LEMMA LabelValues ==
  ASSUME NEW q \in Question, LabelsFromThresholds(q) # << >>
  PROVE  LET n == Len(q.thresholds)
             labels == LabelsFromThresholds(q)
         IN  /\ n \in Nat /\ Len(q.named) = n + 1
             /\ \A i \in 1..(n + 1) :
                   /\ i = 1 => labels[i] = <<"Below", q.thresholds[1], "">>
                   /\ i > 1 /\ i <= n =>
                         labels[i] = <<"to", q.thresholds[i - 1], q.thresholds[i]>>
                   /\ i > 1 /\ i > n => labels[i] = <<"Above", q.thresholds[n], "">>
  <1> DEFINE n == Len(q.thresholds)
             L(i) == CASE i = 1              -> <<"Below", q.thresholds[1], "">>
                       [] i > 1 /\ i <= n    -> <<"to", q.thresholds[i - 1], q.thresholds[i]>>
                       [] OTHER              -> <<"Above", q.thresholds[n], "">>
  <1>1. n \in Nat
    <2>1. q.thresholds \in Seq(Strings)
      BY DEF Question
    <2> QED BY <2>1
  <1>2. Len(q.named) = n + 1 /\ LabelsFromThresholds(q) = [i \in 1..(n + 1) |-> L(i)]
    BY Zenon DEF LabelsFromThresholds
  <1> HIDE DEF n
  <1>3. ASSUME NEW i \in 1..(n + 1)
        PROVE  /\ i = 1 => L(i) = <<"Below", q.thresholds[1], "">>
               /\ i > 1 /\ i <= n => L(i) = <<"to", q.thresholds[i - 1], q.thresholds[i]>>
               /\ i > 1 /\ i > n => L(i) = <<"Above", q.thresholds[n], "">>
    <2>1. (i > 1 => i # 1) /\ (i > n => ~(i <= n))
      BY <1>1
    <2> QED BY <2>1
  <1>4. \A i \in 1..(n + 1) : LabelsFromThresholds(q)[i] = L(i)
    BY <1>2, Zenon
  <1> QED BY <1>1, <1>2, <1>3, <1>4 DEF n

LEMMA Parts == \A x, a, b, c : x = <<a, b, c>> => x[1] = a /\ x[3] = c
  OBVIOUS

\* Labels made of distinct thresholds differ in their first or last part, and none is a
\* fallback's or empty.
LEMMA LabelsDiffer ==
  ASSUME NEW q \in Question, DistinctThresholds(q),
         NEW i \in 1..(Len(q.thresholds) + 1)
  PROVE  LET labels == LabelsFromThresholds(q)
         IN  /\ labels[i][1] \notin {"", "fallback"}
             /\ \A k \in 1..(Len(q.thresholds) + 1) :
                   labels[i][1] = labels[k][1] /\ labels[i][3] = labels[k][3] => i = k
  <1> DEFINE n == Len(q.thresholds)
             t == q.thresholds
             labels == LabelsFromThresholds(q)
             Lowest(k)  == k = 1 /\ labels[k][1] = "Below"
             Between(k) == k > 1 /\ k <= n /\ labels[k][1] = "to" /\ labels[k][3] = t[k]
             Highest(k) == k = n + 1 /\ labels[k][1] = "Above"
  <1>1. n \in Nat
    BY LabelValues DEF DistinctThresholds
  <1>2. ASSUME NEW k \in 1..(n + 1) PROVE Lowest(k) \/ Between(k) \/ Highest(k)
    <2>1. k = 1 \/ (k > 1 /\ k <= n) \/ (k > 1 /\ k > n /\ k = n + 1)
      <3> HIDE DEF n
      <3> QED BY <1>1
    <2>2. /\ k = 1 => labels[k] = <<"Below", t[1], "">>
          /\ k > 1 /\ k <= n => labels[k] = <<"to", t[k - 1], t[k]>>
          /\ k > 1 /\ k > n => labels[k] = <<"Above", t[n], "">>
      BY LabelValues, Zenon DEF DistinctThresholds
    <2> HIDE DEF labels, t, n
    <2>3. k = 1 => labels[k][1] = "Below"
      BY <2>2, Parts, Zenon
    <2>4. k > 1 /\ k <= n => labels[k][1] = "to" /\ labels[k][3] = t[k]
      <3> SUFFICES ASSUME k > 1, k <= n PROVE labels[k][1] = "to" /\ labels[k][3] = t[k]
        OBVIOUS
      <3>1. labels[k] = <<"to", t[k - 1], t[k]>>
        BY <2>2
      <3> QED BY <3>1, Parts, ZenonT(40)
    <2>5. k > 1 /\ k > n => labels[k][1] = "Above"
      <3> SUFFICES ASSUME k > 1, k > n PROVE labels[k][1] = "Above"
        OBVIOUS
      <3>1. labels[k] = <<"Above", t[n], "">>
        BY <2>2
      <3> QED BY <3>1, Parts, Zenon
    <2> QED BY <2>1, <2>3, <2>4, <2>5, Zenon
  <1>3. \A k, j \in 1..n : k # j => t[k] # t[j]
    <2>1. t \in Seq(Strings)
      BY DEF Question
    <2>2. DOMAIN t = 1..n
      BY <2>1, SeqFacts, Zenon
    <2> QED BY <2>2, Zenon DEF DistinctThresholds
  <1>4. labels[i][1] \notin {"", "fallback"}
    <2>1. Lowest(i) \/ Between(i) \/ Highest(i)
      BY <1>2, Zenon
    <2> HIDE DEF labels, t, n
    <2> QED BY <2>1
  <1>5. ASSUME NEW k \in 1..(n + 1),
               labels[i][1] = labels[k][1], labels[i][3] = labels[k][3]
        PROVE  i = k
    <2>1. Lowest(i) \/ Between(i) \/ Highest(i)
      BY <1>2, Zenon
    <2>2. Lowest(k) \/ Between(k) \/ Highest(k)
      BY <1>2, Zenon
    <2>3. \/ Lowest(i) /\ Lowest(k)
          \/ Highest(i) /\ Highest(k)
          \/ Between(i) /\ Between(k) /\ t[i] = t[k]
      <3> HIDE DEF labels, t, n
      <3> QED BY <1>5, <2>1, <2>2
    <2>4. CASE Between(i) /\ Between(k) /\ t[i] = t[k]
      <3>1. i \in 1..n /\ k \in 1..n
        <4>1. i \in 1..(n + 1) /\ k \in 1..(n + 1) /\ i <= n /\ k <= n
          BY <1>5, <2>4
        <4> HIDE DEF n
        <4> QED BY <1>1, <4>1
      <3> QED BY <1>3, <2>4, <3>1, Zenon
    <2> QED BY <2>3, <2>4, Zenon
  <1> QED BY <1>4, <1>5, Zenon

\* An outcome of a bucket has the label of its place among the outcomes of its question.
Bucketed(u, id, q) ==
    /\ u \in Universes /\ Owners(u, id) # {} /\ q = FindQuestion(u, id)
    /\ id # q.fallback /\ DistinctThresholds(q)

Placed(u, id, q) ==
    /\ q \in Question
    /\ \E i \in 1..(Len(q.thresholds) + 1) :
          q.named[i] = id /\ BucketLabel(u, id) = LabelsFromThresholds(q)[i]

LEMMA LabelPlace == \A u, id, q : Bucketed(u, id, q) => Placed(u, id, q)
  <1> SUFFICES ASSUME NEW u \in Universes, NEW id, NEW q, Bucketed(u, id, q)
               PROVE  Placed(u, id, q)
    BY DEF Bucketed
  <1> USE DEF Bucketed
  <1> DEFINE at == {i \in DOMAIN q.named : q.named[i] = id}
             i == CHOOSE i \in at : \A j \in at : i <= j
  <1>1. PICK m \in Owners(u, id) :
           m \in DOMAIN u.questions /\ q = u.questions[m] /\ q \in Question
    BY OwnerFacts, Zenon
  <1>2. \E k \in DOMAIN q.named : q.named[k] = id
    BY <1>1, Zenon DEF Owners
  <1>3. QuestionLabels(u, q) = LabelsFromThresholds(q) /\ LabelsFromThresholds(q) # << >>
    BY DEF QuestionLabels, DistinctThresholds
  <1>4. BucketLabel(u, id) = LabelsFromThresholds(q)[i]
    BY <1>3, Zenon DEF BucketLabel
  <1>5. DOMAIN q.named = 1..(Len(q.thresholds) + 1)
    <2>1. q.named \in Seq(Nat)
      BY <1>1 DEF Question
    <2>2. DOMAIN q.named = 1..Len(q.named)
      BY <2>1, SeqFacts, Zenon
    <2> QED BY <1>1, <1>3, <2>2, LabelValues, Zenon
  <1>6. at \in SUBSET Nat /\ at # {}
    <2>1. Len(q.thresholds) \in Nat
      BY <1>1, <1>3, LabelValues, Zenon
    <2> QED BY <1>2, <1>5, <2>1
  <1>7. i \in at
    BY <1>6, FirstOf, Zenon
  <1> HIDE DEF i
  <1> QED BY <1>1, <1>4, <1>5, <1>7, Zenon DEF Placed

\* info.go:222: the bucket names of different outcomes of a question with distinct
\* thresholds mean different assets, also when the outcomes share one name.
LEMMA BucketsAreTold == RegistryInv => BucketsStayApart
  <1> SUFFICES ASSUME RegistryInv, NEW i \in 1..Len(universe.sides),
                      registered >= Len(universe.perps) + Len(universe.spots) + i,
                      Owners(universe, universe.sides[i].id) # {},
                      universe.sides[i].id # FindQuestion(universe, universe.sides[i].id).fallback,
                      DistinctThresholds(FindQuestion(universe, universe.sides[i].id)),
                      \A k \in DOMAIN universe.questions :
                         universe.questions[k].name
                            = FindQuestion(universe, universe.sides[i].id).name
                         => universe.questions[k]
                            = FindQuestion(universe, universe.sides[i].id)
               PROVE  AssetID(Bucket(FindQuestion(universe, universe.sides[i].id).name,
                                     BucketLabel(universe, universe.sides[i].id),
                                     universe.sides[i].side))
                      = outcomeAssetBase + Enc(universe.sides[i])
    BY Zenon DEF BucketsStayApart
  <1>. PICK u : u = universe
    OBVIOUS
  <1> DEFINE R == Registrations[u]
             l == Listed(u)
             s == u.sides[i]
             q == FindQuestion(u, s.id)
             label == BucketLabel(u, s.id)
             n == Bucket(q.name, label, s.side)
  <1>1. /\ u \in Universes /\ l \in Nat /\ Len(R) \in Nat /\ Len(u.sides) \in Nat
        /\ Len(R) = l + Len(u.sides)
        /\ registered \in 0..Len(R) /\ l + i <= registered
        /\ i \in 1..Len(u.sides)
    <2>1. u \in Universes /\ registered \in 0..Len(R)
      BY DEF RegistryInv, RegistryTypeOK
    <2>2. l + i <= registered
      <3> DEFINE m == Len(u.perps) + Len(u.spots) + i
      <3>1. l + i = m /\ registered >= m
        BY DEF Listed
      <3> HIDE DEF m, l
      <3>2. m <= registered
        BY <3>1
      <3> QED BY <3>1, <3>2
    <2>3. l \in Nat /\ Len(u.sides) \in Nat /\ Len(R) = l + Len(u.sides)
      BY <2>1, UniverseFacts, Zenon
    <2>4. Len(R) \in Nat
      <3> DEFINE o == Len(u.sides)
      <3> HIDE DEF l, o
      <3> QED BY <2>3 DEF o
    <2>5. i \in 1..Len(u.sides)
      OBVIOUS
    <2> QED BY <2>1, <2>2, <2>3, <2>4, <2>5, Zenon
  <1>2. l + i \in 1..registered /\ l + i \in 1..Len(R) /\ l + i > l /\ (l + i) - l = i
    <2> HIDE DEF l, R
    <2> QED BY <1>1
  <1>3. PICK p \in 1..(Len(q.thresholds) + 1) :
           q.named[p] = s.id /\ label = LabelsFromThresholds(q)[p] /\ q \in Question
    <2>1. Bucketed(u, s.id, q)
      BY <1>1 DEF Bucketed
    <2>2. Placed(u, s.id, q)
      BY <2>1, LabelPlace, Zenon
    <2> QED BY <2>2 DEF Placed
  <1>4. label[1] \notin {"", "fallback"} /\ label # NoLabel
    <2>1. label[1] \notin {"", "fallback"}
      BY <1>3, LabelsDiffer, Zenon
    <2>2. NoLabel[1] = ""
      BY DEF NoLabel
    <2> HIDE DEF label
    <2> QED BY <2>1, <2>2
  <1>5. n \in R[l + i].names
    <2>1. R[l + i] = SideRegistration(u, i)
      <3>1. /\ l + i \in 1..(l + Len(u.sides)) /\ l + i > l
            /\ (l + i) - l = i
        BY <1>1, <1>2, Zenon
      <3>2. R[l + i] = SideRegistration(u, (l + i) - l)
        BY <1>1, <3>1, UniverseFacts, Zenon
      <3> QED BY <3>1, <3>2, Zenon
    <2>2. n \in SideRegistration(u, i).names
      BY <1>4 DEF SideRegistration
    <2> QED BY <2>1, <2>2
  <1>6. n \in DOMAIN nameToCoin
    BY <1>2, <1>5 DEF RegistryInv, FilledInv
  <1>7. PICK k \in 1..registered : IsLast(n, k) /\ AssetID(n) = R[k].asset
    BY <1>6, LookUpEnds DEF NamesResolve
  <1>8. k \in 1..Len(R) /\ n \in R[k].names /\ ~(k <= l)
    <2>1. ~(k < l + i)
      <3> SUFFICES ASSUME k < l + i PROVE FALSE
        OBVIOUS
      <3>1. l + i \in (k + 1)..registered
        BY <1>1, <1>2
      <3> QED BY <1>5, <1>7, <3>1 DEF IsLast
    <2>2. n \in R[k].names
      BY <1>7 DEF IsLast
    <2> HIDE DEF l, R
    <2> QED BY <1>1, <2>1, <2>2
  <1>9. k - l \in 1..Len(u.sides) /\ R[k] = SideRegistration(u, k - l)
    BY <1>1, <1>8, WhereRegistered, Zenon
  <1> DEFINE t == u.sides[k - l]
             qt == FindQuestion(u, t.id)
             labelt == BucketLabel(u, t.id)
  <1>10. n = Bucket(qt.name, labelt, t.side) /\ labelt # NoLabel
    <2>1. s.side # "" /\ t.side # ""
      BY <1>1, <1>9, UniverseFacts, UniversesAssumption, ZenonT(60)
    <2>2. n # Friendly(t.name, t.side)
      BY <2>1 DEF Bucket, Friendly
    <2>3. n # Canonical(Enc(t))
      BY <2>1 DEF Bucket, Canonical
    <2>4. SideRegistration(u, k - l).names =
             {Friendly(t.name, t.side), Canonical(Enc(t))}
             \cup (IF labelt = NoLabel THEN {} ELSE {Bucket(qt.name, labelt, t.side)})
      BY DEF SideRegistration
    <2>5. n \in SideRegistration(u, k - l).names
      BY <1>8, <1>9
    <2> HIDE DEF n
    <2> QED BY <2>2, <2>3, <2>4, <2>5, Zenon
  <1>11. /\ q.name = qt.name /\ s.side = t.side
         /\ label[1] = labelt[1] /\ label[3] = labelt[3]
    BY <1>10 DEF Bucket
  <1>12. Owners(u, t.id) # {} /\ labelt[1] # "fallback"
    <2>1. Owners(u, t.id) # {}
      BY <1>10, Zenon DEF BucketLabel
    <2> QED BY <1>4, <1>11, <2>1
  <1>13. qt = q
    <2>1. \E m \in DOMAIN u.questions : qt = u.questions[m]
      BY <1>1, <1>12, OwnerFacts, Zenon
    <2> QED BY <1>11, <2>1
  <1>14. t.id # qt.fallback
    <2> SUFFICES ASSUME t.id = qt.fallback PROVE FALSE
      OBVIOUS
    <2>1. labelt = <<"fallback", qt.name, "">>
      BY <1>12, Zenon DEF BucketLabel
    <2>2. <<"fallback", qt.name, "">>[1] = "fallback"
      OBVIOUS
    <2> QED BY <1>12, <2>1, <2>2, Zenon
  <1>15. PICK pt \in 1..(Len(q.thresholds) + 1) :
            q.named[pt] = t.id /\ labelt = LabelsFromThresholds(q)[pt]
    <2>1. Owners(u, t.id) # {} /\ t.id # qt.fallback /\ DistinctThresholds(qt)
      BY <1>12, <1>13, <1>14
    <2>2. /\ qt \in Question
          /\ \E pt \in 1..(Len(qt.thresholds) + 1) :
                qt.named[pt] = t.id /\ labelt = LabelsFromThresholds(qt)[pt]
      <3>1. Bucketed(u, t.id, qt)
        BY <1>1, <2>1 DEF Bucketed
      <3>2. Placed(u, t.id, qt)
        BY <3>1, LabelPlace, Zenon
      <3> QED BY <3>2 DEF Placed
    <2> HIDE DEF q, qt, t, labelt
    <2> QED BY <1>13, <2>2, Zenon
  <1>16. p = pt
    <2>1. /\ LabelsFromThresholds(q)[p][1] = LabelsFromThresholds(q)[pt][1]
          /\ LabelsFromThresholds(q)[p][3] = LabelsFromThresholds(q)[pt][3]
      BY <1>3, <1>11, <1>15, Zenon
    <2> QED BY <1>3, <1>15, <2>1, LabelsDiffer, Zenon
  <1>17. s.id = t.id /\ s.idx = t.idx
    <2>1. s.id = t.id
      BY <1>3, <1>15, <1>16, Zenon
    <2>2. i \in DOMAIN u.sides /\ k - l \in DOMAIN u.sides
      BY <1>1, <1>9, UniverseFacts, Zenon
    <2> QED BY <1>1, <1>11, <2>1, <2>2, UniversesAssumption, Zenon
  <1>18. AssetID(n) = outcomeAssetBase + Enc(t) /\ Enc(t) = Enc(s)
    <2>1. R[k].asset = outcomeAssetBase + Enc(t)
      BY <1>1, <1>9, SideFacts, Zenon
    <2>2. Enc(t) = Enc(s)
      BY <1>17 DEF Enc
    <2> QED BY <1>7, <2>1, <2>2, Zenon
  <1> QED BY <1>18, Zenon

\* The same of every client that New makes.
THEOREM BucketsAlwaysApart == RegistrySpec => []BucketsStayApart
  BY BucketsAreTold, RegistryInvariant, PTL
===============================================================================
