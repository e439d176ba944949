--------------------------- MODULE LaunchPadProofs ---------------------------
(***************************************************************************)
(* Proofs about LaunchPadV2, for any accounts, tokens, offers, decimals    *)
(* and number of sales.                                                    *)
(*                                                                         *)
(* SaleInv speaks of each sale by itself: its count, its claims and, in    *)
(* units of 1/Unit where nothing is rounded, its payments.  It is what     *)
(* makes every amount in the balances of HoldingsAccounted a natural       *)
(* number.  A call touches one slot, so that the sums over the slots       *)
(* change by what it changes there (SlotStep).                             *)
(***************************************************************************)
EXTENDS LaunchPad, LedgerLemmas

RoundInv ==
    \A id \in Ids :
        /\ Unit * paid[id] <= sales[id].soldAmount * sales[id].price
        /\ sales[id].soldAmount * sales[id].price
             <= Unit * paid[id] + (Unit - 1) * buys[id]

TimesInv ==
    \A id \in Ids :
        /\ sales[id].startTime <= sales[id].endTime
        /\ sales[id].finalized =>
              sales[id].endTime < now \/ sales[id].soldAmount = sales[id].totalAmount
        /\ id <= saleCount => sales[id].saleToken \in Tokens

SaleInv == TypeOK /\ SoldAddsUp /\ RoundInv /\ TimesInv

IInv == SaleInv /\ HoldingsAccounted

LEMMA SaleTypes ==
  ASSUME TypeOK, NEW id \in Ids
  PROVE  /\ sales[id].creator \in Users \cup {ZeroAddress}
         /\ sales[id].saleToken \in Tokens \cup {ZeroAddress}
         /\ sales[id].paymentToken \in Tokens \cup {ZeroAddress}
         /\ sales[id].price \in Nat /\ sales[id].totalAmount \in Nat
         /\ sales[id].soldAmount \in Nat /\ sales[id].startTime \in Nat
         /\ sales[id].endTime \in Nat /\ sales[id].minPurchase \in Nat
         /\ sales[id].maxPurchase \in Nat
         /\ sales[id].finalized \in BOOLEAN /\ sales[id].active \in BOOLEAN
         /\ purchased[id] \in [Users -> Nat] /\ claimed[id] \in [Users -> Nat]
         /\ paid[id] \in Nat /\ buys[id] \in Nat
         /\ sales[id] = [creator |-> sales[id].creator, saleToken |-> sales[id].saleToken,
                         paymentToken |-> sales[id].paymentToken, price |-> sales[id].price,
                         totalAmount |-> sales[id].totalAmount,
                         soldAmount |-> sales[id].soldAmount,
                         startTime |-> sales[id].startTime, endTime |-> sales[id].endTime,
                         minPurchase |-> sales[id].minPurchase,
                         maxPurchase |-> sales[id].maxPurchase,
                         finalized |-> sales[id].finalized, active |-> sales[id].active]
BY DEF TypeOK

LEMMA IdsFinite == IsFiniteSet(Ids) /\ Ids \subseteq Nat
BY FS_Interval, NumbersAssumption DEF Ids

(* A claim is part of a purchase, so the claims of a sale are part of what *)
(* it sold; what one account has not claimed is part of the rest.          *)
LEMMA ClaimsWithin ==
  ASSUME SaleInv, NEW id \in Ids
  PROVE  /\ SumOf(claimed[id]) \in Nat
         /\ SumOf(claimed[id]) <= sales[id].soldAmount
         /\ \A u \in Users : Claimable(id, u) \in Nat
                             /\ SumOf(claimed[id]) + Claimable(id, u) <= sales[id].soldAmount
<1> DEFINE p == purchased[id]
           c == claimed[id]
           d == [u \in Users |-> p[u] - c[u]]
<1>1. /\ p \in [Users -> Nat] /\ c \in [Users -> Nat] /\ IsFiniteSet(Users)
      /\ \A u \in Users : c[u] <= p[u]
      /\ sales[id].soldAmount = SumOf(p)
  BY SaleTypes, UsersAssumption DEF SaleInv, SoldAddsUp
<1>2. \A u \in Users : Claimable(id, u) = p[u] - c[u]
  BY DEF Claimable
<1> HIDE DEF p, c
<1>3. d \in [Users -> Nat] /\ \A u \in Users : p[u] = c[u] + d[u]
  BY <1>1
<1>4. \A u \in Users : d[u] = p[u] - c[u]
  OBVIOUS
<1> HIDE DEF d
<1>5. SumOf(p) = SumOf(c) + SumOf(d)
  BY <1>1, <1>3, SumAdd
<1>6. SumOf(c) \in Nat /\ SumOf(d) \in Nat
  BY <1>1, <1>3, SumFinite
<1>7. ASSUME NEW u \in Users
      PROVE  Claimable(id, u) \in Nat /\ SumOf(c) + Claimable(id, u) <= SumOf(p)
  <2>1. d[u] <= SumOf(d)
    BY <1>1, <1>3, SumMember
  <2>2. Claimable(id, u) = d[u] /\ d[u] \in Nat
    BY <1>2, <1>3, <1>4
  <2> QED
    BY <1>5, <1>6, <2>1, <2>2
<1> QED
  BY <1>1, <1>5, <1>6, <1>7 DEF c

(* The price of all that was sold is at least what was paid for it.        *)
LEMMA RaisedFacts ==
  ASSUME SaleInv, NEW id \in Ids
  PROVE  /\ TotalRaised(sales[id]) \in Nat
         /\ paid[id] <= TotalRaised(sales[id])
         /\ TotalRaised(sales[id]) <= paid[id] + buys[id]
         /\ buys[id] > 0 => TotalRaised(sales[id]) < paid[id] + buys[id]
<1> DEFINE x == sales[id].soldAmount * sales[id].price
           r == x \div Unit
           p == paid[id]
           b == buys[id]
<1>1. TotalRaised(sales[id]) = r
  BY DEF TotalRaised, Cost
<1>2. p \in Nat /\ b \in Nat /\ Unit \in Nat \ {0} /\ x \in Nat
  <2>1. sales[id].soldAmount \in Nat /\ sales[id].price \in Nat /\ p \in Nat /\ b \in Nat
    BY SaleTypes DEF SaleInv
  <2>2. \A i, j \in Nat : i * j \in Nat
    OBVIOUS
  <2> QED
    BY <2>1, <2>2, NumbersAssumption
<1>3. Unit * p <= x /\ x <= Unit * p + (Unit - 1) * b
  BY DEF SaleInv, RoundInv
<1> HIDE DEF x, p, b
<1>4. r \in Nat /\ Unit * r <= x /\ x < Unit * r + Unit
  BY <1>2, DivFacts
<1> HIDE DEF r
<1>5. p <= r
  <2>1. Unit * p < Unit * (r + 1)
    BY <1>2, <1>3, <1>4
  <2>2. p < r + 1
    BY <1>2, <1>4, <2>1
  <2> QED
    BY <1>2, <1>4, <2>2
<1>6. Unit * p + (Unit - 1) * b = Unit * (p + b) - b /\ Unit * (p + b) \in Nat
  BY <1>2
<1>7. Unit * r <= Unit * (p + b) - b
  BY <1>2, <1>3, <1>4, <1>6
<1>8. r <= p + b
  <2>1. Unit * r < Unit * (p + b + 1)
    BY <1>2, <1>4, <1>7
  <2>2. r < p + b + 1
    BY <1>2, <1>4, <2>1
  <2> QED
    BY <1>2, <1>4, <2>2
<1>9. ASSUME b > 0
      PROVE  r < p + b
  <2>1. Unit * r < Unit * (p + b)
    BY <1>2, <1>4, <1>6, <1>7, <1>9
  <2> QED
    BY <1>2, <1>4, <2>1
<1> QED
  BY <1>1, <1>4, <1>5, <1>8, <1>9 DEF p, b

(* Every amount in the balances is a natural number. *)
AmountsOK ==
  \A id \in Ids :
    /\ TokensOwed(id) \in Nat /\ MoneyKept(id) \in Nat /\ Overpaid(id) \in Nat
    /\ \A t \in Tokens : /\ OwedIn(t, id) \in Nat /\ KeptIn(t, id) \in Nat
                         /\ OverpaidIn(t, id) \in Nat

LEMMA AmountsNat == SaleInv => AmountsOK
<1> SUFFICES ASSUME SaleInv, NEW id \in Ids
             PROVE  /\ TokensOwed(id) \in Nat /\ MoneyKept(id) \in Nat /\ Overpaid(id) \in Nat
                    /\ \A t \in Tokens : /\ OwedIn(t, id) \in Nat /\ KeptIn(t, id) \in Nat
                                         /\ OverpaidIn(t, id) \in Nat
  BY DEF AmountsOK
<1>1. /\ sales[id].soldAmount \in Nat /\ sales[id].totalAmount \in Nat /\ paid[id] \in Nat
      /\ sales[id].soldAmount <= sales[id].totalAmount
  BY SaleTypes DEF SaleInv, SoldAddsUp
<1>2. TokensOwed(id) \in Nat
  BY <1>1, ClaimsWithin DEF TokensOwed
<1>3. MoneyKept(id) \in Nat
  BY <1>1 DEF MoneyKept
<1>4. Overpaid(id) \in Nat
  BY <1>1, RaisedFacts DEF Overpaid
<1> QED
  BY <1>2, <1>3, <1>4 DEF OwedIn, KeptIn, OverpaidIn

(* A call that touches one slot, and a balance by what it changes there.   *)
LEMMA SlotStep ==
  ASSUME SaleInv, SaleInv', HoldingsAccounted, NEW id \in Ids,
         \A w \in Ids : w # id => /\ sales'[w] = sales[w] /\ claimed'[w] = claimed[w]
                                  /\ paid'[w] = paid[w],
         \A t \in Tokens :
            held'[t] + OverpaidIn(t, id)' + OwedIn(t, id) + KeptIn(t, id)
              = held[t] + OverpaidIn(t, id) + OwedIn(t, id)' + KeptIn(t, id)'
  PROVE  HoldingsAccounted'
<1> SUFFICES ASSUME NEW t \in Tokens
             PROVE  held'[t] + SumOf([w \in Ids |-> OverpaidIn(t, w)'])
                      = SumOf([w \in Ids |-> OwedIn(t, w)'])
                          + SumOf([w \in Ids |-> KeptIn(t, w)'])
  BY DEF HoldingsAccounted
<1> DEFINE o  == [w \in Ids |-> OwedIn(t, w)]
           k  == [w \in Ids |-> KeptIn(t, w)]
           v  == [w \in Ids |-> OverpaidIn(t, w)]
           o2 == [w \in Ids |-> OwedIn(t, w)']
           k2 == [w \in Ids |-> KeptIn(t, w)']
           v2 == [w \in Ids |-> OverpaidIn(t, w)']
<1>1. \A w \in Ids : OwedIn(t, w) \in Nat /\ KeptIn(t, w) \in Nat /\ OverpaidIn(t, w) \in Nat
  BY AmountsNat DEF AmountsOK
<1>2. \A w \in Ids : /\ OwedIn(t, w)' \in Nat /\ KeptIn(t, w)' \in Nat
                     /\ OverpaidIn(t, w)' \in Nat
  <2>1. AmountsOK'
    BY AmountsNat, PTL
  <2> QED
    BY <2>1 DEF AmountsOK
<1>3. \A w \in Ids : w # id => /\ OwedIn(t, w)' = OwedIn(t, w) /\ KeptIn(t, w)' = KeptIn(t, w)
                               /\ OverpaidIn(t, w)' = OverpaidIn(t, w)
  BY DEF OwedIn, KeptIn, OverpaidIn, TokensOwed, MoneyKept, Overpaid, TotalRaised, Cost
<1>4. /\ o \in [Ids -> Nat] /\ k \in [Ids -> Nat] /\ v \in [Ids -> Nat]
      /\ o2 \in [Ids -> Nat] /\ k2 \in [Ids -> Nat] /\ v2 \in [Ids -> Nat]
  BY <1>1, <1>2
<1>5. /\ \A w \in Ids : w # id => o2[w] = o[w] /\ k2[w] = k[w] /\ v2[w] = v[w]
      /\ o[id] = OwedIn(t, id) /\ k[id] = KeptIn(t, id) /\ v[id] = OverpaidIn(t, id)
      /\ o2[id] = OwedIn(t, id)' /\ k2[id] = KeptIn(t, id)' /\ v2[id] = OverpaidIn(t, id)'
  BY <1>3
<1>6. held[t] + SumOf(v) = SumOf(o) + SumOf(k)
  BY DEF HoldingsAccounted
<1>7. held[t] \in Nat /\ held'[t] \in Nat
  BY DEF SaleInv, TypeOK
<1>8. held'[t] + v2[id] + o[id] + k[id] = held[t] + v[id] + o2[id] + k2[id]
  BY <1>5
<1> HIDE DEF o, k, v, o2, k2, v2
<1>9. /\ o[id] \in Nat /\ k[id] \in Nat /\ v[id] \in Nat
      /\ o2[id] \in Nat /\ k2[id] \in Nat /\ v2[id] \in Nat
  BY <1>4
<1>10. SumOf(o) \in Nat /\ SumOf(o2) \in Nat /\ SumOf(o2) + o[id] = SumOf(o) + o2[id]
  <2>1. SumOf(o) \in Nat /\ SumOf(o2) \in Nat
    BY <1>4, SumFinite, IdsFinite
  <2>2. SumOf(o2) = SumOf(o) - o[id] + o2[id]
    BY <1>4, <1>5, SumUpdate, IdsFinite
  <2> QED
    BY <1>9, <2>1, <2>2
<1>11. SumOf(k) \in Nat /\ SumOf(k2) \in Nat /\ SumOf(k2) + k[id] = SumOf(k) + k2[id]
  <2>1. SumOf(k) \in Nat /\ SumOf(k2) \in Nat
    BY <1>4, SumFinite, IdsFinite
  <2>2. SumOf(k2) = SumOf(k) - k[id] + k2[id]
    BY <1>4, <1>5, SumUpdate, IdsFinite
  <2> QED
    BY <1>9, <2>1, <2>2
<1>12. SumOf(v) \in Nat /\ SumOf(v2) \in Nat /\ SumOf(v2) + v[id] = SumOf(v) + v2[id]
  <2>1. SumOf(v) \in Nat /\ SumOf(v2) \in Nat
    BY <1>4, SumFinite, IdsFinite
  <2>2. SumOf(v2) = SumOf(v) - v[id] + v2[id]
    BY <1>4, <1>5, SumUpdate, IdsFinite
  <2> QED
    BY <1>9, <2>1, <2>2
<1>13. held'[t] + SumOf(v2) = SumOf(o2) + SumOf(k2)
  BY <1>6, <1>7, <1>8, <1>9, <1>10, <1>11, <1>12
<1> QED
  BY <1>13 DEF o2, k2, v2

-----------------------------------------------------------------------------
(* Opening a sale takes the next slot, in which nothing was bought, and    *)
(* brings the tokens on offer.                                             *)
LEMMA PushFacts ==
  ASSUME SaleInv, NEW u \in Users, NEW o \in Offers, ValidTimesAndLimits(o), Push(u, o)
  PROVE  /\ saleCount + 1 \in Ids /\ sales[saleCount + 1] = NoSale
         /\ \A w \in Users : purchased[saleCount + 1][w] = 0 /\ claimed[saleCount + 1][w] = 0
         /\ SumOf(purchased[saleCount + 1]) = 0 /\ SumOf(claimed[saleCount + 1]) = 0
         /\ paid[saleCount + 1] = 0
<1> DEFINE id == saleCount + 1
<1>1. id \in Ids /\ id > saleCount
  BY NumbersAssumption DEF Push, Ids, SaleInv, TypeOK
<1>2. sales[id] = NoSale
  BY <1>1 DEF SaleInv, TypeOK
<1> HIDE DEF id
<1>3. sales[id].soldAmount = 0 /\ sales[id].price = 0
  BY <1>2 DEF NoSale
<1>4. SumOf(purchased[id]) = 0
  BY <1>1, <1>3 DEF SaleInv, SoldAddsUp
<1>5. /\ purchased[id] \in [Users -> Nat] /\ claimed[id] \in [Users -> Nat]
      /\ paid[id] \in Nat /\ buys[id] \in Nat
  BY <1>1, SaleTypes DEF SaleInv
<1>6. \A w \in Users : purchased[id][w] = 0
  BY <1>4, <1>5, SumZero, UsersAssumption
<1>7. \A w \in Users : claimed[id][w] = 0
  BY <1>1, <1>5, <1>6 DEF SaleInv, SoldAddsUp
<1>8. SumOf(claimed[id]) = 0
  BY <1>5, <1>7, SumZero, UsersAssumption
<1>9. Unit * paid[id] <= 0
  BY <1>1, <1>3 DEF SaleInv, RoundInv
<1>10. paid[id] = 0
  BY <1>5, <1>9, NumbersAssumption
<1> QED
  BY <1>1, <1>2, <1>4, <1>6, <1>7, <1>8, <1>10 DEF id

LEMMA OpenKeepsSale ==
  ASSUME SaleInv, NEW u \in Users, NEW o \in Offers, ValidTimesAndLimits(o), Push(u, o),
         held' = [held EXCEPT ![o.saleToken] = held[o.saleToken] + o.totalAmount],
         deployed' \subseteq NewTokens,
         UNCHANGED <<now, purchased, claimed, platformFee, paid, buys>>
  PROVE  SaleInv'
<1> DEFINE id == saleCount + 1
<1>1. /\ id \in Ids /\ sales[id] = NoSale /\ SumOf(purchased[id]) = 0 /\ paid[id] = 0
      /\ \A w \in Users : purchased[id][w] = 0 /\ claimed[id][w] = 0
  BY PushFacts
<1>2. /\ o.saleToken \in Tokens /\ o.paymentToken \in Tokens
      /\ o.price \in Nat /\ o.totalAmount \in Nat /\ o.startTime \in Nat /\ o.endTime \in Nat
      /\ o.minPurchase \in Nat /\ o.maxPurchase \in Nat
  BY OffersAssumption
<1>3. saleCount \in Nat /\ saleCount' = id /\ id <= MaxSales
  BY NumbersAssumption DEF Push, SaleInv, TypeOK
<1>4. sales' = [sales EXCEPT ![id] = NewSale(u, o)]
  BY DEF Push
<1> HIDE DEF id
<1>5. /\ sales'[id] = NewSale(u, o) /\ \A w \in Ids : w # id => sales'[w] = sales[w]
      /\ NewSale(u, o).soldAmount = 0 /\ NewSale(u, o).active /\ ~NewSale(u, o).finalized
      /\ NewSale(u, o).price = o.price /\ NewSale(u, o).totalAmount = o.totalAmount
      /\ NewSale(u, o).maxPurchase = o.maxPurchase
      /\ NewSale(u, o).startTime = o.startTime /\ NewSale(u, o).endTime = o.endTime
  BY <1>1, <1>4 DEF SaleInv, TypeOK, NewSale
<1>6. TypeOK'
  <2>1. held' \in [Tokens -> Nat]
    BY <1>2 DEF SaleInv, TypeOK
  <2>2. NewSale(u, o) \in [creator : Users \cup {ZeroAddress},
                          saleToken : Tokens \cup {ZeroAddress},
                          paymentToken : Tokens \cup {ZeroAddress},
                          price : Nat, totalAmount : Nat, soldAmount : Nat,
                          startTime : Nat, endTime : Nat,
                          minPurchase : Nat, maxPurchase : Nat,
                          finalized : BOOLEAN, active : BOOLEAN]
    BY <1>2 DEF NewSale
  <2>3. sales' \in [Ids -> [creator : Users \cup {ZeroAddress},
                          saleToken : Tokens \cup {ZeroAddress},
                          paymentToken : Tokens \cup {ZeroAddress},
                          price : Nat, totalAmount : Nat, soldAmount : Nat,
                          startTime : Nat, endTime : Nat,
                          minPurchase : Nat, maxPurchase : Nat,
                          finalized : BOOLEAN, active : BOOLEAN]]
    BY <1>4, <2>2 DEF SaleInv, TypeOK
  <2>4. saleCount' \in 0..MaxSales
    BY <1>1, <1>3, NumbersAssumption DEF Ids
  <2>5. \A w \in Ids : w > saleCount' => sales'[w] = NoSale
    BY <1>3, <1>5 DEF SaleInv, TypeOK, Ids, id
  <2>6. \A w \in Ids : ~sales'[w].active => sales'[w].soldAmount = 0
    BY <1>5 DEF SaleInv, TypeOK
  <2> QED
    BY <2>1, <2>3, <2>4, <2>5, <2>6 DEF SaleInv, TypeOK
<1>7. SoldAddsUp'
  BY <1>1, <1>2, <1>5 DEF SaleInv, SoldAddsUp
<1>8. RoundInv'
  <2>1. Unit * paid[id] <= 0 * o.price /\ 0 * o.price <= Unit * paid[id] + (Unit - 1) * buys[id]
    <3>1. 0 * o.price = 0 /\ Unit * 0 = 0
      BY <1>2, NumbersAssumption
    <3>2. (Unit - 1) * buys[id] \in Nat
      <4>1. Unit - 1 \in Nat /\ buys[id] \in Nat
        BY <1>1, NumbersAssumption DEF SaleInv, TypeOK
      <4>2. \A i, j \in Nat : i * j \in Nat
        OBVIOUS
      <4> QED
        BY <4>1, <4>2
    <3> QED
      BY <1>1, <3>1, <3>2
  <2> QED
    BY <1>5, <2>1 DEF SaleInv, RoundInv
<1>9. TimesInv'
  <2>1. NewSale(u, o).saleToken \in Tokens
    BY <1>2 DEF NewSale
  <2>2. \A w \in Ids : w <= saleCount' => w <= saleCount \/ w = id
    BY <1>3 DEF Ids, id
  <2> QED
    BY <1>2, <1>5, <2>1, <2>2 DEF SaleInv, TimesInv, ValidTimesAndLimits
<1> QED
  BY <1>6, <1>7, <1>8, <1>9 DEF SaleInv

LEMMA OpenKeepsHoldings ==
  ASSUME IInv, SaleInv', NEW u \in Users, NEW o \in Offers, ValidTimesAndLimits(o), Push(u, o),
         held' = [held EXCEPT ![o.saleToken] = held[o.saleToken] + o.totalAmount],
         UNCHANGED <<now, purchased, claimed, platformFee, paid, buys>>
  PROVE  HoldingsAccounted'
<1> USE DEF IInv
<1>1. PICK id \in Ids : /\ id = saleCount + 1
                       /\ sales[id] = NoSale /\ SumOf(claimed[id]) = 0 /\ paid[id] = 0
  BY PushFacts
<1>2. o.totalAmount \in Nat /\ o.saleToken \in Tokens
  BY OffersAssumption
<1>3. sales' = [sales EXCEPT ![id] = NewSale(u, o)]
  BY <1>1 DEF Push
<1>4. sales'[id] = NewSale(u, o) /\ \A w \in Ids : w # id => sales'[w] = sales[w]
  BY <1>1, <1>3 DEF SaleInv, TypeOK
<1>5. ASSUME NEW t \in Tokens
      PROVE  held'[t] + OverpaidIn(t, id)' + OwedIn(t, id) + KeptIn(t, id)
               = held[t] + OverpaidIn(t, id) + OwedIn(t, id)' + KeptIn(t, id)'
  <2>1. OwedIn(t, id) = 0 /\ KeptIn(t, id) = 0 /\ OverpaidIn(t, id) = 0
    BY <1>1, TokensAssumption DEF OwedIn, KeptIn, OverpaidIn, NoSale
  <2>2. KeptIn(t, id)' = 0 /\ OverpaidIn(t, id)' = 0
    BY <1>1, <1>4 DEF KeptIn, OverpaidIn, MoneyKept, Overpaid, NewSale
  <2>3. OwedIn(t, id)' = IF o.saleToken = t THEN o.totalAmount ELSE 0
    BY <1>1, <1>2, <1>4 DEF OwedIn, TokensOwed, NewSale
  <2>4. held'[t] = IF o.saleToken = t THEN held[t] + o.totalAmount ELSE held[t]
    BY <1>2 DEF SaleInv, TypeOK
  <2>5. held[t] \in Nat
    BY DEF SaleInv, TypeOK
  <2> QED
    BY <1>2, <2>1, <2>2, <2>3, <2>4, <2>5
<1> QED
  BY <1>1, <1>4, <1>5, SlotStep

-----------------------------------------------------------------------------
(* A purchase raises the count, the buyer's purchases and the price of the *)
(* whole by the same amount of tokens; its payment is that price rounded.  *)
LEMMA BuyFacts ==
  ASSUME SaleInv, NEW id \in Ids, NEW u \in Users, NEW amount \in Nat, buy(id, u, amount)
  PROVE  /\ Cost(sales[id], amount) \in Nat
         /\ Unit * Cost(sales[id], amount) <= amount * sales[id].price
         /\ amount * sales[id].price <= Unit * Cost(sales[id], amount) + (Unit - 1)
         /\ (sales[id].soldAmount + amount) * sales[id].price
              = sales[id].soldAmount * sales[id].price + amount * sales[id].price
         /\ sales[id].soldAmount * sales[id].price \in Nat
         /\ amount * sales[id].price \in Nat
<1> DEFINE p == sales[id].price
           m == sales[id].soldAmount
           x == amount * p
<1>1. p \in Nat /\ m \in Nat
  BY SaleTypes DEF SaleInv
<1>2. Cost(sales[id], amount) = x \div Unit
  BY DEF Cost
<1> HIDE DEF p, m
<1>3. \A i, j \in Nat : i * j \in Nat
  OBVIOUS
<1>4. x \in Nat /\ m * p \in Nat
  BY <1>1, <1>3
<1>5. (m + amount) * p = m * p + x
  BY <1>1
<1> HIDE DEF x
<1>6. x \div Unit \in Nat /\ Unit * (x \div Unit) <= x /\ x < Unit * (x \div Unit) + Unit
  BY <1>4, NumbersAssumption, DivFacts
<1> DEFINE q == x \div Unit
<1>7. Unit * q \in Nat
  BY <1>3, <1>6, NumbersAssumption
<1> HIDE DEF q
<1>8. x <= Unit * q + (Unit - 1)
  <2>1. x < Unit * q + Unit
    BY <1>6 DEF q
  <2> QED
    BY <1>4, <1>7, <2>1, NumbersAssumption
<1> QED
  BY <1>2, <1>4, <1>5, <1>6, <1>8 DEF p, m, x, q

LEMMA BuyKeepsSale ==
  ASSUME SaleInv, NEW id \in Ids, NEW u \in Users, NEW amount \in Nat, buy(id, u, amount)
  PROVE  SaleInv'
<1> DEFINE s == sales[id]
           c == Cost(s, amount)
<1>1. /\ s.active /\ ~s.finalized /\ id <= saleCount
      /\ purchased[id][u] + amount <= s.maxPurchase
      /\ s.soldAmount + amount <= s.totalAmount
  BY DEF buy, CanBuy
<1>2. /\ held' = [held EXCEPT ![s.paymentToken] = held[s.paymentToken] + c]
      /\ purchased' = [purchased EXCEPT ![id] =
                          [purchased[id] EXCEPT ![u] = purchased[id][u] + amount]]
      /\ sales' = [sales EXCEPT ![id] = [s EXCEPT !.soldAmount = s.soldAmount + amount]]
      /\ paid' = [paid EXCEPT ![id] = paid[id] + c]
      /\ buys' = [buys EXCEPT ![id] = buys[id] + 1]
      /\ UNCHANGED <<now, saleCount, claimed, platformFee, deployed>>
  BY DEF buy
<1>3. c \in Nat
  BY BuyFacts
<1>4. s.soldAmount \in Nat /\ s.price \in Nat /\ s.maxPurchase \in Nat /\ s.totalAmount \in Nat
  BY SaleTypes DEF SaleInv
<1>5. /\ \A w \in Ids : w # id => /\ sales'[w] = sales[w] /\ purchased'[w] = purchased[w]
                                  /\ paid'[w] = paid[w] /\ buys'[w] = buys[w]
      /\ sales'[id] = [s EXCEPT !.soldAmount = s.soldAmount + amount]
      /\ purchased'[id] = [purchased[id] EXCEPT ![u] = purchased[id][u] + amount]
      /\ paid'[id] = paid[id] + c /\ buys'[id] = buys[id] + 1
  BY <1>2 DEF SaleInv, TypeOK
<1>6. /\ sales'[id].soldAmount = s.soldAmount + amount /\ sales'[id].price = s.price
      /\ sales'[id].totalAmount = s.totalAmount /\ sales'[id].maxPurchase = s.maxPurchase
      /\ sales'[id].active = s.active /\ sales'[id].finalized = s.finalized
      /\ sales'[id].startTime = s.startTime /\ sales'[id].endTime = s.endTime
      /\ sales'[id].saleToken = s.saleToken
  BY <1>5, SaleTypes DEF SaleInv
<1> HIDE DEF c
<1>7. TypeOK'
  <2>1. held' \in [Tokens -> Nat]
    <3>1. held \in [Tokens -> Nat]
      BY DEF SaleInv, TypeOK
    <3>2. held' = [t \in Tokens |-> IF t = s.paymentToken THEN held[t] + c ELSE held[t]]
      BY <1>2, <3>1
    <3> QED
      BY <1>3, <3>1, <3>2
  <2>2. purchased' \in [Ids -> [Users -> Nat]]
    BY <1>2 DEF SaleInv, TypeOK
  <2>3. sales' \in [Ids -> [creator : Users \cup {ZeroAddress},
                          saleToken : Tokens \cup {ZeroAddress},
                          paymentToken : Tokens \cup {ZeroAddress},
                          price : Nat, totalAmount : Nat, soldAmount : Nat,
                          startTime : Nat, endTime : Nat,
                          minPurchase : Nat, maxPurchase : Nat,
                          finalized : BOOLEAN, active : BOOLEAN]]
    <3> DEFINE n == s.soldAmount + amount
    <3>1. n \in Nat
      BY <1>4
    <3>2. [s EXCEPT !.soldAmount = n] \in
            [creator : Users \cup {ZeroAddress},
             saleToken : Tokens \cup {ZeroAddress},
             paymentToken : Tokens \cup {ZeroAddress},
             price : Nat, totalAmount : Nat, soldAmount : Nat,
             startTime : Nat, endTime : Nat,
             minPurchase : Nat, maxPurchase : Nat,
             finalized : BOOLEAN, active : BOOLEAN]
      <4> HIDE DEF n
      <4> QED
        BY <3>1 DEF SaleInv, TypeOK
    <3> QED
      BY <1>2, <3>2 DEF SaleInv, TypeOK
  <2>4. paid' \in [Ids -> Nat] /\ buys' \in [Ids -> Nat]
    BY <1>2, <1>3 DEF SaleInv, TypeOK
  <2>5. \A w \in Ids : w > saleCount => w # id
    BY <1>1 DEF Ids, SaleInv, TypeOK
  <2> QED
    BY <1>1, <1>2, <1>5, <1>6, <2>1, <2>2, <2>3, <2>4, <2>5 DEF SaleInv, TypeOK
<1>8. SoldAddsUp'
  <2>1. /\ purchased[id] \in [Users -> Nat] /\ claimed[id] \in [Users -> Nat]
        /\ purchased'[id] \in [Users -> Nat]
    BY <1>7, SaleTypes DEF SaleInv, TypeOK
  <2>2. SumOf(purchased'[id]) = SumOf(purchased[id]) - purchased[id][u] + (purchased[id][u] + amount)
    <3>1. PICK h \in [Users -> Nat] : h = purchased'[id]
      BY <2>1
    <3>2. SumOf(h) = SumOf(purchased[id]) - purchased[id][u] + h[u]
      BY <1>5, <2>1, <3>1, SumUpdate, UsersAssumption
    <3> QED
      BY <1>5, <2>1, <3>1, <3>2
  <2>3. SumOf(purchased[id]) = s.soldAmount /\ purchased[id][u] \in Nat
    BY <2>1 DEF SaleInv, SoldAddsUp
  <2>4. SumOf(purchased'[id]) = s.soldAmount + amount
    BY <1>4, <2>2, <2>3
  <2>5. \A w \in Users : /\ claimed[id][w] <= purchased'[id][w]
                         /\ purchased'[id][w] <= s.maxPurchase
    <3> TAKE w \in Users
    <3>1. /\ claimed[id][w] <= purchased[id][w] /\ purchased[id][w] <= s.maxPurchase
          /\ claimed[id][w] \in Nat /\ purchased[id][w] \in Nat
      BY <2>1 DEF SaleInv, SoldAddsUp
    <3> QED
      BY <1>1, <1>4, <1>5, <2>1, <3>1
  <2> QED
    BY <1>1, <1>2, <1>5, <1>6, <2>4, <2>5 DEF SaleInv, SoldAddsUp
<1>9. RoundInv'
  <2> DEFINE y == s.soldAmount * s.price
             z == amount * s.price
  <2>1. /\ Unit * c <= z /\ z <= Unit * c + (Unit - 1)
        /\ (s.soldAmount + amount) * s.price = y + z
        /\ y \in Nat /\ z \in Nat
    BY BuyFacts DEF c
  <2>2. Unit * paid[id] <= y /\ y <= Unit * paid[id] + (Unit - 1) * buys[id]
    BY DEF SaleInv, RoundInv
  <2>3. paid[id] \in Nat /\ buys[id] \in Nat /\ Unit \in Nat \ {0}
    BY NumbersAssumption DEF SaleInv, TypeOK
  <2>4. Unit * (paid[id] + c) = Unit * paid[id] + Unit * c
    BY <1>3, <2>3
  <2>5. (Unit - 1) * (buys[id] + 1) = (Unit - 1) * buys[id] + (Unit - 1)
    BY <2>3
  <2>6. \A i, j \in Nat : i * j \in Nat
    OBVIOUS
  <2>7. /\ Unit * paid[id] \in Nat /\ Unit * c \in Nat
        /\ (Unit - 1) * buys[id] \in Nat /\ Unit - 1 \in Nat
    BY <1>3, <2>3, <2>6
  <2> HIDE DEF y, z
  <2>8. Unit * (paid[id] + c) <= y + z
        /\ y + z <= Unit * (paid[id] + c) + (Unit - 1) * (buys[id] + 1)
    BY <2>1, <2>2, <2>4, <2>5, <2>7
  <2>9. /\ Unit * paid'[id] <= sales'[id].soldAmount * sales'[id].price
        /\ sales'[id].soldAmount * sales'[id].price
             <= Unit * paid'[id] + (Unit - 1) * buys'[id]
    BY <1>5, <1>6, <2>1, <2>8
  <2> QED
    BY <1>5, <2>9 DEF SaleInv, RoundInv
<1>10. TimesInv'
  BY <1>1, <1>2, <1>5, <1>6 DEF SaleInv, TimesInv
<1> QED
  BY <1>7, <1>8, <1>9, <1>10 DEF SaleInv

LEMMA BuyKeepsHoldings ==
  ASSUME IInv, SaleInv', NEW id \in Ids, NEW u \in Users, NEW amount \in Nat, buy(id, u, amount)
  PROVE  HoldingsAccounted'
<1> DEFINE s == sales[id]
           c == Cost(s, amount)
<1> USE DEF IInv
<1>1. /\ s.active /\ ~s.finalized
      /\ held' = [held EXCEPT ![s.paymentToken] = held[s.paymentToken] + c]
      /\ sales' = [sales EXCEPT ![id] = [s EXCEPT !.soldAmount = s.soldAmount + amount]]
      /\ paid' = [paid EXCEPT ![id] = paid[id] + c]
      /\ claimed' = claimed
  BY DEF buy, CanBuy
<1>2. /\ \A w \in Ids : w # id => sales'[w] = sales[w] /\ paid'[w] = paid[w]
      /\ sales'[id] = [s EXCEPT !.soldAmount = s.soldAmount + amount]
      /\ paid'[id] = paid[id] + c
  BY <1>1 DEF SaleInv, TypeOK
<1>3. /\ sales'[id].saleToken = s.saleToken /\ sales'[id].paymentToken = s.paymentToken
      /\ sales'[id].totalAmount = s.totalAmount
      /\ sales'[id].active = s.active /\ sales'[id].finalized = s.finalized
  BY <1>2, SaleTypes DEF SaleInv
<1>4. c \in Nat
  BY BuyFacts
<1> HIDE DEF c
<1>5. ASSUME NEW t \in Tokens
      PROVE  held'[t] + OverpaidIn(t, id)' + OwedIn(t, id) + KeptIn(t, id)
               = held[t] + OverpaidIn(t, id) + OwedIn(t, id)' + KeptIn(t, id)'
  <2>1. OwedIn(t, id)' = OwedIn(t, id)
    BY <1>1, <1>3 DEF OwedIn, TokensOwed
  <2>2. OverpaidIn(t, id)' = 0 /\ OverpaidIn(t, id) = 0
    BY <1>1, <1>3 DEF OverpaidIn, Overpaid
  <2>3. KeptIn(t, id)' = IF s.paymentToken = t THEN KeptIn(t, id) + c ELSE KeptIn(t, id)
    BY <1>1, <1>2, <1>3 DEF KeptIn, MoneyKept
  <2>4. held'[t] = IF s.paymentToken = t THEN held[t] + c ELSE held[t]
    BY <1>1 DEF SaleInv, TypeOK
  <2>5. held[t] \in Nat /\ OwedIn(t, id) \in Nat /\ KeptIn(t, id) \in Nat
    BY AmountsNat DEF SaleInv, TypeOK, AmountsOK
  <2> QED
    BY <1>4, <2>1, <2>2, <2>3, <2>4, <2>5
<1> QED
  BY <1>1, <1>2, <1>5, SlotStep

-----------------------------------------------------------------------------
(* A claim moves what one account bought and had not claimed: what the     *)
(* sale owes falls by what leaves the contract.                            *)
LEMMA ClaimFacts ==
  ASSUME SaleInv, NEW id \in Ids, NEW u \in Users, claim(id, u)
  PROVE  /\ Claimable(id, u) \in Nat
         /\ claimed' \in [Ids -> [Users -> Nat]]
         /\ \A w \in Ids : w # id => claimed'[w] = claimed[w]
         /\ \A w \in Users : claimed'[id][w] <= purchased[id][w]
         /\ SumOf(claimed[id]) \in Nat
         /\ SumOf(claimed'[id]) = SumOf(claimed[id]) + Claimable(id, u)
         /\ sales[id].active
<1>1. claimed' = [claimed EXCEPT ![id] = [claimed[id] EXCEPT ![u] = purchased[id][u]]]
  BY DEF claim
<1>2. /\ purchased[id] \in [Users -> Nat] /\ claimed[id] \in [Users -> Nat]
      /\ sales[id].soldAmount \in Nat
  BY SaleTypes DEF SaleInv
<1>3. claimed' \in [Ids -> [Users -> Nat]]
  BY <1>1, <1>2 DEF SaleInv, TypeOK
<1>4. /\ claimed'[id] = [claimed[id] EXCEPT ![u] = purchased[id][u]]
      /\ \A w \in Ids : w # id => claimed'[w] = claimed[w]
  BY <1>1 DEF SaleInv, TypeOK
<1>5. \A w \in Users : claimed[id][w] <= purchased[id][w]
  BY DEF SaleInv, SoldAddsUp
<1>6. \A w \in Users : claimed'[id][w] <= purchased[id][w]
  BY <1>2, <1>4, <1>5
<1>7. SumOf(claimed[id]) \in Nat /\ Claimable(id, u) \in Nat
  BY ClaimsWithin
<1>8. SumOf(claimed'[id]) = SumOf(claimed[id]) - claimed[id][u] + purchased[id][u]
  <2>1. PICK h \in [Users -> Nat] : h = claimed'[id]
    BY <1>3
  <2>2. SumOf(h) = SumOf(claimed[id]) - claimed[id][u] + h[u]
    BY <1>2, <1>4, <2>1, SumUpdate, UsersAssumption
  <2> QED
    BY <1>2, <1>4, <2>1, <2>2
<1>9. SumOf(claimed'[id]) = SumOf(claimed[id]) + Claimable(id, u)
  BY <1>2, <1>7, <1>8 DEF Claimable
<1>10. sales[id].active
  <2>1. SUFFICES ASSUME ~sales[id].active PROVE FALSE
    OBVIOUS
  <2>2. sales[id].soldAmount = 0
    BY <2>1 DEF SaleInv, TypeOK
  <2>3. Claimable(id, u) > 0 /\ SumOf(claimed[id]) + Claimable(id, u) <= sales[id].soldAmount
    BY ClaimsWithin DEF claim
  <2> QED
    BY <1>7, <2>2, <2>3
<1> QED
  BY <1>3, <1>4, <1>6, <1>7, <1>9, <1>10

LEMMA ClaimKeepsSale ==
  ASSUME SaleInv, NEW id \in Ids, NEW u \in Users, claim(id, u)
  PROVE  SaleInv'
<1>1. /\ held' = [held EXCEPT ![sales[id].saleToken] =
                     held[sales[id].saleToken] - Claimable(id, u)]
      /\ Claimable(id, u) <= held[sales[id].saleToken]
      /\ UNCHANGED <<now, sales, saleCount, purchased, platformFee, deployed, paid, buys>>
  BY DEF claim
<1>2. /\ Claimable(id, u) \in Nat /\ claimed' \in [Ids -> [Users -> Nat]]
      /\ \A w \in Ids : w # id => claimed'[w] = claimed[w]
      /\ \A w \in Users : claimed'[id][w] <= purchased[id][w]
  BY ClaimFacts
<1>3. held' \in [Tokens -> Nat]
  <2>1. held \in [Tokens -> Nat]
    BY DEF SaleInv, TypeOK
  <2> DEFINE c == Claimable(id, u)
             k == sales[id].saleToken
  <2>2. c \in Nat /\ c <= held[k] /\ held' = [held EXCEPT ![k] = held[k] - c]
    BY <1>1, <1>2
  <2> HIDE DEF c, k
  <2>3. held' = [t \in Tokens |-> IF t = k THEN held[t] - c ELSE held[t]]
    BY <2>1, <2>2
  <2>4. \A t \in Tokens : (IF t = k THEN held[t] - c ELSE held[t]) \in Nat
    BY <2>1, <2>2
  <2> QED
    BY <2>3, <2>4
<1>4. TypeOK'
  BY <1>1, <1>2, <1>3 DEF SaleInv, TypeOK
<1>5. SoldAddsUp'
  BY <1>1, <1>2 DEF SaleInv, SoldAddsUp
<1>6. RoundInv'
  BY <1>1 DEF SaleInv, RoundInv
<1>7. TimesInv'
  BY <1>1 DEF SaleInv, TimesInv
<1> QED
  BY <1>4, <1>5, <1>6, <1>7 DEF SaleInv

LEMMA ClaimKeepsHoldings ==
  ASSUME IInv, SaleInv', NEW id \in Ids, NEW u \in Users, claim(id, u)
  PROVE  HoldingsAccounted'
<1> USE DEF IInv
<1> DEFINE s == sales[id]
           c == Claimable(id, u)
<1>1. /\ held' = [held EXCEPT ![s.saleToken] = held[s.saleToken] - c]
      /\ UNCHANGED <<sales, paid>>
  BY DEF claim
<1>2. /\ c \in Nat /\ \A w \in Ids : w # id => claimed'[w] = claimed[w]
      /\ SumOf(claimed[id]) \in Nat
      /\ SumOf(claimed'[id]) = SumOf(claimed[id]) + c
      /\ s.active
  BY ClaimFacts
<1>3. s.soldAmount \in Nat /\ s.totalAmount \in Nat
  BY SaleTypes DEF SaleInv
<1> HIDE DEF c
<1>4. ASSUME NEW t \in Tokens
      PROVE  held'[t] + OverpaidIn(t, id)' + OwedIn(t, id) + KeptIn(t, id)
               = held[t] + OverpaidIn(t, id) + OwedIn(t, id)' + KeptIn(t, id)'
  <2>1. OverpaidIn(t, id)' = OverpaidIn(t, id) /\ KeptIn(t, id)' = KeptIn(t, id)
    BY <1>1 DEF OverpaidIn, Overpaid, KeptIn, MoneyKept, TotalRaised, Cost
  <2>2. TokensOwed(id)' = TokensOwed(id) - c
    BY <1>1, <1>2, <1>3 DEF TokensOwed
  <2>3. OwedIn(t, id)' = IF s.saleToken = t THEN OwedIn(t, id) - c ELSE OwedIn(t, id)
    BY <1>1, <2>2 DEF OwedIn
  <2>4. held'[t] = IF s.saleToken = t THEN held[t] - c ELSE held[t]
    BY <1>1 DEF SaleInv, TypeOK
  <2>5. /\ held[t] \in Nat /\ OwedIn(t, id) \in Nat /\ KeptIn(t, id) \in Nat
        /\ OverpaidIn(t, id) \in Nat
    BY AmountsNat DEF SaleInv, TypeOK, AmountsOK
  <2> QED
    BY <1>2, <2>1, <2>3, <2>4, <2>5
<1> QED
  BY <1>1, <1>2, <1>4, SlotStep

-----------------------------------------------------------------------------
(* Finalizing pays out the price of the whole and returns what is unsold.  *)
LEMMA FinalizeFacts ==
  ASSUME SaleInv, NEW id \in Ids, NEW u \in Users, finalize(id, u)
  PROVE  /\ sales[id].active /\ ~sales[id].finalized
         /\ \A w \in Ids : w # id => sales'[w] = sales[w]
         /\ sales'[id] = [sales[id] EXCEPT !.finalized = TRUE]
         /\ sales'[id].saleToken = sales[id].saleToken
         /\ sales'[id].paymentToken = sales[id].paymentToken
         /\ sales'[id].totalAmount = sales[id].totalAmount
         /\ sales'[id].soldAmount = sales[id].soldAmount
         /\ sales'[id].price = sales[id].price
         /\ sales'[id].active /\ sales'[id].finalized
         /\ held' \in [Tokens -> Nat]
         /\ \A t \in Tokens :
              held'[t] = held[t]
                           - (IF sales[id].paymentToken = t THEN TotalRaised(sales[id]) ELSE 0)
                           - (IF sales[id].saleToken = t
                              THEN sales[id].totalAmount - sales[id].soldAmount ELSE 0)
<1> DEFINE s == sales[id]
           r == TotalRaised(s)
           m == s.totalAmount - s.soldAmount
           k == s.paymentToken
           l == s.saleToken
           after == AfterPayments(s)
<1>1. /\ s.active /\ ~s.finalized
      /\ r <= held[k] /\ m <= after[l]
      /\ sales' = [sales EXCEPT ![id] = [s EXCEPT !.finalized = TRUE]]
      /\ held' = [after EXCEPT ![l] = after[l] - m]
  BY DEF finalize, CanFinalize
<1>2. after = [held EXCEPT ![k] = held[k] - r]
  BY DEF AfterPayments
<1>3. r \in Nat
  BY RaisedFacts
<1>4. m \in Nat
  <2>1. s.soldAmount \in Nat /\ s.totalAmount \in Nat
    BY SaleTypes DEF SaleInv
  <2>2. s.soldAmount <= s.totalAmount
    BY DEF SaleInv, SoldAddsUp
  <2> QED
    BY <2>1, <2>2
<1>5. held \in [Tokens -> Nat]
  BY DEF SaleInv, TypeOK
<1>6. /\ \A w \in Ids : w # id => sales'[w] = sales[w]
      /\ sales'[id] = [s EXCEPT !.finalized = TRUE]
  BY <1>1 DEF SaleInv, TypeOK
<1>7. /\ sales'[id].saleToken = s.saleToken /\ sales'[id].paymentToken = s.paymentToken
      /\ sales'[id].totalAmount = s.totalAmount /\ sales'[id].soldAmount = s.soldAmount
      /\ sales'[id].price = s.price /\ sales'[id].active /\ sales'[id].finalized
  <2>1. s = [creator |-> s.creator, saleToken |-> s.saleToken,
             paymentToken |-> s.paymentToken, price |-> s.price,
             totalAmount |-> s.totalAmount, soldAmount |-> s.soldAmount,
             startTime |-> s.startTime, endTime |-> s.endTime,
             minPurchase |-> s.minPurchase, maxPurchase |-> s.maxPurchase,
             finalized |-> s.finalized, active |-> s.active]
    BY SaleTypes DEF SaleInv
  <2> QED
    BY <1>1, <1>6, <2>1
<1> HIDE DEF r, m, k, l, after
<1>8. after = [t \in Tokens |-> held[t] - (IF k = t THEN r ELSE 0)]
  <2>1. after = [t \in Tokens |-> IF t = k THEN held[t] - r ELSE held[t]]
    BY <1>2, <1>5
  <2>2. \A t \in Tokens : held[t] - (IF k = t THEN r ELSE 0)
                             = IF t = k THEN held[t] - r ELSE held[t]
    BY <1>3, <1>5
  <2> QED
    BY <2>1, <2>2
<1>9. \A t \in Tokens : after[t] \in Nat
  BY <1>1, <1>3, <1>5, <1>8
<1>10. held' = [t \in Tokens |-> after[t] - (IF l = t THEN m ELSE 0)]
  BY <1>1, <1>4, <1>8, <1>9
<1>11. held' \in [Tokens -> Nat]
  <2>1. \A t \in Tokens : after[t] - (IF l = t THEN m ELSE 0) \in Nat
    BY <1>1, <1>4, <1>9
  <2> QED
    BY <1>10, <2>1
<1>12. \A t \in Tokens : held'[t] = held[t] - (IF k = t THEN r ELSE 0) - (IF l = t THEN m ELSE 0)
  BY <1>8, <1>10
<1> QED
  BY <1>1, <1>6, <1>7, <1>11, <1>12 DEF r, m, k, l

LEMMA FinalizeKeepsSale ==
  ASSUME SaleInv, NEW id \in Ids, NEW u \in Users, finalize(id, u)
  PROVE  SaleInv'
<1> DEFINE s == sales[id]
<1>1. /\ UNCHANGED <<now, saleCount, purchased, claimed, platformFee, deployed, paid, buys>>
      /\ sales' = [sales EXCEPT ![id] = [s EXCEPT !.finalized = TRUE]]
      /\ id <= saleCount
      /\ s.endTime < now \/ s.soldAmount = s.totalAmount
  BY DEF finalize, CanFinalize
<1>2. /\ s.active /\ ~s.finalized
      /\ \A w \in Ids : w # id => sales'[w] = sales[w]
      /\ sales'[id] = [s EXCEPT !.finalized = TRUE]
      /\ sales'[id].totalAmount = s.totalAmount /\ sales'[id].soldAmount = s.soldAmount
      /\ sales'[id].price = s.price /\ sales'[id].active
      /\ sales'[id].saleToken = s.saleToken /\ held' \in [Tokens -> Nat]
  BY FinalizeFacts
<1>3. /\ sales'[id].maxPurchase = s.maxPurchase
      /\ sales'[id].startTime = s.startTime /\ sales'[id].endTime = s.endTime
  BY <1>2, SaleTypes DEF SaleInv
<1>4. TypeOK'
  <2>1. sales' \in [Ids -> [creator : Users \cup {ZeroAddress},
                          saleToken : Tokens \cup {ZeroAddress},
                          paymentToken : Tokens \cup {ZeroAddress},
                          price : Nat, totalAmount : Nat, soldAmount : Nat,
                          startTime : Nat, endTime : Nat,
                          minPurchase : Nat, maxPurchase : Nat,
                          finalized : BOOLEAN, active : BOOLEAN]]
    BY <1>1 DEF SaleInv, TypeOK
  <2>2. \A w \in Ids : w > saleCount => w # id
    BY <1>1 DEF Ids, SaleInv, TypeOK
  <2> QED
    BY <1>1, <1>2, <2>1, <2>2 DEF SaleInv, TypeOK
<1>5. SoldAddsUp'
  BY <1>1, <1>2, <1>3 DEF SaleInv, SoldAddsUp
<1>6. RoundInv'
  BY <1>1, <1>2 DEF SaleInv, RoundInv
<1>7. TimesInv'
  BY <1>1, <1>2, <1>3 DEF SaleInv, TimesInv
<1> QED
  BY <1>4, <1>5, <1>6, <1>7 DEF SaleInv

LEMMA FinalizeKeepsHoldings ==
  ASSUME IInv, SaleInv', NEW id \in Ids, NEW u \in Users, finalize(id, u)
  PROVE  HoldingsAccounted'
<1> USE DEF IInv
<1> DEFINE s == sales[id]
           r == TotalRaised(s)
           c == SumOf(claimed[id])
<1>1. /\ s.active /\ ~s.finalized
      /\ \A w \in Ids : w # id => sales'[w] = sales[w]
      /\ sales'[id].saleToken = s.saleToken /\ sales'[id].paymentToken = s.paymentToken
      /\ sales'[id].soldAmount = s.soldAmount /\ sales'[id].price = s.price
      /\ sales'[id].active /\ sales'[id].finalized
      /\ \A t \in Tokens :
           held'[t] = held[t] - (IF s.paymentToken = t THEN r ELSE 0)
                        - (IF s.saleToken = t THEN s.totalAmount - s.soldAmount ELSE 0)
  BY FinalizeFacts
<1>2. UNCHANGED <<claimed, paid>>
  BY DEF finalize
<1>3. r \in Nat /\ paid[id] \in Nat /\ paid[id] <= r
  BY RaisedFacts, SaleTypes DEF SaleInv
<1>4. c \in Nat /\ s.soldAmount \in Nat /\ s.totalAmount \in Nat
  BY ClaimsWithin, SaleTypes DEF SaleInv
<1>5. TotalRaised(sales[id])' = r
  BY <1>1 DEF TotalRaised, Cost
<1>6. ASSUME NEW t \in Tokens
      PROVE  held'[t] + OverpaidIn(t, id)' + OwedIn(t, id) + KeptIn(t, id)
               = held[t] + OverpaidIn(t, id) + OwedIn(t, id)' + KeptIn(t, id)'
  <2>1. OwedIn(t, id) = IF s.saleToken = t THEN s.totalAmount - c ELSE 0
    BY <1>1 DEF OwedIn, TokensOwed
  <2>2. OwedIn(t, id)' = IF s.saleToken = t THEN s.soldAmount - c ELSE 0
    BY <1>1, <1>2 DEF OwedIn, TokensOwed
  <2>3. /\ KeptIn(t, id) = IF s.paymentToken = t THEN paid[id] ELSE 0
        /\ OverpaidIn(t, id) = 0
    BY <1>1 DEF KeptIn, MoneyKept, OverpaidIn, Overpaid
  <2>4. KeptIn(t, id)' = 0
    BY <1>1 DEF KeptIn, MoneyKept
  <2>5. OverpaidIn(t, id)' = IF s.paymentToken = t THEN r - paid[id] ELSE 0
    BY <1>1, <1>2, <1>5 DEF OverpaidIn, Overpaid
  <2>6. held[t] \in Nat
    BY DEF SaleInv, TypeOK
  <2>7. held'[t] = held[t] - (IF s.paymentToken = t THEN r ELSE 0)
                     - (IF s.saleToken = t THEN s.totalAmount - s.soldAmount ELSE 0)
    BY <1>1
  <2> HIDE DEF r, c
  <2>8. CASE s.paymentToken = t
    BY <1>3, <1>4, <2>1, <2>2, <2>3, <2>4, <2>5, <2>6, <2>7, <2>8
  <2>9. CASE s.paymentToken # t
    BY <1>3, <1>4, <2>1, <2>2, <2>3, <2>4, <2>5, <2>6, <2>7, <2>9
  <2> QED
    BY <2>8, <2>9
<1> QED
  BY <1>1, <1>2, <1>6, SlotStep

-----------------------------------------------------------------------------
(* Before the start nothing was sold, so that a cancelled sale that was    *)
(* finalized offered nothing; in either case it owes nothing afterwards.   *)
LEMMA CancelFacts ==
  ASSUME SaleInv, NEW id \in Ids, NEW u \in Users, cancelSale(id, u)
  PROVE  /\ sales[id].active /\ sales[id].soldAmount = 0
         /\ sales[id].finalized => sales[id].totalAmount = 0
         /\ SumOf(claimed[id]) = 0
         /\ \A w \in Ids : w # id => sales'[w] = sales[w]
         /\ sales'[id] = [sales[id] EXCEPT !.active = FALSE]
         /\ sales'[id].saleToken = sales[id].saleToken
         /\ sales'[id].paymentToken = sales[id].paymentToken
         /\ sales'[id].totalAmount = sales[id].totalAmount
         /\ sales'[id].soldAmount = sales[id].soldAmount
         /\ sales'[id].price = sales[id].price
         /\ sales'[id].maxPurchase = sales[id].maxPurchase
         /\ sales'[id].startTime = sales[id].startTime
         /\ sales'[id].endTime = sales[id].endTime
         /\ ~sales'[id].active /\ sales'[id].finalized = sales[id].finalized
         /\ held' \in [Tokens -> Nat]
         /\ \A t \in Tokens :
              held'[t] = held[t] - (IF sales[id].saleToken = t THEN sales[id].totalAmount ELSE 0)
<1> DEFINE s == sales[id]
           m == s.totalAmount
           k == s.saleToken
<1>1. /\ s.active /\ s.soldAmount = 0 /\ now < s.startTime /\ m <= held[k]
      /\ sales' = [sales EXCEPT ![id] = [s EXCEPT !.active = FALSE]]
      /\ held' = [held EXCEPT ![k] = held[k] - m]
  BY DEF cancelSale
<1>2. /\ m \in Nat /\ s.startTime \in Nat /\ s.endTime \in Nat /\ now \in Nat
      /\ held \in [Tokens -> Nat]
  BY SaleTypes DEF SaleInv, TypeOK
<1>3. s.finalized => m = 0
  <2>1. s.startTime <= s.endTime /\ (s.finalized => s.endTime < now \/ s.soldAmount = m)
    BY DEF SaleInv, TimesInv
  <2> QED
    BY <1>1, <1>2, <2>1
<1>4. SumOf(claimed[id]) = 0
  <2>1. SumOf(claimed[id]) \in Nat /\ SumOf(claimed[id]) <= s.soldAmount
    BY ClaimsWithin
  <2> QED
    BY <1>1, <2>1
<1>5. /\ \A w \in Ids : w # id => sales'[w] = sales[w]
      /\ sales'[id] = [s EXCEPT !.active = FALSE]
  BY <1>1 DEF SaleInv, TypeOK
<1>6. /\ sales'[id].saleToken = s.saleToken /\ sales'[id].paymentToken = s.paymentToken
      /\ sales'[id].totalAmount = s.totalAmount /\ sales'[id].soldAmount = s.soldAmount
      /\ sales'[id].price = s.price /\ sales'[id].maxPurchase = s.maxPurchase
      /\ sales'[id].startTime = s.startTime /\ sales'[id].endTime = s.endTime
      /\ ~sales'[id].active /\ sales'[id].finalized = s.finalized
  <2>1. s = [creator |-> s.creator, saleToken |-> s.saleToken,
             paymentToken |-> s.paymentToken, price |-> s.price,
             totalAmount |-> s.totalAmount, soldAmount |-> s.soldAmount,
             startTime |-> s.startTime, endTime |-> s.endTime,
             minPurchase |-> s.minPurchase, maxPurchase |-> s.maxPurchase,
             finalized |-> s.finalized, active |-> s.active]
    BY SaleTypes DEF SaleInv
  <2> QED
    BY <1>5, <2>1
<1> HIDE DEF m, k
<1>7. held' = [t \in Tokens |-> IF t = k THEN held[t] - m ELSE held[t]]
  BY <1>1, <1>2
<1>8. held' \in [Tokens -> Nat]
  <2>1. \A t \in Tokens : (IF t = k THEN held[t] - m ELSE held[t]) \in Nat
    BY <1>1, <1>2
  <2> QED
    BY <1>7, <2>1
<1>9. \A t \in Tokens : held'[t] = held[t] - (IF k = t THEN m ELSE 0)
  BY <1>2, <1>7
<1> QED
  BY <1>1, <1>3, <1>4, <1>5, <1>6, <1>8, <1>9 DEF m, k

LEMMA CancelKeepsSale ==
  ASSUME SaleInv, NEW id \in Ids, NEW u \in Users, cancelSale(id, u)
  PROVE  SaleInv'
<1> DEFINE s == sales[id]
<1>1. /\ UNCHANGED <<now, saleCount, purchased, claimed, platformFee, deployed, paid, buys>>
      /\ sales' = [sales EXCEPT ![id] = [s EXCEPT !.active = FALSE]]
      /\ id <= saleCount
  BY DEF cancelSale
<1>2. /\ s.active /\ s.soldAmount = 0
      /\ \A w \in Ids : w # id => sales'[w] = sales[w]
      /\ sales'[id].saleToken = s.saleToken
      /\ sales'[id].totalAmount = s.totalAmount /\ sales'[id].soldAmount = s.soldAmount
      /\ sales'[id].price = s.price /\ sales'[id].maxPurchase = s.maxPurchase
      /\ sales'[id].startTime = s.startTime /\ sales'[id].endTime = s.endTime
      /\ ~sales'[id].active /\ sales'[id].finalized = s.finalized
      /\ held' \in [Tokens -> Nat]
  BY CancelFacts
<1>3. TypeOK'
  <2>1. sales' \in [Ids -> [creator : Users \cup {ZeroAddress},
                          saleToken : Tokens \cup {ZeroAddress},
                          paymentToken : Tokens \cup {ZeroAddress},
                          price : Nat, totalAmount : Nat, soldAmount : Nat,
                          startTime : Nat, endTime : Nat,
                          minPurchase : Nat, maxPurchase : Nat,
                          finalized : BOOLEAN, active : BOOLEAN]]
    BY <1>1 DEF SaleInv, TypeOK
  <2>2. \A w \in Ids : w > saleCount => w # id
    BY <1>1 DEF Ids, SaleInv, TypeOK
  <2> QED
    BY <1>1, <1>2, <2>1, <2>2 DEF SaleInv, TypeOK
<1>4. SoldAddsUp'
  BY <1>1, <1>2 DEF SaleInv, SoldAddsUp
<1>5. RoundInv'
  BY <1>1, <1>2 DEF SaleInv, RoundInv
<1>6. TimesInv'
  BY <1>1, <1>2 DEF SaleInv, TimesInv
<1> QED
  BY <1>3, <1>4, <1>5, <1>6 DEF SaleInv

LEMMA CancelKeepsHoldings ==
  ASSUME IInv, SaleInv', NEW id \in Ids, NEW u \in Users, cancelSale(id, u)
  PROVE  HoldingsAccounted'
<1> USE DEF IInv
<1> DEFINE s == sales[id]
<1>1. /\ s.active /\ s.soldAmount = 0 /\ (s.finalized => s.totalAmount = 0)
      /\ SumOf(claimed[id]) = 0
      /\ \A w \in Ids : w # id => sales'[w] = sales[w]
      /\ sales'[id].saleToken = s.saleToken /\ sales'[id].paymentToken = s.paymentToken
      /\ sales'[id].soldAmount = s.soldAmount /\ sales'[id].price = s.price
      /\ ~sales'[id].active /\ sales'[id].finalized = s.finalized
      /\ \A t \in Tokens :
           held'[t] = held[t] - (IF s.saleToken = t THEN s.totalAmount ELSE 0)
  BY CancelFacts
<1>2. UNCHANGED <<claimed, paid>>
  BY DEF cancelSale
<1>3. s.totalAmount \in Nat
  BY SaleTypes DEF SaleInv
<1>4. TokensOwed(id) = s.totalAmount /\ TokensOwed(id)' = 0
  BY <1>1, <1>3 DEF TokensOwed
<1>5. ASSUME NEW t \in Tokens
      PROVE  held'[t] + OverpaidIn(t, id)' + OwedIn(t, id) + KeptIn(t, id)
               = held[t] + OverpaidIn(t, id) + OwedIn(t, id)' + KeptIn(t, id)'
  <2>1. OwedIn(t, id) = (IF s.saleToken = t THEN s.totalAmount ELSE 0) /\ OwedIn(t, id)' = 0
    BY <1>1, <1>4 DEF OwedIn
  <2>2. KeptIn(t, id)' = KeptIn(t, id)
    BY <1>1, <1>2 DEF KeptIn, MoneyKept
  <2>3. OverpaidIn(t, id)' = OverpaidIn(t, id)
    BY <1>1, <1>2 DEF OverpaidIn, Overpaid, TotalRaised, Cost
  <2>4. /\ held[t] \in Nat /\ KeptIn(t, id) \in Nat /\ OverpaidIn(t, id) \in Nat
    BY AmountsNat DEF SaleInv, TypeOK, AmountsOK
  <2>5. held'[t] = held[t] - (IF s.saleToken = t THEN s.totalAmount ELSE 0)
    BY <1>1
  <2> QED
    BY <1>3, <2>1, <2>2, <2>3, <2>4, <2>5
<1> QED
  BY <1>1, <1>2, <1>5, SlotStep

-----------------------------------------------------------------------------
LEMMA SaleInitial == Init => IInv
<1> SUFFICES ASSUME Init PROVE IInv
  OBVIOUS
<1>1. /\ now = 0 /\ saleCount = 0 /\ sales = [id \in Ids |-> NoSale]
      /\ purchased = [id \in Ids |-> [u \in Users |-> 0]]
      /\ claimed = [id \in Ids |-> [u \in Users |-> 0]]
      /\ platformFee = 200 /\ deployed = {} /\ held = [t \in Tokens |-> 0]
      /\ paid = [id \in Ids |-> 0] /\ buys = [id \in Ids |-> 0]
  BY DEF Init
<1>2. SumOf([u \in Users |-> 0]) = 0
  <2>1. PICK z \in [Users -> Nat] : z = [u \in Users |-> 0]
    OBVIOUS
  <2>2. SumOf(z) = 0
    BY <2>1, SumZero, UsersAssumption
  <2> QED
    BY <2>1, <2>2
<1>3. TypeOK
  <2>1. NoSale \in [creator : Users \cup {ZeroAddress},
                    saleToken : Tokens \cup {ZeroAddress},
                    paymentToken : Tokens \cup {ZeroAddress},
                    price : Nat, totalAmount : Nat, soldAmount : Nat,
                    startTime : Nat, endTime : Nat,
                    minPurchase : Nat, maxPurchase : Nat,
                    finalized : BOOLEAN, active : BOOLEAN]
    BY DEF NoSale
  <2>2. \A id \in Ids : sales[id] = NoSale /\ sales[id].soldAmount = 0
    BY <1>1 DEF NoSale
  <2> QED
    BY <1>1, <2>1, <2>2, NumbersAssumption DEF TypeOK
<1>4. SoldAddsUp
  <2>1. \A id \in Ids : /\ sales[id].soldAmount = 0 /\ sales[id].totalAmount = 0
                        /\ sales[id].maxPurchase = 0
                        /\ purchased[id] = [u \in Users |-> 0] /\ claimed[id] = [u \in Users |-> 0]
    BY <1>1 DEF NoSale
  <2> QED
    BY <1>2, <2>1 DEF SoldAddsUp
<1>5. RoundInv
  <2>1. \A id \in Ids : /\ sales[id].soldAmount = 0 /\ sales[id].price = 0
                        /\ paid[id] = 0 /\ buys[id] = 0
    BY <1>1 DEF NoSale
  <2>2. Unit * 0 = 0 /\ (Unit - 1) * 0 = 0
    BY NumbersAssumption
  <2> QED
    BY <2>1, <2>2 DEF RoundInv
<1>6. TimesInv
  <2>1. \A id \in Ids : /\ sales[id].startTime = 0 /\ sales[id].endTime = 0
                        /\ ~sales[id].finalized /\ ~(id <= saleCount)
    BY <1>1, NumbersAssumption DEF NoSale, Ids
  <2> QED
    BY <2>1 DEF TimesInv
<1>7. HoldingsAccounted
  <2> SUFFICES ASSUME NEW t \in Tokens
               PROVE  held[t] + SumOf([id \in Ids |-> OverpaidIn(t, id)])
                        = SumOf([id \in Ids |-> OwedIn(t, id)])
                            + SumOf([id \in Ids |-> KeptIn(t, id)])
    BY DEF HoldingsAccounted
  <2>1. \A id \in Ids : OverpaidIn(t, id) = 0 /\ OwedIn(t, id) = 0 /\ KeptIn(t, id) = 0
    BY <1>1, TokensAssumption DEF OverpaidIn, OwedIn, KeptIn, NoSale
  <2>2. PICK z \in [Ids -> Nat] : z = [id \in Ids |-> 0]
    OBVIOUS
  <2>3. SumOf(z) = 0
    BY <2>2, SumZero, IdsFinite
  <2>4. /\ [id \in Ids |-> OverpaidIn(t, id)] = z /\ [id \in Ids |-> OwedIn(t, id)] = z
        /\ [id \in Ids |-> KeptIn(t, id)] = z
    BY <2>1, <2>2
  <2>5. held[t] = 0
    BY <1>1
  <2> QED
    BY <2>3, <2>4, <2>5
<1> QED
  BY <1>3, <1>4, <1>5, <1>6, <1>7 DEF IInv, SaleInv

(* The fee and the clock are no part of what a sale owes.                  *)
LEMMA ClockKeeps ==
  ASSUME IInv, now' \in Nat, now' >= now, platformFee' \in Nat,
         UNCHANGED <<sales, saleCount, purchased, claimed, deployed, held, paid, buys>>
  PROVE  IInv'
<1> USE DEF IInv
<1>1. TypeOK'
  BY DEF SaleInv, TypeOK
<1>2. SoldAddsUp'
  BY DEF SaleInv, SoldAddsUp
<1>3. RoundInv'
  BY DEF SaleInv, RoundInv
<1>4. TimesInv'
  <2>1. \A id \in Ids : sales[id].endTime \in Nat
    BY SaleTypes DEF SaleInv
  <2>2. now \in Nat
    BY DEF SaleInv, TypeOK
  <2>3. \A id \in Ids : sales[id].endTime < now => sales[id].endTime < now'
    BY <2>1, <2>2
  <2> QED
    BY <2>3 DEF SaleInv, TimesInv
<1>5. HoldingsAccounted'
  BY DEF HoldingsAccounted, OverpaidIn, OwedIn, KeptIn, Overpaid, MoneyKept, TokensOwed,
         TotalRaised, Cost
<1> QED
  BY <1>1, <1>2, <1>3, <1>4, <1>5 DEF SaleInv

LEMMA SaleStep == IInv /\ [Next]_vars => IInv'
<1> SUFFICES ASSUME IInv, [Next]_vars PROVE IInv'
  OBVIOUS
<1>1. SaleInv /\ HoldingsAccounted
  BY DEF IInv
<1>2. ASSUME NEW u \in Users, NEW o \in Offers, createSale(u, o)
      PROVE  IInv'
  <2>1. /\ ValidTimesAndLimits(o) /\ Push(u, o)
        /\ held' = [held EXCEPT ![o.saleToken] = held[o.saleToken] + o.totalAmount]
        /\ UNCHANGED <<now, purchased, claimed, platformFee, paid, buys>>
        /\ deployed' = deployed
    BY <1>2 DEF createSale
  <2>2. SaleInv'
    BY <1>1, <2>1, OpenKeepsSale DEF SaleInv, TypeOK
  <2>3. HoldingsAccounted'
    BY <2>1, <2>2, OpenKeepsHoldings
  <2> QED
    BY <2>2, <2>3 DEF IInv
<1>3. ASSUME NEW u \in Users, NEW o \in Offers, NEW supply \in 1..MaxAmount,
             createTokenAndSale(u, o, supply)
      PROVE  IInv'
  <2>1. /\ ValidTimesAndLimits(o) /\ Push(u, o)
        /\ held' = [held EXCEPT ![o.saleToken] = held[o.saleToken] + o.totalAmount]
        /\ UNCHANGED <<now, purchased, claimed, platformFee, paid, buys>>
        /\ deployed' = deployed \cup {o.saleToken} /\ o.saleToken \in NewTokens
    BY <1>3 DEF createTokenAndSale
  <2>2. deployed' \subseteq NewTokens
    BY <1>1, <2>1 DEF SaleInv, TypeOK
  <2>3. SaleInv'
    BY <1>1, <2>1, <2>2, OpenKeepsSale
  <2>4. HoldingsAccounted'
    BY <2>1, <2>3, OpenKeepsHoldings
  <2> QED
    BY <2>3, <2>4 DEF IInv
<1>4. ASSUME NEW id \in Ids, NEW u \in Users, NEW amount \in 1..MaxAmount, buy(id, u, amount)
      PROVE  IInv'
  <2>1. amount \in Nat
    OBVIOUS
  <2>2. SaleInv'
    BY <1>1, <1>4, <2>1, BuyKeepsSale
  <2>3. HoldingsAccounted'
    BY <1>4, <2>1, <2>2, BuyKeepsHoldings
  <2> QED
    BY <2>2, <2>3 DEF IInv
<1>5. ASSUME NEW id \in Ids, NEW u \in Users, claim(id, u)
      PROVE  IInv'
  BY <1>1, <1>5, ClaimKeepsSale, ClaimKeepsHoldings DEF IInv
<1>6. ASSUME NEW id \in Ids, NEW u \in Users, finalize(id, u)
      PROVE  IInv'
  BY <1>1, <1>6, FinalizeKeepsSale, FinalizeKeepsHoldings DEF IInv
<1>7. ASSUME NEW id \in Ids, NEW u \in Users, cancelSale(id, u)
      PROVE  IInv'
  BY <1>1, <1>7, CancelKeepsSale, CancelKeepsHoldings DEF IInv
<1>8. now \in Nat /\ platformFee \in Nat
  BY <1>1 DEF SaleInv, TypeOK
<1>9. ASSUME NEW fee \in FeeRates, setPlatformFee(fee)
      PROVE  IInv'
  BY <1>8, <1>9, ClockKeeps, NumbersAssumption DEF setPlatformFee
<1>10. CASE Tick
  BY <1>8, <1>10, ClockKeeps DEF Tick
<1>11. CASE UNCHANGED vars
  BY <1>8, <1>11, ClockKeeps DEF vars
<1> QED
  BY <1>2, <1>3, <1>4, <1>5, <1>6, <1>7, <1>9, <1>10, <1>11 DEF Next

(* LaunchPadV2.sol:195: for any number of sales, a sale's own count is the *)
(* sum of what its buyers bought, within its offer and their limits.       *)
THEOREM SalesAddUp == Spec => [](TypeOK /\ SoldAddsUp)
<1>1. IInv => TypeOK /\ SoldAddsUp
  BY DEF IInv, SaleInv
<1> QED
  BY <1>1, SaleInitial, SaleStep, PTL DEF Spec

(* LaunchPadV2.sol:235: rounding once at the end instead of at each        *)
(* purchase pays out at most one unit more for each purchase.              *)
THEOREM RoundingIsBounded == Spec => []RoundingBounded
<1>1. IInv => RoundingBounded
  BY RaisedFacts DEF IInv, RoundingBounded
<1> QED
  BY <1>1, SaleInitial, SaleStep, PTL DEF Spec

(* LaunchPadV2.sol:176-274: whatever tokens the sales share, each balance  *)
(* is what the sales owe and keep, less what the roundings overpaid.       *)
THEOREM HoldingsAreAccounted == Spec => []HoldingsAccounted
<1>1. IInv => HoldingsAccounted
  BY DEF IInv
<1> QED
  BY <1>1, SaleInitial, SaleStep, PTL DEF Spec

(* LaunchPadV2.sol:203: what a buyer may claim is there, unless some sale  *)
(* is paid in the token.                                                   *)
THEOREM ClaimsAreCovered == Spec => []ClaimsCovered
<1>1. ASSUME IInv, NEW id \in 1..saleCount, NEW u \in Users,
             \A other \in Ids : sales[other].paymentToken # sales[id].saleToken
      PROVE  Claimable(id, u) <= held[sales[id].saleToken]
  <2> USE DEF IInv
  <2>1. id \in Ids
    BY <1>1, NumbersAssumption DEF SaleInv, TypeOK, Ids
  <2>2. PICK t \in Tokens : t = sales[id].saleToken
    BY <1>1, <2>1 DEF SaleInv, TimesInv
  <2> DEFINE o == [w \in Ids |-> OwedIn(t, w)]
             k == [w \in Ids |-> KeptIn(t, w)]
             v == [w \in Ids |-> OverpaidIn(t, w)]
  <2>3. o \in [Ids -> Nat] /\ k \in [Ids -> Nat] /\ v \in [Ids -> Nat]
    BY <1>1, AmountsNat DEF AmountsOK
  <2>4. \A w \in Ids : k[w] = 0 /\ v[w] = 0
    BY <1>1, <2>2 DEF KeptIn, OverpaidIn
  <2>5. o[id] = TokensOwed(id)
    BY <2>1, <2>2 DEF OwedIn
  <2>6. held[t] + SumOf(v) = SumOf(o) + SumOf(k)
    BY <1>1 DEF HoldingsAccounted
  <2>7. held[t] \in Nat
    BY <1>1 DEF SaleInv, TypeOK
  <2> HIDE DEF o, k, v
  <2>8. SumOf(k) = 0 /\ SumOf(v) = 0
    BY <2>3, <2>4, SumZero, IdsFinite
  <2>9. SumOf(o) \in Nat /\ o[id] <= SumOf(o) /\ o[id] \in Nat
    BY <2>1, <2>3, SumFinite, SumMember, IdsFinite
  <2>10. TokensOwed(id) <= held[t]
    BY <2>5, <2>6, <2>7, <2>8, <2>9
  <2>11. /\ SumOf(claimed[id]) \in Nat /\ Claimable(id, u) \in Nat
         /\ SumOf(claimed[id]) + Claimable(id, u) <= sales[id].soldAmount
    BY <1>1, <2>1, ClaimsWithin
  <2>12. /\ sales[id].soldAmount \in Nat /\ sales[id].totalAmount \in Nat
         /\ sales[id].soldAmount <= sales[id].totalAmount
         /\ ~sales[id].active => sales[id].soldAmount = 0
    BY <1>1, <2>1, SaleTypes DEF SaleInv, SoldAddsUp, TypeOK
  <2>13. Claimable(id, u) <= TokensOwed(id)
    BY <2>11, <2>12 DEF TokensOwed
  <2>14. TokensOwed(id) \in Nat
    BY <2>5, <2>9
  <2>15. Claimable(id, u) <= held[t]
    BY <2>7, <2>10, <2>11, <2>13, <2>14
  <2> QED
    BY <2>2, <2>15
<1>2. IInv => ClaimsCovered
  BY <1>1 DEF ClaimsCovered
<1> QED
  BY <1>2, SaleInitial, SaleStep, PTL DEF Spec

=============================================================================
