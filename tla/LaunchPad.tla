------------------------------ MODULE LaunchPad ------------------------------
(***************************************************************************)
(* LaunchPadV2.sol: token sales that share one contract's balances.        *)
(*                                                                         *)
(* A transaction is one action.  Sales are numbered from 1; the slots      *)
(* beyond saleCount are zero.  The tokens move exactly what they are asked *)
(* to move and call nobody back.  What accounts hold outside the contract  *)
(* is not modelled: a payment they cannot make is a call that reverts.  A  *)
(* purchase of nothing changes nothing and is the stuttering step.         *)
(***************************************************************************)
EXTENDS Sums

CONSTANTS Users,      \* the accounts that create sales and buy
          Tokens,     \* the tokens the contract may hold
          ZeroAddress,
          Offers,     \* the parameters createSale is called with
          NewTokens,  \* the tokens createTokenAndSale may deploy
          Unit,       \* 10 ** decimals of a sale token
          FeeRates,   \* the fees setPlatformFee is called with
          MaxSales,   \* bound on the number of sales
          MaxAmount,  \* bound on one purchase and on a minted supply
          MaxTime     \* bound on the time explored

ASSUME UsersAssumption == IsFiniteSet(Users)
ASSUME TokensAssumption == ZeroAddress \notin Tokens /\ NewTokens \subseteq Tokens
ASSUME OffersAssumption == \A o \in Offers :
    /\ o.saleToken \in Tokens /\ o.paymentToken \in Tokens
    /\ o.price \in Nat /\ o.totalAmount \in Nat /\ o.startTime \in Nat /\ o.endTime \in Nat
    /\ o.minPurchase \in Nat /\ o.maxPurchase \in Nat
ASSUME NumbersAssumption ==
    /\ Unit \in Nat \ {0} /\ FeeRates \subseteq Nat
    /\ MaxSales \in Nat /\ MaxTime \in Nat
    /\ MaxAmount \in Nat

Ids == 1..MaxSales

VARIABLES now,                 \* block.timestamp
          sales, saleCount,
          purchased, claimed,  \* per sale and account
          platformFee,
          deployed,            \* the tokens the factory has deployed
          held,                \* the contract's balance of each token
          paid, buys           \* history: what the buyers of a sale paid, in how many calls

vars == <<now, sales, saleCount, purchased, claimed, platformFee, deployed, held,
          paid, buys>>

NoSale == [creator |-> ZeroAddress, saleToken |-> ZeroAddress, paymentToken |-> ZeroAddress,
           price |-> 0, totalAmount |-> 0, soldAmount |-> 0, startTime |-> 0,
           endTime |-> 0, minPurchase |-> 0, maxPurchase |-> 0,
           finalized |-> FALSE, active |-> FALSE]

NewSale(creator, o) ==
    [creator |-> creator, saleToken |-> o.saleToken, paymentToken |-> o.paymentToken,
     price |-> o.price, totalAmount |-> o.totalAmount, soldAmount |-> 0,
     startTime |-> o.startTime, endTime |-> o.endTime,
     minPurchase |-> o.minPurchase, maxPurchase |-> o.maxPurchase,
     finalized |-> FALSE, active |-> TRUE]

Init ==
    /\ now = 0 /\ saleCount = 0
    /\ sales = [id \in Ids |-> NoSale]
    /\ purchased = [id \in Ids |-> [u \in Users |-> 0]]
    /\ claimed = [id \in Ids |-> [u \in Users |-> 0]]
    /\ platformFee = 200
    /\ deployed = {}
    /\ held = [t \in Tokens |-> 0]
    /\ paid = [id \in Ids |-> 0] /\ buys = [id \in Ids |-> 0]

-----------------------------------------------------------------------------
ValidTimesAndLimits(o) ==
    /\ o.price > 0
    /\ o.startTime < o.endTime /\ now <= o.startTime
    /\ o.minPurchase <= o.maxPurchase

(* sales.push. *)
Push(creator, o) ==
    /\ saleCount < MaxSales
    /\ saleCount' = saleCount + 1
    /\ sales' = [sales EXCEPT ![saleCount + 1] = NewSale(creator, o)]

createSale(creator, o) ==
    /\ ValidTimesAndLimits(o)
    /\ o.totalAmount > 0
    /\ o.saleToken \notin NewTokens \/ o.saleToken \in deployed  \* the token exists
    /\ Push(creator, o)
    /\ held' = [held EXCEPT ![o.saleToken] = held[o.saleToken] + o.totalAmount]
    /\ UNCHANGED <<now, purchased, claimed, platformFee, deployed, paid, buys>>

(* The factory mints the initial supply to the contract, which sends the   *)
(* part that is not for sale on to the creator.                            *)
createTokenAndSale(creator, o, supply) ==
    /\ ValidTimesAndLimits(o)
    /\ o.totalAmount <= supply /\ supply > 0
    /\ o.saleToken \in NewTokens \ deployed
    /\ o.paymentToken \notin NewTokens \/ o.paymentToken \in deployed
    /\ deployed' = deployed \cup {o.saleToken}
    /\ Push(creator, o)
    /\ held' = [held EXCEPT ![o.saleToken] = held[o.saleToken] + o.totalAmount]
    /\ UNCHANGED <<now, purchased, claimed, platformFee, paid, buys>>

(* Mutant: rounded up. *)
CostRoundedUp(s, amount) == (amount * s.price + Unit - 1) \div Unit

(* What amount tokens cost in sale s, whole payment units only. *)
Cost(s, amount) == (amount * s.price) \div Unit

CanBuy(id, u, amount) ==
    LET s == sales[id]
    IN  /\ id <= saleCount
        /\ s.active /\ ~s.finalized
        /\ s.startTime <= now /\ now <= s.endTime
        /\ s.minPurchase <= amount
        /\ purchased[id][u] + amount <= s.maxPurchase
        /\ s.soldAmount + amount <= s.totalAmount

buy(id, u, amount) ==
    LET s == sales[id]
    IN  /\ CanBuy(id, u, amount)
        /\ held' = [held EXCEPT ![s.paymentToken] = held[s.paymentToken] + Cost(s, amount)]
        /\ purchased' = [purchased EXCEPT ![id] =
                            [purchased[id] EXCEPT ![u] = purchased[id][u] + amount]]
        /\ sales' = [sales EXCEPT ![id] = [s EXCEPT !.soldAmount = s.soldAmount + amount]]
        /\ paid' = [paid EXCEPT ![id] = paid[id] + Cost(s, amount)]
        /\ buys' = [buys EXCEPT ![id] = buys[id] + 1]
        /\ UNCHANGED <<now, saleCount, claimed, platformFee, deployed>>

(* Every purchase not yet claimed, at once.  A cancelled sale has none. *)
Claimable(id, u) == purchased[id][u] - claimed[id][u]

(* Mutant: the claim is not recorded. *)
claimUnrecorded(id, u) ==
    LET s == sales[id]
    IN  /\ id <= saleCount
        /\ s.endTime < now \/ s.finalized
        /\ Claimable(id, u) > 0
        /\ Claimable(id, u) <= held[s.saleToken]
        /\ held' = [held EXCEPT ![s.saleToken] = held[s.saleToken] - Claimable(id, u)]
        /\ UNCHANGED <<now, sales, saleCount, purchased, claimed, platformFee, deployed,
                       paid, buys>>

claim(id, u) ==
    LET s == sales[id]
    IN  /\ id <= saleCount
        /\ s.endTime < now \/ s.finalized
        /\ Claimable(id, u) > 0
        /\ Claimable(id, u) <= held[s.saleToken]
        /\ claimed' = [claimed EXCEPT ![id] =
                          [claimed[id] EXCEPT ![u] = purchased[id][u]]]
        /\ held' = [held EXCEPT ![s.saleToken] = held[s.saleToken] - Claimable(id, u)]
        /\ UNCHANGED <<now, sales, saleCount, purchased, platformFee, deployed,
                       paid, buys>>

(* What finalize pays out: the price of all that was sold, rounded once,   *)
(* where the buyers' payments were rounded one by one.                     *)
TotalRaised(s) == Cost(s, s.soldAmount)
Fee(s) == (TotalRaised(s) * platformFee) \div 10000

CanFinalize(id, u) ==
    LET s == sales[id]
    IN  /\ id <= saleCount
        /\ u = s.creator /\ s.active /\ ~s.finalized
        /\ s.endTime < now \/ s.soldAmount = s.totalAmount

(* The balances after the payments and the return of the unsold tokens:    *)
(* one after the other, the two tokens may be the same.                    *)
AfterPayments(s) ==
    [held EXCEPT ![s.paymentToken] = held[s.paymentToken] - TotalRaised(s)]

finalize(id, u) ==
    LET s == sales[id]
        unsold == s.totalAmount - s.soldAmount
    IN  /\ CanFinalize(id, u)
        /\ Fee(s) <= TotalRaised(s)
        /\ TotalRaised(s) <= held[s.paymentToken]
        /\ unsold <= AfterPayments(s)[s.saleToken]
        /\ sales' = [sales EXCEPT ![id] = [s EXCEPT !.finalized = TRUE]]
        /\ held' = [AfterPayments(s) EXCEPT ![s.saleToken] = AfterPayments(s)[s.saleToken] - unsold]
        /\ UNCHANGED <<now, saleCount, purchased, claimed, platformFee, deployed, paid, buys>>

(* Mutant: a sale may be cancelled while it is open. *)
cancelSaleWhileOpen(id, u) ==
    LET s == sales[id]
    IN  /\ id <= saleCount
        /\ u = s.creator /\ s.active
        /\ now <= s.endTime
        /\ s.totalAmount <= held[s.saleToken]
        /\ sales' = [sales EXCEPT ![id] = [s EXCEPT !.active = FALSE]]
        /\ held' = [held EXCEPT ![s.saleToken] = held[s.saleToken] - s.totalAmount]
        /\ UNCHANGED <<now, saleCount, purchased, claimed, platformFee, deployed,
                       paid, buys>>

cancelSale(id, u) ==
    LET s == sales[id]
    IN  /\ id <= saleCount
        /\ u = s.creator /\ s.active
        /\ now < s.startTime
        /\ s.soldAmount = 0
        /\ s.totalAmount <= held[s.saleToken]
        /\ sales' = [sales EXCEPT ![id] = [s EXCEPT !.active = FALSE]]
        /\ held' = [held EXCEPT ![s.saleToken] = held[s.saleToken] - s.totalAmount]
        /\ UNCHANGED <<now, saleCount, purchased, claimed, platformFee, deployed,
                       paid, buys>>

(* The owner.  Who receives the fees makes no difference here. *)
setPlatformFee(fee) ==
    /\ fee <= 1000
    /\ platformFee' = fee
    /\ UNCHANGED <<now, sales, saleCount, purchased, claimed, deployed, held,
                   paid, buys>>

Tick ==
    /\ now < MaxTime
    /\ now' = now + 1
    /\ UNCHANGED <<sales, saleCount, purchased, claimed, platformFee, deployed, held,
                   paid, buys>>

Next ==
    \/ \E u \in Users, o \in Offers : createSale(u, o)
    \/ \E u \in Users, o \in Offers, supply \in 1..MaxAmount : createTokenAndSale(u, o, supply)
    \/ \E id \in Ids, u \in Users, amount \in 1..MaxAmount : buy(id, u, amount)
    \/ \E id \in Ids, u \in Users : claim(id, u) \/ finalize(id, u) \/ cancelSale(id, u)
    \/ \E fee \in FeeRates : setPlatformFee(fee)
    \/ Tick

Spec == Init /\ [][Next]_vars

-----------------------------------------------------------------------------
(* The state is well formed; the slots beyond saleCount are untouched, and *)
(* a sale that is not active sold nothing.                                 *)
TypeOK ==
    /\ now \in Nat /\ saleCount \in 0..MaxSales /\ platformFee \in Nat
    /\ deployed \subseteq NewTokens
    /\ purchased \in [Ids -> [Users -> Nat]] /\ claimed \in [Ids -> [Users -> Nat]]
    /\ held \in [Tokens -> Nat]
    /\ paid \in [Ids -> Nat] /\ buys \in [Ids -> Nat]
    /\ sales \in [Ids -> [creator : Users \cup {ZeroAddress},
                          saleToken : Tokens \cup {ZeroAddress},
                          paymentToken : Tokens \cup {ZeroAddress},
                          price : Nat, totalAmount : Nat, soldAmount : Nat,
                          startTime : Nat, endTime : Nat,
                          minPurchase : Nat, maxPurchase : Nat,
                          finalized : BOOLEAN, active : BOOLEAN]]
    /\ \A id \in Ids : id > saleCount => sales[id] = NoSale
    /\ \A id \in Ids : ~sales[id].active => sales[id].soldAmount = 0

(* A sale's count is the sum of the purchases, never more than it offers,  *)
(* and nobody claims more than was bought or buys more than one may.       *)
SoldAddsUp ==
    \A id \in Ids :
        /\ sales[id].soldAmount = SumOf(purchased[id])
        /\ sales[id].soldAmount <= sales[id].totalAmount
        /\ \A u \in Users : /\ claimed[id][u] <= purchased[id][u]
                            /\ purchased[id][u] <= sales[id].maxPurchase

(* What the contract owes in tokens of a sale: the whole offer while it    *)
(* runs, what was sold once it is finalized, less what was claimed.        *)
TokensOwed(id) ==
    IF ~sales[id].active THEN 0
    ELSE (IF sales[id].finalized THEN sales[id].soldAmount ELSE sales[id].totalAmount)
           - SumOf(claimed[id])

(* The buyers' money it keeps for a sale, and what finalize paid out       *)
(* beyond it, the roundings being different.                               *)
MoneyKept(id) == IF sales[id].finalized THEN 0 ELSE paid[id]
Overpaid(id) == IF sales[id].finalized THEN TotalRaised(sales[id]) - paid[id] ELSE 0

OwedIn(t, id) == IF sales[id].saleToken = t THEN TokensOwed(id) ELSE 0
KeptIn(t, id) == IF sales[id].paymentToken = t THEN MoneyKept(id) ELSE 0
OverpaidIn(t, id) == IF sales[id].paymentToken = t THEN Overpaid(id) ELSE 0

(* Every balance is what the sales in that token owe and keep, whatever    *)
(* tokens they share: sales take nothing from each other but the rounding. *)
HoldingsAccounted ==
    \A t \in Tokens :
        held[t] + SumOf([id \in Ids |-> OverpaidIn(t, id)])
            = SumOf([id \in Ids |-> OwedIn(t, id)]) + SumOf([id \in Ids |-> KeptIn(t, id)])

(* The rounding: a sale is priced at no less than its buyers paid, and at  *)
(* less than one unit more for each purchase.                              *)
RoundingBounded ==
    \A id \in Ids :
        /\ paid[id] <= TotalRaised(sales[id])
        /\ TotalRaised(sales[id]) <= paid[id] + buys[id]
        /\ buys[id] > 0 => TotalRaised(sales[id]) < paid[id] + buys[id]

(* A buyer can always claim, unless some sale is paid in the same token.   *)
ClaimsCovered ==
    \A id \in 1..saleCount, u \in Users :
        (\A other \in Ids : sales[other].paymentToken # sales[id].saleToken)
            => Claimable(id, u) <= held[sales[id].saleToken]

=============================================================================
