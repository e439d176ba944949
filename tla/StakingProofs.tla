---------------------------- MODULE StakingProofs ----------------------------
(***************************************************************************)
(* Proofs about StakingPool, for any stakers, pools, reward and scale.     *)
(*                                                                         *)
(* The rewards are bounded in units of 1/Precision, where nothing is       *)
(* rounded: Scaled(u) is what u was paid and has earned since.  Bringing   *)
(* the rate up to date adds to all of them together at most what the       *)
(* blocks gave (UpdateBound); settling u then changes only u's, by less    *)
(* than one token when the stake changes and not at all when it does not   *)
(* (SettleBound).  The ether is followed through the lending pools by what *)
(* a call moves from one of the four places to another (CustodyMoves), and *)
(* what is promised to a staker by the rate, which never falls (LaterRate).*)
(***************************************************************************)
EXTENDS StakingPool, LedgerLemmas

Scaled(u) ==
    Precision * minted[u] + amount[u] * accRewardPerShare - Precision * rewardDebt[u]

ScaledAt(u, acc) ==
    Precision * minted[u] + amount[u] * acc - Precision * rewardDebt[u]

RewardInv ==
    SumOf([u \in Users |-> Scaled(u)]) <= Precision * rewarded + (Precision - 1) * changes

IInv == TypeOK /\ StakesAddUp /\ SettlementNeverReverts /\ RewardInv

(* The share of a stake: a truncated quotient of two naturals. *)
LEMMA ShareFacts ==
  ASSUME NEW a \in Nat, NEW acc \in Nat
  PROVE  /\ Share(a, acc) \in Nat
         /\ Precision * Share(a, acc) <= a * acc
         /\ a * acc < Precision * Share(a, acc) + Precision
<1>1. a * acc \in Nat /\ Precision \in Nat \ {0}
  BY NumbersAssumption
<1> QED
  BY <1>1, DivFacts DEF Share

(* A higher rate gives no smaller share. *)
LEMMA ShareGrows ==
  ASSUME NEW a \in Nat, NEW acc \in Nat, NEW d \in Nat
  PROVE  Share(a, acc) <= Share(a, acc + d)
<1>1. a * acc \in Nat /\ a * d \in Nat /\ a * (acc + d) = a * acc + a * d
  OBVIOUS
<1>2. a * (acc + d) \in Nat /\ a * acc <= a * (acc + d)
  BY <1>1
<1> QED
  BY <1>1, <1>2, NumbersAssumption, DivMonotone DEF Share

(* The rate grows by delta; what all stakes earn from it is at most what   *)
(* the blocks gave.                                                        *)
LEMMA RateStep ==
  ASSUME TypeOK
  PROVE  /\ BlockReward \in Nat
         /\ \E delta \in Nat :
              /\ NewAcc = accRewardPerShare + delta
              /\ totalStaked * delta <= Precision * BlockReward
<1>1. BlockReward \in Nat
  <2>1. CASE totalStaked = 0
    BY <2>1 DEF BlockReward
  <2>2. CASE totalStaked # 0
    <3>1. height - lastRewardBlock \in Nat
      BY DEF TypeOK
    <3>2. (height - lastRewardBlock) * Reward \in Nat
      <4> DEFINE d == height - lastRewardBlock
      <4>1. d \in Nat /\ Reward \in Nat
        BY <3>1, NumbersAssumption
      <4> HIDE DEF d
      <4>2. d * Reward \in Nat
        BY <4>1
      <4> QED
        BY <4>2 DEF d
    <3> QED
      BY <2>2, <3>2 DEF BlockReward
  <2> QED
    BY <2>1, <2>2
<1>2. accRewardPerShare \in Nat /\ totalStaked \in Nat /\ Precision \in Nat \ {0}
  BY NumbersAssumption DEF TypeOK
<1>3. CASE totalStaked = 0
  <2>1. NewAcc = accRewardPerShare + 0
    BY <1>2, <1>3 DEF NewAcc
  <2>2. totalStaked * 0 <= Precision * BlockReward
    <3>1. Precision * BlockReward \in Nat
      BY <1>1, <1>2
    <3> QED
      BY <1>2, <3>1
  <2> QED
    BY <1>1, <2>1, <2>2
<1>4. CASE totalStaked # 0
  <2> DEFINE x == BlockReward * Precision
             delta == x \div totalStaked
  <2>1. x \in Nat /\ x = Precision * BlockReward
    BY <1>1, <1>2
  <2>2. NewAcc = accRewardPerShare + delta
    BY <1>4 DEF NewAcc
  <2> HIDE DEF x
  <2>3. delta \in Nat /\ totalStaked * delta <= x
    BY <1>2, <1>4, <2>1, DivFacts
  <2> QED
    BY <1>1, <2>1, <2>2, <2>3
<1> QED
  BY <1>3, <1>4

(* Bringing the rate up to date: every debt stays covered, and the blocks  *)
(* just settled pay for what the stakers earn from them.                   *)
LEMMA UpdateBound ==
  ASSUME IInv
  PROVE  /\ NewAcc \in Nat /\ BlockReward \in Nat
         /\ \A u \in Users : /\ ScaledAt(u, NewAcc) \in Nat
                             /\ rewardDebt[u] <= Share(amount[u], NewAcc)
         /\ SumOf([u \in Users |-> ScaledAt(u, NewAcc)])
              <= Precision * (rewarded + BlockReward) + (Precision - 1) * changes
<1>1. PICK delta \in Nat : /\ NewAcc = accRewardPerShare + delta
                           /\ totalStaked * delta <= Precision * BlockReward
  BY RateStep DEF IInv
<1>2. BlockReward \in Nat
  BY RateStep DEF IInv
<1>3. /\ accRewardPerShare \in Nat /\ totalStaked \in Nat /\ rewarded \in Nat
      /\ changes \in Nat /\ Precision \in Nat \ {0} /\ NewAcc \in Nat
  BY <1>1, NumbersAssumption DEF IInv, TypeOK
<1>4. ASSUME NEW u \in Users
      PROVE  /\ amount[u] \in Nat /\ rewardDebt[u] \in Nat /\ minted[u] \in Nat
             /\ rewardDebt[u] <= Share(amount[u], NewAcc)
             /\ Scaled(u) \in Nat
             /\ ScaledAt(u, NewAcc) = Scaled(u) + amount[u] * delta
             /\ amount[u] * delta \in Nat
  <2> DEFINE a == amount[u]
             r == rewardDebt[u]
             m == minted[u]
  <2>1. a \in Nat /\ r \in Nat /\ m \in Nat
    BY DEF IInv, TypeOK
  <2>2. r <= Share(a, accRewardPerShare)
    BY DEF IInv, SettlementNeverReverts
  <2>3. Share(a, accRewardPerShare) <= Share(a, NewAcc)
    BY <1>1, <1>3, <2>1, ShareGrows
  <2>4. Share(a, accRewardPerShare) \in Nat /\ Share(a, NewAcc) \in Nat
    BY <1>3, <2>1, ShareFacts
  <2>5. Precision * Share(a, accRewardPerShare) <= a * accRewardPerShare
    BY <1>3, <2>1, ShareFacts
  <2>6. Scaled(u) = Precision * m + a * accRewardPerShare - Precision * r
    BY DEF Scaled
  <2>7. ScaledAt(u, NewAcc) = Precision * m + a * (accRewardPerShare + delta) - Precision * r
    BY <1>1 DEF ScaledAt
  <2> HIDE DEF a, r, m
  <2>8. Precision * r <= Precision * Share(a, accRewardPerShare)
    BY <1>3, <2>1, <2>2, <2>4
  <2>9. /\ Precision * r \in Nat /\ a * accRewardPerShare \in Nat /\ Precision * m \in Nat
        /\ Precision * Share(a, accRewardPerShare) \in Nat /\ a * delta \in Nat
        /\ a * (accRewardPerShare + delta) = a * accRewardPerShare + a * delta
    BY <1>3, <2>1, <2>4
  <2>10. Scaled(u) \in Nat
    BY <2>5, <2>6, <2>8, <2>9
  <2>11. ScaledAt(u, NewAcc) = Scaled(u) + a * delta
    BY <2>6, <2>7, <2>9
  <2>12. r <= Share(a, NewAcc)
    BY <2>1, <2>2, <2>3, <2>4
  <2> QED
    BY <2>1, <2>9, <2>10, <2>11, <2>12 DEF a, r, m
<1> DEFINE before == [u \in Users |-> Scaled(u)]
           gain   == [u \in Users |-> amount[u] * delta]
           after  == [u \in Users |-> ScaledAt(u, NewAcc)]
<1>5. /\ before \in [Users -> Nat] /\ gain \in [Users -> Nat] /\ after \in [Users -> Nat]
      /\ \A u \in Users : after[u] = before[u] + gain[u]
  BY <1>4
<1>6. IsFiniteSet(Users) /\ amount \in [Users -> Nat] /\ SumOf(amount) = totalStaked
  BY UsersAssumption DEF IInv, TypeOK, StakesAddUp
<1>7. \A u \in Users : gain[u] = amount[u] * delta
  OBVIOUS
<1>8. SumOf(before) <= Precision * rewarded + (Precision - 1) * changes
  BY DEF IInv, RewardInv
<1> HIDE DEF before, gain, after
<1>9. SumOf(after) = SumOf(before) + SumOf(gain)
  BY <1>5, <1>6, SumAdd
<1>10. SumOf(gain) <= Precision * BlockReward
  <2>1. CASE delta = 0
    <3>1. \A u \in Users : gain[u] = 0
      BY <1>4, <1>7, <2>1
    <3>2. SumOf(gain) = 0
      BY <1>5, <1>6, <3>1, SumZero
    <3>3. Precision * BlockReward \in Nat
      BY <1>2, <1>3
    <3> QED
      BY <3>2, <3>3
  <2>2. CASE delta # 0
    <3>1. SumOf(gain) = SumOf(amount) * delta
      BY <1>5, <1>6, <1>7, <2>2, SumScale
    <3> QED
      BY <1>1, <1>6, <3>1
  <2> QED
    BY <2>1, <2>2
<1>11. SumOf(before) \in Nat /\ SumOf(gain) \in Nat
  BY <1>5, <1>6, SumFinite
<1>12. SumOf(after) <= Precision * (rewarded + BlockReward) + (Precision - 1) * changes
  <2>1. Precision * (rewarded + BlockReward) = Precision * rewarded + Precision * BlockReward
    BY <1>2, <1>3
  <2>2. /\ Precision * rewarded \in Nat /\ Precision * BlockReward \in Nat
        /\ (Precision - 1) * changes \in Int
    BY <1>2, <1>3
  <2> QED
    BY <1>8, <1>9, <1>10, <1>11, <2>1, <2>2
<1> QED
  BY <1>2, <1>3, <1>4, <1>5, <1>12 DEF after

(* Settling u for the stake n, with k changes of a stake: debts stay       *)
(* covered, and all that is paid and earned stays within the bound.        *)
LEMMA SettleBound ==
  ASSUME IInv, NEW u \in Users, NEW n \in Nat, NEW k \in {0, 1},
         updateReward, Settle(u, n), amount' = [amount EXCEPT ![u] = n],
         changes' = changes + k, k = 0 => n = amount[u]
  PROVE  /\ accRewardPerShare' \in Nat /\ rewarded' \in Nat /\ changes' \in Nat
         /\ amount' \in [Users -> Nat] /\ rewardDebt' \in [Users -> Nat]
         /\ minted' \in [Users -> Nat]
         /\ SettlementNeverReverts' /\ RewardInv'
<1>1. /\ NewAcc \in Nat /\ BlockReward \in Nat
      /\ \A w \in Users : /\ ScaledAt(w, NewAcc) \in Nat
                          /\ rewardDebt[w] <= Share(amount[w], NewAcc)
      /\ SumOf([w \in Users |-> ScaledAt(w, NewAcc)])
           <= Precision * (rewarded + BlockReward) + (Precision - 1) * changes
  BY UpdateBound
<1>2. /\ accRewardPerShare' = NewAcc /\ rewarded' = rewarded + BlockReward
      /\ minted' = [minted EXCEPT ![u] = minted[u] + Pending(u)]
      /\ rewardDebt' = [rewardDebt EXCEPT ![u] = Share(n, NewAcc)]
  BY DEF updateReward, Settle
<1>3. /\ amount \in [Users -> Nat] /\ rewardDebt \in [Users -> Nat]
      /\ minted \in [Users -> Nat] /\ rewarded \in Nat /\ changes \in Nat
      /\ Precision \in Nat \ {0} /\ IsFiniteSet(Users)
  BY NumbersAssumption, UsersAssumption DEF IInv, TypeOK
<1>4. /\ Share(amount[u], NewAcc) \in Nat /\ Share(n, NewAcc) \in Nat
      /\ Precision * Share(amount[u], NewAcc) <= amount[u] * NewAcc
      /\ amount[u] * NewAcc < Precision * Share(amount[u], NewAcc) + Precision
      /\ Precision * Share(n, NewAcc) <= n * NewAcc
      /\ n * NewAcc < Precision * Share(n, NewAcc) + Precision
  BY <1>1, <1>3, ShareFacts
<1>5. Pending(u) \in Nat /\ Pending(u) = Share(amount[u], NewAcc) - rewardDebt[u]
  BY <1>1, <1>3, <1>4 DEF Pending
<1>6. /\ accRewardPerShare' \in Nat /\ rewarded' \in Nat /\ changes' \in Nat
      /\ amount' \in [Users -> Nat] /\ rewardDebt' \in [Users -> Nat]
      /\ minted' \in [Users -> Nat]
  BY <1>1, <1>2, <1>3, <1>4, <1>5
<1>7. SettlementNeverReverts'
  <2> SUFFICES ASSUME NEW w \in Users
               PROVE  rewardDebt'[w] <= (Share(amount[w], accRewardPerShare))'
    BY DEF SettlementNeverReverts
  <2>1. (Share(amount[w], accRewardPerShare))' = Share(amount'[w], NewAcc)
    BY <1>2 DEF Share
  <2>2. CASE w = u
    BY <1>2, <1>3, <1>4, <2>1, <2>2
  <2>3. CASE w # u
    BY <1>1, <1>2, <1>3, <2>1, <2>3
  <2> QED
    BY <2>2, <2>3
<1> DEFINE mid   == [w \in Users |-> ScaledAt(w, NewAcc)]
           after == [w \in Users |-> Scaled(w)']
<1>8. ASSUME NEW w \in Users
      PROVE  /\ Scaled(w)' = Precision * minted'[w] + amount'[w] * NewAcc
                               - Precision * rewardDebt'[w]
             /\ w # u => Scaled(w)' = ScaledAt(w, NewAcc)
  <2>1. Scaled(w)' = Precision * minted'[w] + amount'[w] * NewAcc
                       - Precision * rewardDebt'[w]
    BY <1>2 DEF Scaled
  <2>2. CASE w # u
    BY <1>2, <1>3, <2>1, <2>2 DEF ScaledAt
  <2> QED
    BY <2>1, <2>2
<1>9. /\ Scaled(u)' \in Nat
      /\ Scaled(u)' <= ScaledAt(u, NewAcc) + (Precision - 1) * k
  <2> DEFINE a == amount[u]
             r == rewardDebt[u]
             m == minted[u]
             old == Share(a, NewAcc)
             new == Share(n, NewAcc)
  <2>1. Scaled(u)' = Precision * (m + (old - r)) + n * NewAcc - Precision * new
    BY <1>2, <1>3, <1>5, <1>8
  <2>2. ScaledAt(u, NewAcc) = Precision * m + a * NewAcc - Precision * r
    BY DEF ScaledAt
  <2>3. /\ a \in Nat /\ r \in Nat /\ m \in Nat /\ old \in Nat /\ new \in Nat /\ r <= old
        /\ Precision * old <= a * NewAcc
        /\ Precision * new <= n * NewAcc /\ n * NewAcc < Precision * new + Precision
    BY <1>1, <1>3, <1>4
  <2>4. k = 0 => n = a /\ new = old
    OBVIOUS
  <2> HIDE DEF a, r, m, old, new
  <2>5. Precision * (m + (old - r)) = Precision * m + Precision * old - Precision * r
    BY <1>3, <2>3
  <2>6. /\ Precision * m \in Nat /\ Precision * old \in Nat /\ Precision * r \in Nat
        /\ Precision * new \in Nat /\ n * NewAcc \in Nat /\ a * NewAcc \in Nat
    BY <1>1, <1>3, <2>3
  <2>7. Precision * r <= Precision * old
    BY <1>3, <2>3
  <2>8. Scaled(u)' \in Nat
    BY <2>1, <2>3, <2>5, <2>6, <2>7
  <2>9. CASE k = 0
    BY <1>3, <2>1, <2>2, <2>3, <2>4, <2>5, <2>6, <2>9
  <2>10. CASE k = 1
    BY <1>3, <2>1, <2>2, <2>3, <2>5, <2>6, <2>10
  <2> QED
    BY <2>8, <2>9, <2>10
<1>10. /\ mid \in [Users -> Nat] /\ after \in [Users -> Nat]
       /\ \A w \in Users : w # u => after[w] = mid[w]
       /\ after[u] <= mid[u] + (Precision - 1) * k
  BY <1>1, <1>8, <1>9
<1>11. SumOf(mid) <= Precision * (rewarded + BlockReward) + (Precision - 1) * changes
  BY <1>1
<1>12. RewardInv' <=> SumOf(after) <= Precision * rewarded' + (Precision - 1) * changes'
  BY DEF RewardInv
<1> HIDE DEF mid, after
<1>13. SumOf(after) = SumOf(mid) - mid[u] + after[u]
  BY <1>3, <1>10, SumUpdate
<1>14. SumOf(after) <= Precision * rewarded' + (Precision - 1) * changes'
  <2>1. SumOf(mid) \in Nat /\ mid[u] \in Nat /\ after[u] \in Nat
    BY <1>3, <1>10, SumFinite
  <2>2. (Precision - 1) * (changes + k) = (Precision - 1) * changes + (Precision - 1) * k
    BY <1>3
  <2>3. /\ (Precision - 1) * changes \in Int /\ (Precision - 1) * k \in Int
        /\ Precision * (rewarded + BlockReward) \in Int
    BY <1>1, <1>3
  <2> QED
    BY <1>2, <1>10, <1>11, <1>13, <2>1, <2>2, <2>3
<1> QED
  BY <1>6, <1>7, <1>12, <1>14

-----------------------------------------------------------------------------
(* The ether side of a stake going in and out. *)
LEMMA CustodyStep ==
  ASSUME TypeOK, NEW value \in Nat, SupplyStake(value) \/ DrawStake(value)
  PROVE  ether' \in Nat /\ supplied' \in [Pools -> Nat]
<1>1. /\ ether \in Nat /\ supplied \in [Pools -> Nat] /\ lendingPool \in Pools \cup {NoPool}
  BY DEF TypeOK
<1>2. CASE SupplyStake(value)
  BY <1>1, <1>2 DEF SupplyStake
<1>3. CASE DrawStake(value)
  BY <1>1, <1>3 DEF DrawStake
<1> QED
  BY <1>2, <1>3

LEMMA InitIInv ==
  Init => IInv
<1> SUFFICES ASSUME Init
             PROVE  IInv
  OBVIOUS
<1>1. TypeOK
  BY NumbersAssumption DEF Init, TypeOK
<1>2. IsFiniteSet(Users) /\ Precision \in Nat \ {0}
  BY UsersAssumption, NumbersAssumption
<1>3. StakesAddUp
  <2>1. amount \in [Users -> Nat] /\ \A u \in Users : amount[u] = 0
    BY DEF Init
  <2>2. SumOf(amount) = 0
    BY <1>2, <2>1, SumZero
  <2> QED
    BY <2>2 DEF Init, StakesAddUp
<1>4. SettlementNeverReverts
  BY <1>2, ShareFacts DEF Init, SettlementNeverReverts
<1>5. RewardInv
  <2> DEFINE f == [u \in Users |-> Scaled(u)]
  <2>1. f \in [Users -> Nat] /\ \A u \in Users : f[u] = 0
    BY <1>2 DEF Init, Scaled
  <2>2. Precision * rewarded + (Precision - 1) * changes = 0
    BY <1>2 DEF Init
  <2> HIDE DEF f
  <2>3. SumOf(f) = 0
    BY <1>2, <2>1, SumZero
  <2> QED
    BY <2>2, <2>3 DEF RewardInv, f
<1> QED
  BY <1>1, <1>3, <1>4, <1>5 DEF IInv

(* A step that leaves stakes, rates and payments alone. *)
LEMMA QuietStep ==
  ASSUME IInv, TypeOK', UNCHANGED <<rewardVars, userVars>>
  PROVE  IInv'
<1>1. UNCHANGED <<amount, rewardDebt, minted, totalStaked, accRewardPerShare, rewarded, changes>>
  BY DEF rewardVars, userVars
<1>2. StakesAddUp'
  BY <1>1 DEF IInv, StakesAddUp
<1>3. SettlementNeverReverts'
  BY <1>1 DEF IInv, SettlementNeverReverts, Share
<1>4. RewardInv'
  BY <1>1 DEF IInv, RewardInv, Scaled
<1> QED
  BY <1>2, <1>3, <1>4 DEF IInv

(* A call that settles u, whatever else it does. *)
LEMMA SettlingStep ==
  ASSUME IInv, NEW u \in Users, NEW n \in Nat, NEW k \in {0, 1},
         updateReward, Settle(u, n), amount' = [amount EXCEPT ![u] = n],
         changes' = changes + k, k = 0 => n = amount[u],
         totalStaked' = totalStaked - amount[u] + n,
         stakingTime' \in [Users -> Nat],
         \A w \in Users : stakingTime'[w] > 0 <=> amount'[w] > 0,
         height' = height, UNCHANGED <<lendingPool, given, taken>>,
         ether' \in Nat, supplied' \in [Pools -> Nat]
  PROVE  IInv'
<1>1. /\ accRewardPerShare' \in Nat /\ rewarded' \in Nat /\ changes' \in Nat
      /\ amount' \in [Users -> Nat] /\ rewardDebt' \in [Users -> Nat]
      /\ minted' \in [Users -> Nat]
      /\ SettlementNeverReverts' /\ RewardInv'
  BY SettleBound
<1>2. /\ amount \in [Users -> Nat] /\ totalStaked = SumOf(amount)
      /\ IsFiniteSet(Users)
      /\ \A w \in Users : w # u => amount'[w] = amount[w]
      /\ amount'[u] = n
  BY UsersAssumption DEF IInv, TypeOK, StakesAddUp
<1>3. SumOf(amount') = SumOf(amount) - amount[u] + amount'[u]
  <2>1. PICK h \in [Users -> Nat] : h = amount'
    BY <1>1
  <2>2. \A w \in Users : w # u => h[w] = amount[w]
    BY <1>2, <2>1
  <2>3. SumOf(h) = SumOf(amount) - amount[u] + h[u]
    BY <1>2, <2>2, SumUpdate
  <2> QED
    BY <2>1, <2>3
<1>4. totalStaked' = SumOf(amount') /\ totalStaked' \in Nat
  <2>1. SumOf(amount') \in Nat
    BY <1>1, <1>2, SumFinite
  <2> QED
    BY <1>2, <1>3, <2>1
<1>5. TypeOK'
  BY <1>1, <1>4 DEF IInv, TypeOK, updateReward
<1>6. StakesAddUp'
  BY <1>4 DEF StakesAddUp
<1> QED
  BY <1>1, <1>5, <1>6 DEF IInv

LEMMA NextIInv ==
  IInv /\ [Next]_vars => IInv'
<1> SUFFICES ASSUME IInv, [Next]_vars
             PROVE  IInv'
  OBVIOUS
<1>1. /\ TypeOK
      /\ amount \in [Users -> Nat] /\ stakingTime \in [Users -> Nat]
      /\ totalStaked \in Nat /\ changes \in Nat /\ height \in Nat \ {0}
      /\ \A w \in Users : stakingTime[w] > 0 <=> amount[w] > 0
  BY DEF IInv, TypeOK
<1>2. ASSUME NEW u \in Users, NEW value \in 1..MaxStaked, stake(u, value)
      PROVE  IInv'
  <2>1. /\ value \in Nat /\ value > 0 /\ amount[u] \in Nat /\ amount[u] + value \in Nat
    BY <1>1, BoundsAssumption
  <2>2. /\ updateReward /\ Settle(u, amount[u] + value)
        /\ amount' = [amount EXCEPT ![u] = amount[u] + value]
        /\ changes' = changes + 1 /\ totalStaked' = totalStaked + value
        /\ SupplyStake(value) /\ UNCHANGED <<height, lendingPool, given, taken>>
        /\ stakingTime' = IF amount[u] > 0 THEN stakingTime
                          ELSE [stakingTime EXCEPT ![u] = height]
    BY <1>2 DEF stake
  <2>3. ether' \in Nat /\ supplied' \in [Pools -> Nat]
    BY <1>1, <2>1, <2>2, CustodyStep
  <2>4. totalStaked' = totalStaked - amount[u] + (amount[u] + value)
    BY <1>1, <2>1, <2>2
  <2>5. /\ stakingTime' \in [Users -> Nat]
        /\ \A w \in Users : stakingTime'[w] > 0 <=> amount'[w] > 0
    BY <1>1, <2>1, <2>2
  <2> QED
    BY <2>1, <2>2, <2>3, <2>4, <2>5, 1 \in {0, 1}, 1 # 0, SettlingStep
<1>3. ASSUME NEW u \in Users, NEW value \in 1..MaxStaked, unstake(u, value)
      PROVE  IInv'
  <2>1. /\ value \in Nat /\ value > 0 /\ amount[u] \in Nat /\ amount[u] - value \in Nat
    BY <1>1, <1>3, BoundsAssumption DEF unstake
  <2>2. /\ updateReward /\ Settle(u, amount[u] - value)
        /\ amount' = [amount EXCEPT ![u] = amount[u] - value]
        /\ changes' = changes + 1 /\ totalStaked' = totalStaked - value
        /\ DrawStake(value) /\ UNCHANGED <<height, lendingPool, given, taken>>
        /\ stakingTime' = IF amount[u] = value THEN [stakingTime EXCEPT ![u] = 0]
                          ELSE stakingTime
    BY <1>3 DEF unstake
  <2>3. ether' \in Nat /\ supplied' \in [Pools -> Nat]
    BY <1>1, <2>1, <2>2, CustodyStep
  <2>4. totalStaked' = totalStaked - amount[u] + (amount[u] - value)
    BY <1>1, <2>1, <2>2
  <2>5. /\ stakingTime' \in [Users -> Nat]
        /\ \A w \in Users : stakingTime'[w] > 0 <=> amount'[w] > 0
    BY <1>1, <2>1, <2>2
  <2> QED
    BY <2>1, <2>2, <2>3, <2>4, <2>5, 1 \in {0, 1}, 1 # 0, SettlingStep
<1>4. ASSUME NEW u \in Users, claim(u)
      PROVE  IInv'
  <2>1. /\ updateReward /\ Settle(u, amount[u])
        /\ UNCHANGED <<height, amount, stakingTime, totalStaked, changes>>
        /\ UNCHANGED <<lendingPool, ether, supplied, given, taken>>
    BY <1>4 DEF claim, etherVars
  <2>2. /\ amount[u] \in Nat /\ amount' = [amount EXCEPT ![u] = amount[u]]
        /\ changes' = changes + 0 /\ totalStaked' = totalStaked - amount[u] + amount[u]
    BY <1>1, <2>1
  <2>3. /\ stakingTime' \in [Users -> Nat] /\ ether' \in Nat /\ supplied' \in [Pools -> Nat]
        /\ \A w \in Users : stakingTime'[w] > 0 <=> amount'[w] > 0
    BY <1>1, <2>1 DEF TypeOK
  <2> QED
    BY <2>1, <2>2, <2>3, 0 \in {0, 1}, SettlingStep
<1>5. CASE poke
  <2>1. /\ UNCHANGED <<height, amount, rewardDebt, stakingTime, totalStaked, minted, changes>>
        /\ UNCHANGED <<lendingPool, ether, supplied, given, taken>>
        /\ accRewardPerShare' = NewAcc /\ lastRewardBlock' = height
        /\ rewarded' = rewarded + BlockReward
    BY <1>5 DEF poke, userVars, etherVars, updateReward
  <2>2. /\ NewAcc \in Nat /\ BlockReward \in Nat
        /\ \A u \in Users : rewardDebt[u] <= Share(amount[u], NewAcc)
        /\ SumOf([u \in Users |-> ScaledAt(u, NewAcc)])
             <= Precision * (rewarded + BlockReward) + (Precision - 1) * changes
    BY UpdateBound
  <2>3. TypeOK'
    BY <2>1, <2>2 DEF IInv, TypeOK
  <2>4. StakesAddUp'
    BY <2>1 DEF IInv, StakesAddUp
  <2>5. SettlementNeverReverts'
    BY <2>1, <2>2 DEF SettlementNeverReverts, Share
  <2>6. \A u \in Users : Scaled(u)' = ScaledAt(u, NewAcc)
    BY <2>1 DEF Scaled, ScaledAt
  <2>7. [u \in Users |-> Scaled(u)'] = [u \in Users |-> ScaledAt(u, NewAcc)]
    BY <2>6
  <2>8. RewardInv'
    BY <2>1, <2>2, <2>7 DEF RewardInv
  <2> QED
    BY <2>3, <2>4, <2>5, <2>8 DEF IInv
<1>6. ASSUME NEW p \in Pools \cup {NoPool}, updateLendingPool(p)
      PROVE  IInv'
  <2>1. TypeOK'
    BY <1>1, <1>6 DEF updateLendingPool, TypeOK, rewardVars, userVars
  <2> QED
    BY <1>6, <2>1, QuietStep DEF updateLendingPool
<1>7. CASE emergencyWithdraw
  <2>1. TypeOK'
    BY <1>1, <1>7 DEF emergencyWithdraw, TypeOK, rewardVars, userVars
  <2> QED
    BY <1>7, <2>1, QuietStep DEF emergencyWithdraw
<1>8. CASE receive
  <2>1. TypeOK'
    BY <1>1, <1>8 DEF receive, TypeOK, rewardVars, userVars
  <2> QED
    BY <1>8, <2>1, QuietStep DEF receive
<1>9. ASSUME NEW p \in Pools, Accrue(p)
      PROVE  IInv'
  <2>1. TypeOK'
    BY <1>1, <1>9 DEF Accrue, TypeOK, rewardVars, userVars
  <2> QED
    BY <1>9, <2>1, QuietStep DEF Accrue
<1>10. CASE AdvanceBlock
  <2>1. TypeOK'
    BY <1>1, <1>10 DEF AdvanceBlock, TypeOK, rewardVars, userVars, etherVars
  <2> QED
    BY <1>10, <2>1, QuietStep DEF AdvanceBlock
<1>11. CASE UNCHANGED vars
  <2>1. TypeOK'
    BY <1>1, <1>11 DEF vars, TypeOK, rewardVars, userVars, etherVars
  <2> QED
    BY <1>11, <2>1, QuietStep DEF vars
<1> QED
  BY <1>2, <1>3, <1>4, <1>5, <1>6, <1>7, <1>8, <1>9, <1>10, <1>11 DEF Next, OwnerStep

-----------------------------------------------------------------------------
LEMMA StrongInvariant ==
  IInv => RewardsBounded
<1> SUFFICES ASSUME IInv
             PROVE  RewardsBounded
  OBVIOUS
<1> DEFINE owed   == [u \in Users |-> Owed(u)]
           scaled == [u \in Users |-> Scaled(u)]
           whole  == [u \in Users |-> owed[u] * Precision]
<1>1. Precision \in Nat \ {0} /\ IsFiniteSet(Users)
  BY NumbersAssumption, UsersAssumption
<1>2. ASSUME NEW u \in Users
      PROVE  /\ Owed(u) \in Nat /\ Scaled(u) \in Nat
             /\ Owed(u) * Precision \in Nat /\ Owed(u) * Precision <= Scaled(u)
  <2> DEFINE share == Share(amount[u], accRewardPerShare)
             m == minted[u]
             r == rewardDebt[u]
             x == amount[u] * accRewardPerShare
  <2>1. /\ amount[u] \in Nat /\ m \in Nat /\ r \in Nat /\ accRewardPerShare \in Nat
        /\ r <= share
    BY DEF IInv, TypeOK, SettlementNeverReverts
  <2>2. share \in Nat /\ Precision * share <= x /\ x \in Nat
    <3>1. share \in Nat /\ Precision * share <= x
      BY <2>1, ShareFacts
    <3>2. \A i, j \in Nat : i * j \in Nat
      OBVIOUS
    <3> QED
      BY <2>1, <3>1, <3>2
  <2>3. Owed(u) = m + share - r /\ Scaled(u) = Precision * m + x - Precision * r
    BY DEF Owed, Scaled
  <2> HIDE DEF share, m, r, x
  <2>4. (m + share - r) * Precision = Precision * m + Precision * share - Precision * r
    BY <1>1, <2>1, <2>2
  <2>5. /\ Precision * m \in Nat /\ Precision * share \in Nat /\ Precision * r \in Nat
        /\ Precision * r <= Precision * share
    BY <1>1, <2>1, <2>2
  <2> QED
    BY <2>1, <2>2, <2>3, <2>4, <2>5
<1>3. /\ owed \in [Users -> Nat] /\ scaled \in [Users -> Nat] /\ whole \in [Users -> Nat]
      /\ \A u \in Users : whole[u] = owed[u] * Precision
      /\ \A u \in Users : whole[u] <= scaled[u]
  BY <1>2
<1>4. SumOf(scaled) <= Precision * rewarded + (Precision - 1) * changes
  BY DEF IInv, RewardInv
<1>5. RewardsBounded
        <=> Precision * SumOf(owed) <= Precision * rewarded + (Precision - 1) * changes
  BY DEF RewardsBounded
<1>6. rewarded \in Nat /\ changes \in Nat
  BY DEF IInv, TypeOK
<1> HIDE DEF owed, scaled, whole
<1>7. SumOf(whole) = SumOf(owed) * Precision
  BY <1>1, <1>3, SumScale
<1>8. SumOf(whole) <= SumOf(scaled)
  BY <1>1, <1>3, SumMonotone
<1>9. SumOf(owed) \in Nat /\ SumOf(scaled) \in Nat /\ SumOf(whole) \in Nat
  BY <1>1, <1>3, SumFinite
<1>10. SumOf(whole) = Precision * SumOf(owed)
  BY <1>1, <1>7, <1>9
<1>11. Precision * rewarded + (Precision - 1) * changes \in Int
  BY <1>1, <1>6
<1>12. SumOf(whole) <= Precision * rewarded + (Precision - 1) * changes
  BY <1>4, <1>8, <1>9, <1>11
<1> QED
  BY <1>5, <1>10, <1>12

(* The stakes are what the total says, and no settlement can revert: a     *)
(* staker is never locked out by the accounting.                           *)
THEOREM StakersAreNeverLockedOut == Spec => [](TypeOK /\ StakesAddUp /\ SettlementNeverReverts)
<1>1. IInv => TypeOK /\ StakesAddUp /\ SettlementNeverReverts
  BY DEF IInv
<1> QED
  BY <1>1, InitIInv, NextIInv, PTL DEF Spec

(* What is minted and owed never exceeds what the blocks rewarded by more  *)
(* than the rounding of the changes of stakes.                             *)
THEOREM RewardsAreBounded == Spec => []RewardsBounded
BY InitIInv, NextIInv, StrongInvariant, PTL DEF Spec

(* Only the owner can put the stakes out of reach. *)
THEOREM OnlyTheOwnerUncovers == Spec => OnlyOwnerUncovers
<1>1. IInv /\ [Next]_vars => [Covered /\ ~OwnerStep => Covered']_vars
  <2> SUFFICES ASSUME IInv, Next, Covered, ~OwnerStep
               PROVE  Covered'
    OBVIOUS
  <2>1. /\ totalStaked \in Nat /\ ether \in Nat /\ supplied \in [Pools -> Nat]
        /\ lendingPool \in Pools \cup {NoPool} /\ NoPool \notin Pools
    BY UsersAssumption DEF IInv, TypeOK
  <2>2. ASSUME NEW u \in Users, NEW value \in 1..MaxStaked, stake(u, value)
        PROVE  Covered'
    <3>1. value \in Nat
      BY BoundsAssumption
    <3> QED
      BY <2>1, <2>2, <3>1 DEF stake, SupplyStake, Covered
  <2>3. ASSUME NEW u \in Users, NEW value \in 1..MaxStaked, unstake(u, value)
        PROVE  Covered'
    <3>1. value \in Nat
      BY BoundsAssumption
    <3> QED
      BY <2>1, <2>3, <3>1 DEF unstake, DrawStake, Covered
  <2>4. ASSUME NEW u \in Users, claim(u)
        PROVE  Covered'
    BY <2>4 DEF claim, etherVars, Covered
  <2>5. CASE poke
    BY <2>5 DEF poke, userVars, etherVars, Covered
  <2>6. CASE receive
    BY <2>1, <2>6 DEF receive, userVars, Covered
  <2>7. ASSUME NEW p \in Pools, Accrue(p)
        PROVE  Covered'
    BY <2>1, <2>7 DEF Accrue, userVars, Covered
  <2>8. CASE AdvanceBlock
    BY <2>8 DEF AdvanceBlock, userVars, etherVars, Covered
  <2> QED
    BY <2>2, <2>3, <2>4, <2>5, <2>6, <2>7, <2>8 DEF Next
<1> QED
  BY <1>1, InitIInv, NextIInv, PTL DEF Spec, OnlyOwnerUncovers

-----------------------------------------------------------------------------
(***************************************************************************)
(* The ether.  Every step moves it between the contract, a lending pool    *)
(* and the owner, or records what came in and went out.                    *)
(***************************************************************************)

(* A stake that goes in, or out, moves that much and no more. *)
LEMMA CustodyMoves ==
  ASSUME TypeOK, NEW value \in Nat
  PROVE  /\ SumOf(supplied) \in Nat
         /\ SupplyStake(value) =>
              \E x, y \in Nat : /\ x + y = value
                                /\ ether' = ether + x
                                /\ SumOf(supplied') = SumOf(supplied) + y
         /\ DrawStake(value) =>
              \E x, y \in Nat : /\ x + y = value
                                /\ x <= ether /\ ether' = ether - x
                                /\ y <= SumOf(supplied)
                                /\ SumOf(supplied') = SumOf(supplied) - y
<1>1. /\ ether \in Nat /\ supplied \in [Pools -> Nat] /\ IsFiniteSet(Pools)
      /\ lendingPool \in Pools \cup {NoPool} /\ NoPool \notin Pools
  BY UsersAssumption DEF TypeOK
<1>2. SumOf(supplied) \in Nat
  BY <1>1, SumFinite
<1>3. ASSUME lendingPool \in Pools
      PROVE  /\ supplied[lendingPool] \in Nat /\ supplied[lendingPool] <= SumOf(supplied)
             /\ \A n \in Nat : SumOf([supplied EXCEPT ![lendingPool] = n])
                                 = SumOf(supplied) - supplied[lendingPool] + n
  BY <1>1, <1>3, SumPut, SumMember
<1>4. CASE lendingPool = NoPool
  BY <1>1, <1>2, <1>4 DEF SupplyStake, DrawStake
<1>5. CASE lendingPool # NoPool
  <2>1. lendingPool \in Pools
    BY <1>1, <1>5
  <2> DEFINE old == supplied[lendingPool]
  <2>2. old \in Nat /\ old <= SumOf(supplied) /\ old + value \in Nat
    BY <1>3, <2>1
  <2>3. ASSUME SupplyStake(value)
        PROVE  ether' = ether + 0 /\ SumOf(supplied') = SumOf(supplied) + value
    <3>1. ether' = ether /\ supplied' = [supplied EXCEPT ![lendingPool] = old + value]
      BY <1>5, <2>3 DEF SupplyStake
    <3>2. SumOf(supplied') = SumOf(supplied) - old + (old + value)
      BY <1>3, <2>1, <2>2, <3>1
    <3> QED
      BY <1>1, <1>2, <2>2, <3>1, <3>2
  <2>4. ASSUME DrawStake(value)
        PROVE  /\ ether' = ether - 0 /\ SumOf(supplied') = SumOf(supplied) - value
               /\ value <= SumOf(supplied)
    <3>1. /\ ether' = ether /\ supplied' = [supplied EXCEPT ![lendingPool] = old - value]
          /\ value <= old
      BY <1>5, <2>4 DEF DrawStake
    <3>2. old - value \in Nat
      BY <2>2, <3>1
    <3>3. SumOf(supplied') = SumOf(supplied) - old + (old - value)
      BY <1>3, <2>1, <3>1, <3>2
    <3> QED
      BY <1>1, <1>2, <2>2, <3>1, <3>3
  <2>5. 0 \in Nat /\ 0 + value = value /\ 0 <= ether
    BY <1>1
  <2> HIDE DEF old
  <2> QED
    BY <1>2, <2>3, <2>4, <2>5
<1> QED
  BY <1>2, <1>4, <1>5

LEMMA InitEther == Init => EtherConserved
<1> SUFFICES ASSUME Init PROVE EtherConserved
  OBVIOUS
<1>1. /\ supplied \in [Pools -> Nat] /\ \A p \in Pools : supplied[p] = 0
      /\ ether = 0 /\ taken = 0 /\ totalStaked = 0 /\ given = 0
  BY DEF Init
<1>2. SumOf(supplied) = 0
  BY <1>1, SumZero, UsersAssumption
<1> QED
  BY <1>1, <1>2 DEF EtherConserved

LEMMA NextEther ==
  ASSUME IInv, EtherConserved, [Next]_vars
  PROVE  EtherConserved'
<1>1. /\ TypeOK /\ ether \in Nat /\ taken \in Nat /\ totalStaked \in Nat /\ given \in Nat
      /\ supplied \in [Pools -> Nat] /\ IsFiniteSet(Pools)
      /\ SumOf(supplied) \in Nat
      /\ ether + SumOf(supplied) + taken = totalStaked + given
  BY UsersAssumption, SumFinite DEF IInv, TypeOK, EtherConserved
<1>2. EtherConserved' <=> ether' + SumOf(supplied') + taken' = totalStaked' + given'
  BY DEF EtherConserved
<1>3. ASSUME NEW u \in Users, NEW value \in 1..MaxStaked, stake(u, value)
      PROVE  EtherConserved'
  <2>1. /\ value \in Nat /\ SupplyStake(value) /\ totalStaked' = totalStaked + value
        /\ taken' = taken /\ given' = given
    BY <1>3, BoundsAssumption DEF stake
  <2>2. PICK x, y \in Nat : /\ x + y = value
                            /\ ether' = ether + x
                            /\ SumOf(supplied') = SumOf(supplied) + y
    BY <1>1, <2>1, CustodyMoves
  <2> QED
    BY <1>1, <1>2, <2>1, <2>2
<1>4. ASSUME NEW u \in Users, NEW value \in 1..MaxStaked, unstake(u, value)
      PROVE  EtherConserved'
  <2>1. /\ value \in Nat /\ DrawStake(value) /\ totalStaked' = totalStaked - value
        /\ taken' = taken /\ given' = given
    BY <1>4, BoundsAssumption DEF unstake
  <2>2. PICK x, y \in Nat : /\ x + y = value
                            /\ x <= ether /\ ether' = ether - x
                            /\ y <= SumOf(supplied)
                            /\ SumOf(supplied') = SumOf(supplied) - y
    BY <1>1, <2>1, CustodyMoves
  <2> QED
    BY <1>1, <1>2, <2>1, <2>2
<1>5. CASE emergencyWithdraw
  <2>1. /\ ether' = 0 /\ taken' = taken + ether /\ supplied' = supplied
        /\ totalStaked' = totalStaked /\ given' = given
    BY <1>5 DEF emergencyWithdraw, userVars
  <2> QED
    BY <1>1, <1>2, <2>1
<1>6. CASE receive
  <2>1. /\ ether' = ether + 1 /\ given' = given + 1 /\ supplied' = supplied
        /\ totalStaked' = totalStaked /\ taken' = taken
    BY <1>6 DEF receive, userVars
  <2> QED
    BY <1>1, <1>2, <2>1
<1>7. ASSUME NEW p \in Pools, Accrue(p)
      PROVE  EtherConserved'
  <2>1. /\ given' = given + 1 /\ supplied' = [supplied EXCEPT ![p] = supplied[p] + 1]
        /\ totalStaked' = totalStaked /\ taken' = taken /\ ether' = ether
    BY <1>7 DEF Accrue, userVars
  <2>2. SumOf(supplied') = SumOf(supplied) - supplied[p] + (supplied[p] + 1)
    <3>1. supplied[p] \in Nat /\ supplied[p] + 1 \in Nat
      BY <1>1
    <3> QED
      BY <1>1, <2>1, <3>1, SumPut
  <2>3. supplied[p] \in Nat
    BY <1>1
  <2> QED
    BY <1>1, <1>2, <2>1, <2>2, <2>3
<1>8. CASE UNCHANGED <<ether, supplied, taken, totalStaked, given>>
  BY <1>1, <1>2, <1>8
<1>9. ASSUME \/ \E u \in Users : claim(u)
             \/ poke
             \/ \E p \in Pools \cup {NoPool} : updateLendingPool(p)
             \/ AdvanceBlock
             \/ UNCHANGED vars
      PROVE  UNCHANGED <<ether, supplied, taken, totalStaked, given>>
  BY <1>9 DEF claim, poke, updateLendingPool, AdvanceBlock, vars, userVars, etherVars
<1> QED
  BY <1>3, <1>4, <1>5, <1>6, <1>7, <1>8, <1>9 DEF Next, OwnerStep

(* Every wei is in the contract, in a lending pool or with the owner. *)
THEOREM EtherIsConserved == Spec => []EtherConserved
<1>1. (IInv /\ EtherConserved) /\ [Next]_vars => (IInv /\ EtherConserved)'
  BY NextIInv, NextEther
<1>2. Init => IInv /\ EtherConserved
  BY InitIInv, InitEther
<1> QED
  BY <1>1, <1>2, PTL DEF Spec

-----------------------------------------------------------------------------
(***************************************************************************)
(* What earned() promises.  A settlement leaves the rate where the view    *)
(* put it already (FreshRate), and a new block only raises it.             *)
(***************************************************************************)

LEMMA ZeroQuotient == \A d \in Nat \ {0} : 0 \div d = 0
OBVIOUS

LEMMA FreshRate ==
  ASSUME IInv, updateReward, height' = height, totalStaked' \in Nat
  PROVE  NewAcc' = NewAcc
<1>1. /\ height \in Nat /\ lastRewardBlock' = height' /\ accRewardPerShare' = NewAcc
      /\ NewAcc \in Nat /\ Reward \in Nat /\ Precision \in Nat
  BY UpdateBound, NumbersAssumption DEF IInv, TypeOK, updateReward
<1>2. NewAcc' = IF totalStaked' = 0 THEN accRewardPerShare'
                ELSE accRewardPerShare' + (BlockReward' * Precision) \div totalStaked'
  BY DEF NewAcc
<1>3. BlockReward' = 0
  <2>1. BlockReward' = IF totalStaked' = 0 THEN 0 ELSE (height' - lastRewardBlock') * Reward
    BY DEF BlockReward
  <2>2. height' - lastRewardBlock' = 0
    BY <1>1
  <2> QED
    BY <1>1, <2>1, <2>2
<1>4. BlockReward' * Precision = 0
  BY <1>1, <1>3
<1> QED
  BY <1>1, <1>2, <1>4, ZeroQuotient

(* A block more, and the same stakes: the rate of the view only grows. *)
LEMMA LaterRate ==
  ASSUME IInv, AdvanceBlock
  PROVE  \E d \in Nat : NewAcc' = NewAcc + d
<1>1. /\ height' = height + 1 /\ lastRewardBlock' = lastRewardBlock
      /\ totalStaked' = totalStaked /\ accRewardPerShare' = accRewardPerShare
  BY DEF AdvanceBlock, rewardVars, userVars
<1>2. /\ height \in Nat /\ lastRewardBlock \in Nat /\ lastRewardBlock <= height
      /\ totalStaked \in Nat /\ accRewardPerShare \in Nat
      /\ Reward \in Nat /\ Precision \in Nat \ {0}
      /\ NewAcc \in Nat
  BY UpdateBound, NumbersAssumption DEF IInv, TypeOK
<1>3. CASE totalStaked = 0
  BY <1>1, <1>2, <1>3 DEF NewAcc
<1>4. CASE totalStaked # 0
  <2> DEFINE b == height - lastRewardBlock
             old == (b * Reward) * Precision
             new == ((b + 1) * Reward) * Precision
  <2>1. b \in Nat /\ height' - lastRewardBlock' = b + 1
    BY <1>1, <1>2
  <2>2. /\ NewAcc = accRewardPerShare + old \div totalStaked
        /\ NewAcc' = accRewardPerShare + new \div totalStaked
    BY <1>1, <1>4, <2>1 DEF NewAcc, BlockReward
  <2>3. old \in Nat /\ new \in Nat /\ old <= new
    <3> HIDE DEF b
    <3>1. b * Reward \in Nat /\ (b + 1) * Reward = b * Reward + Reward
      BY <1>2, <2>1
    <3>2. /\ (b * Reward) * Precision \in Nat /\ Reward * Precision \in Nat
          /\ (b * Reward + Reward) * Precision
               = (b * Reward) * Precision + Reward * Precision
      BY <1>2, <3>1
    <3> QED
      BY <3>1, <3>2
  <2> HIDE DEF old, new
  <2>4. /\ old \div totalStaked <= new \div totalStaked
        /\ old \div totalStaked \in Nat /\ new \div totalStaked \in Nat
    BY <1>2, <1>4, <2>3, DivMonotone, DivFacts
  <2>5. NewAcc' = NewAcc + (new \div totalStaked - old \div totalStaked)
    BY <1>2, <2>2, <2>4
  <2> QED
    BY <2>4, <2>5
<1> QED
  BY <1>3, <1>4

(* An account without a stake has nothing pending. *)
PendingSound == \A u \in Users : Pending(u) \in Nat /\ earned(u) = Pending(u)

LEMMA PendingFacts == IInv => PendingSound
<1> SUFFICES ASSUME IInv, NEW u \in Users
             PROVE  Pending(u) \in Nat /\ earned(u) = Pending(u)
  BY DEF PendingSound
<1>1. /\ amount[u] \in Nat /\ rewardDebt[u] \in Nat /\ accRewardPerShare \in Nat
      /\ NewAcc \in Nat
      /\ rewardDebt[u] <= Share(amount[u], NewAcc)
      /\ rewardDebt[u] <= Share(amount[u], accRewardPerShare)
  BY UpdateBound DEF IInv, TypeOK, SettlementNeverReverts
<1>2. Share(amount[u], NewAcc) \in Nat
  BY <1>1, ShareFacts
<1>3. Pending(u) \in Nat
  BY <1>1, <1>2 DEF Pending
<1>4. CASE amount[u] = 0
  <2>1. 0 * NewAcc = 0
    BY <1>1
  <2>2. Share(amount[u], NewAcc) = 0
    BY <1>4, <2>1, ZeroQuotient, NumbersAssumption DEF Share
  <2> QED
    BY <1>1, <1>3, <1>4, <2>2 DEF Pending, earned
<1>5. CASE amount[u] # 0
  BY <1>3, <1>5 DEF earned
<1> QED
  BY <1>3, <1>4, <1>5

(* A call that brings the rate up to date and pays w, if anybody. *)
LEMMA SettlementPays ==
  ASSUME IInv, IInv', updateReward, height' = height, NEW u \in Users,
         \/ UNCHANGED <<amount[u], rewardDebt[u], minted[u]>>
         \/ \E n \in Nat : Settle(u, n) /\ amount'[u] = n
  PROVE  Pending(u)' + minted'[u] >= Pending(u) + minted[u]
<1>1. /\ NewAcc' = NewAcc /\ Pending(u) \in Nat /\ Pending(u)' \in Nat
      /\ minted \in [Users -> Nat] /\ rewardDebt \in [Users -> Nat]
      /\ minted[u] \in Nat /\ NewAcc \in Nat
  <2>1. NewAcc' = NewAcc /\ NewAcc \in Nat
    BY FreshRate, UpdateBound DEF IInv, TypeOK
  <2>2. PendingSound /\ PendingSound'
    BY PendingFacts, PTL
  <2> QED
    BY <2>1, <2>2 DEF IInv, TypeOK, PendingSound
<1>2. Pending(u)' = Share(amount'[u], NewAcc) - rewardDebt'[u]
  BY <1>1 DEF Pending, Share
<1>3. CASE UNCHANGED <<amount[u], rewardDebt[u], minted[u]>>
  BY <1>1, <1>2, <1>3 DEF Pending
<1>4. CASE \E n \in Nat : Settle(u, n) /\ amount'[u] = n
  <2>1. minted'[u] = minted[u] + Pending(u)
    BY <1>1, <1>4 DEF Settle
  <2> QED
    BY <1>1, <2>1
<1> QED
  BY <1>3, <1>4

(* What an account was paid and is promised never shrinks. *)
THEOREM PromisesAreKept == Spec => EarnedOnlyGrows
<1>1. IInv /\ IInv' /\ [Next]_vars =>
        [\A u \in Users : earned(u)' + minted'[u] >= earned(u) + minted[u]]_vars
  <2> SUFFICES ASSUME IInv, IInv', [Next]_vars, NEW u \in Users
               PROVE  Pending(u)' + minted'[u] >= Pending(u) + minted[u]
    <3>1. IInv /\ IInv' => PendingSound /\ PendingSound'
      BY PendingFacts, PTL
    <3> QED
      BY <3>1 DEF PendingSound, vars
  <2>1. /\ minted \in [Users -> Nat] /\ rewardDebt \in [Users -> Nat]
        /\ amount \in [Users -> Nat] /\ Pending(u) \in Nat /\ NewAcc \in Nat
    BY PendingFacts, UpdateBound DEF IInv, TypeOK, PendingSound
  <2>2. ASSUME NEW w \in Users, NEW n \in Nat, updateReward, Settle(w, n), height' = height,
               amount' = [amount EXCEPT ![w] = n]
        PROVE  Pending(u)' + minted'[u] >= Pending(u) + minted[u]
    <3>1. CASE w = u
      BY <2>1, <2>2, <3>1, SettlementPays
    <3>2. CASE w # u
      <4>1. UNCHANGED <<amount[u], rewardDebt[u], minted[u]>>
        BY <2>1, <2>2, <3>2 DEF Settle
      <4> QED
        BY <2>2, <4>1, SettlementPays
    <3> QED
      BY <3>1, <3>2
  <2>3. ASSUME NEW w \in Users, NEW value \in 1..MaxStaked, stake(w, value)
        PROVE  Pending(u)' + minted'[u] >= Pending(u) + minted[u]
    <3>1. value \in Nat /\ amount[w] + value \in Nat
      BY <2>1, BoundsAssumption
    <3> QED
      BY <2>2, <2>3, <3>1 DEF stake
  <2>4. ASSUME NEW w \in Users, NEW value \in 1..MaxStaked, unstake(w, value)
        PROVE  Pending(u)' + minted'[u] >= Pending(u) + minted[u]
    <3>1. amount[w] - value \in Nat
      BY <2>1, <2>4, BoundsAssumption DEF unstake
    <3> QED
      BY <2>2, <2>4, <3>1 DEF unstake
  <2>5. ASSUME NEW w \in Users, claim(w)
        PROVE  Pending(u)' + minted'[u] >= Pending(u) + minted[u]
    <3>1. amount[w] \in Nat /\ amount' = [amount EXCEPT ![w] = amount[w]]
      BY <2>1, <2>5 DEF claim
    <3> QED
      BY <2>2, <2>5, <3>1 DEF claim
  <2>6. CASE poke
    <3>1. updateReward /\ height' = height /\ UNCHANGED <<amount[u], rewardDebt[u], minted[u]>>
      BY <2>6 DEF poke, userVars
    <3> QED
      BY <3>1, SettlementPays
  <2>7. CASE UNCHANGED <<height, rewardVars, userVars>>
    <3>1. /\ height' = height /\ lastRewardBlock' = lastRewardBlock
          /\ accRewardPerShare' = accRewardPerShare /\ totalStaked' = totalStaked
          /\ UNCHANGED <<amount, rewardDebt, minted>>
      BY <2>7 DEF rewardVars, userVars
    <3>2. Pending(u)' = Pending(u)
      BY <3>1 DEF Pending, Share, NewAcc, BlockReward
    <3> QED
      BY <2>1, <3>1, <3>2
  <2>8. CASE AdvanceBlock
    <3>1. PICK d \in Nat : NewAcc' = NewAcc + d
      BY <2>8, LaterRate
    <3>2. UNCHANGED <<amount, rewardDebt, minted>>
      BY <2>8 DEF AdvanceBlock, userVars
    <3>3. Share(amount[u], NewAcc) <= Share(amount[u], NewAcc + d)
      BY <2>1, ShareGrows
    <3>4. Pending(u)' = Share(amount[u], NewAcc + d) - rewardDebt[u]
      BY <3>1, <3>2 DEF Pending, Share
    <3>6. amount[u] \in Nat /\ NewAcc + d \in Nat
      BY <2>1
    <3>5. /\ Share(amount[u], NewAcc) \in Nat /\ Share(amount[u], NewAcc + d) \in Nat
          /\ rewardDebt[u] \in Nat /\ minted[u] \in Nat
      BY <2>1, <3>6, ShareFacts
    <3> QED
      BY <3>2, <3>3, <3>4, <3>5 DEF Pending
  <2>9. ASSUME \/ \E p \in Pools \cup {NoPool} : updateLendingPool(p)
               \/ emergencyWithdraw \/ receive
               \/ \E p \in Pools : Accrue(p)
               \/ UNCHANGED vars
        PROVE  UNCHANGED <<height, rewardVars, userVars>>
    BY <2>9 DEF updateLendingPool, emergencyWithdraw, receive, Accrue, vars
  <2> QED
    BY <2>3, <2>4, <2>5, <2>6, <2>7, <2>8, <2>9 DEF Next, OwnerStep
<1> QED
  BY <1>1, InitIInv, NextIInv, PTL DEF Spec, EarnedOnlyGrows

=============================================================================
