----------------------------- MODULE StakingPool -----------------------------
(***************************************************************************)
(* StakingPool.sol: ether is staked, KK tokens are minted to the stakers   *)
(* block by block, and the ether sits in a lending pool when one is set.   *)
(*                                                                         *)
(* A transaction is one action.  Ether is paid with the 2300 gas of        *)
(* transfer, so the payee cannot call back in the middle.  The pool and    *)
(* WETH are external: supply and withdraw move exactly what they are asked *)
(* to move, or revert.                                                     *)
(***************************************************************************)
EXTENDS Sums

CONSTANTS Users,       \* the accounts that stake
          Pools,       \* the lending pools the owner may choose from
          NoPool,      \* address(0)
          Reward,      \* REWARD_PER_BLOCK
          Precision,   \* 1e12, the scale of accRewardPerShare
          MaxStaked,   \* bound on totalStaked
          MaxBlock,    \* bound on the blocks explored
          MaxChanges,  \* bound on the calls of stake and unstake
          MaxGiven     \* bound on donations and interest

ASSUME UsersAssumption == IsFiniteSet(Users) /\ IsFiniteSet(Pools) /\ NoPool \notin Pools
ASSUME NumbersAssumption == Reward \in Nat /\ Precision \in Nat \ {0}
ASSUME BoundsAssumption ==
    MaxStaked \in Nat /\ MaxBlock \in Nat /\ MaxChanges \in Nat /\ MaxGiven \in Nat

VARIABLES height,                            \* block.number, and the block's time
          amount, rewardDebt, stakingTime,   \* userInfo
          totalStaked, lastRewardBlock, accRewardPerShare,
          lendingPool,
          ether,     \* the contract's own balance
          supplied,  \* its position in each lending pool
          minted,    \* the KK tokens minted to each staker
          rewarded,  \* history: the rewards of the blocks settled with stakers
          changes,   \* history: the calls of stake and unstake
          given,     \* history: ether received other than as stakes
          taken      \* history: ether the owner took

rewardVars == <<lastRewardBlock, accRewardPerShare, rewarded>>
userVars == <<amount, rewardDebt, stakingTime, totalStaked, minted, changes>>
etherVars == <<lendingPool, ether, supplied, given, taken>>
vars == <<height, rewardVars, userVars, etherVars>>

Init ==
    /\ height = 1 /\ lastRewardBlock = 1 /\ accRewardPerShare = 0
    /\ amount = [u \in Users |-> 0] /\ rewardDebt = [u \in Users |-> 0]
    /\ stakingTime = [u \in Users |-> 0] /\ minted = [u \in Users |-> 0]
    /\ totalStaked = 0 /\ rewarded = 0 /\ changes = 0
    /\ lendingPool \in Pools \cup {NoPool}
    /\ ether = 0 /\ supplied = [p \in Pools |-> 0] /\ given = 0 /\ taken = 0

-----------------------------------------------------------------------------
(* updateReward: blocks without stakers earn nothing for anybody. *)
BlockReward ==
    IF totalStaked = 0 THEN 0 ELSE (height - lastRewardBlock) * Reward

NewAcc ==
    IF totalStaked = 0 THEN accRewardPerShare
    ELSE accRewardPerShare + (BlockReward * Precision) \div totalStaked

updateReward ==
    /\ accRewardPerShare' = NewAcc
    /\ lastRewardBlock' = height
    /\ rewarded' = rewarded + BlockReward

(* What the share a earns at the rate acc, whole tokens only. *)
Share(a, acc) == (a * acc) \div Precision

Pending(u) == Share(amount[u], NewAcc) - rewardDebt[u]

earned(u) == IF amount[u] = 0 THEN 0 ELSE Pending(u)

(* Mutants of Settle: the debt is that of the stake before the change; it  *)
(* is computed at the rate of the last settlement, before this one.        *)
SettleBeforeChange(u, newAmount) ==
    /\ Pending(u) >= 0
    /\ minted' = [minted EXCEPT ![u] = minted[u] + Pending(u)]
    /\ rewardDebt' = [rewardDebt EXCEPT ![u] = Share(amount[u], NewAcc)]

SettleAtOldRate(u, newAmount) ==
    /\ Pending(u) >= 0
    /\ minted' = [minted EXCEPT ![u] = minted[u] + Pending(u)]
    /\ rewardDebt' = [rewardDebt EXCEPT ![u] = Share(newAmount, accRewardPerShare)]

(* Settling u: the pending reward is minted (a subtraction below zero      *)
(* reverts), and the debt is what the new stake would have earned so far.  *)
Settle(u, newAmount) ==
    /\ Pending(u) >= 0
    /\ minted' = [minted EXCEPT ![u] = minted[u] + Pending(u)]
    /\ rewardDebt' = [rewardDebt EXCEPT ![u] = Share(newAmount, NewAcc)]

(* Mutant: a stake kept back from the pool.                                *)
SupplyNothing(value) == ether' = ether + value /\ UNCHANGED supplied

(* lendingPool.supply and lendingPool.withdraw. *)
SupplyStake(value) ==
    IF lendingPool = NoPool
    THEN ether' = ether + value /\ UNCHANGED supplied
    ELSE /\ supplied' = [supplied EXCEPT ![lendingPool] = supplied[lendingPool] + value]
         /\ UNCHANGED ether

DrawStake(value) ==
    IF lendingPool = NoPool
    THEN value <= ether /\ ether' = ether - value /\ UNCHANGED supplied
    ELSE /\ value <= supplied[lendingPool]
         /\ supplied' = [supplied EXCEPT ![lendingPool] = supplied[lendingPool] - value]
         /\ UNCHANGED ether

-----------------------------------------------------------------------------
(* Mutant of stake: the new stake shares the blocks before it. *)
stakeThenUpdates(u, value) ==
    LET acc == accRewardPerShare
                 + ((height - lastRewardBlock) * Reward * Precision)
                     \div (totalStaked + value)
    IN  /\ totalStaked + value <= MaxStaked /\ changes < MaxChanges
        /\ accRewardPerShare' = acc /\ lastRewardBlock' = height
        /\ rewarded' = rewarded + BlockReward
        /\ Share(amount[u], acc) >= rewardDebt[u]
        /\ minted' = [minted EXCEPT ![u] = @ + Share(amount[u], acc) - rewardDebt[u]]
        /\ rewardDebt' = [rewardDebt EXCEPT ![u] = Share(amount[u] + value, acc)]
        /\ amount' = [amount EXCEPT ![u] = amount[u] + value]
        /\ totalStaked' = totalStaked + value
        /\ SupplyStake(value)
        /\ changes' = changes + 1
        /\ UNCHANGED <<height, stakingTime, lendingPool, given, taken>>

(* A first stake settles nothing: amount and debt are zero. *)
stake(u, value) ==
    /\ totalStaked + value <= MaxStaked /\ changes < MaxChanges
    /\ updateReward
    /\ Settle(u, amount[u] + value)
    /\ stakingTime' = IF amount[u] > 0 THEN stakingTime
                      ELSE [stakingTime EXCEPT ![u] = height]
    /\ amount' = [amount EXCEPT ![u] = amount[u] + value]
    /\ totalStaked' = totalStaked + value
    /\ SupplyStake(value)
    /\ changes' = changes + 1
    /\ UNCHANGED <<height, lendingPool, given, taken>>

(* Mutant of unstake: the total is left alone. *)
unstakeKeepsTotal(u, value) ==
    /\ value <= amount[u] /\ changes < MaxChanges
    /\ updateReward
    /\ Settle(u, amount[u] - value)
    /\ amount' = [amount EXCEPT ![u] = amount[u] - value]
    /\ DrawStake(value)
    /\ changes' = changes + 1
    /\ UNCHANGED <<height, stakingTime, totalStaked, lendingPool, given, taken>>

unstake(u, value) ==
    /\ value <= amount[u] /\ changes < MaxChanges
    /\ updateReward
    /\ Settle(u, amount[u] - value)
    /\ stakingTime' = IF amount[u] = value THEN [stakingTime EXCEPT ![u] = 0]
                      ELSE stakingTime
    /\ amount' = [amount EXCEPT ![u] = amount[u] - value]
    /\ totalStaked' = totalStaked - value
    /\ DrawStake(value)
    /\ changes' = changes + 1
    /\ UNCHANGED <<height, lendingPool, given, taken>>

claim(u) ==
    /\ Pending(u) > 0
    /\ updateReward
    /\ Settle(u, amount[u])
    /\ UNCHANGED <<height, amount, stakingTime, totalStaked, changes>>
    /\ UNCHANGED etherVars

(* Anyone may call updateReward by itself. *)
poke ==
    /\ updateReward
    /\ UNCHANGED <<height, userVars, etherVars>>

(* The owner: the positions in the pools stay where they are. *)
updateLendingPool(p) ==
    /\ lendingPool' = p
    /\ UNCHANGED <<height, rewardVars, userVars, ether, supplied, given, taken>>

emergencyWithdraw ==
    /\ ether > 0
    /\ taken' = taken + ether
    /\ ether' = 0
    /\ UNCHANGED <<height, rewardVars, userVars, lendingPool, supplied, given>>

(* receive: ether from anybody. *)
receive ==
    /\ given < MaxGiven
    /\ given' = given + 1
    /\ ether' = ether + 1
    /\ UNCHANGED <<height, rewardVars, userVars, lendingPool, supplied, taken>>

(* A lending pool pays interest on what it holds. *)
Accrue(p) ==
    /\ given < MaxGiven /\ supplied[p] > 0
    /\ given' = given + 1
    /\ supplied' = [supplied EXCEPT ![p] = supplied[p] + 1]
    /\ UNCHANGED <<height, rewardVars, userVars, lendingPool, ether, taken>>

AdvanceBlock ==
    /\ height < MaxBlock
    /\ height' = height + 1
    /\ UNCHANGED <<rewardVars, userVars, etherVars>>

OwnerStep ==
    \/ \E p \in Pools \cup {NoPool} : updateLendingPool(p)
    \/ emergencyWithdraw

Next ==
    \/ \E u \in Users, value \in 1..MaxStaked : stake(u, value) \/ unstake(u, value)
    \/ \E u \in Users : claim(u)
    \/ poke \/ OwnerStep \/ receive
    \/ \E p \in Pools : Accrue(p)
    \/ AdvanceBlock

Spec == Init /\ [][Next]_vars

-----------------------------------------------------------------------------
(* The state is well formed; no unsigned amount goes below zero, and       *)
(* exactly the accounts with a stake have a staking time.                  *)
TypeOK ==
    /\ height \in Nat \ {0} /\ lastRewardBlock \in 1..height /\ accRewardPerShare \in Nat
    /\ amount \in [Users -> Nat] /\ rewardDebt \in [Users -> Nat]
    /\ stakingTime \in [Users -> Nat] /\ minted \in [Users -> Nat]
    /\ totalStaked \in Nat /\ rewarded \in Nat /\ changes \in Nat
    /\ lendingPool \in Pools \cup {NoPool}
    /\ ether \in Nat /\ supplied \in [Pools -> Nat] /\ given \in Nat /\ taken \in Nat
    /\ \A u \in Users : stakingTime[u] > 0 <=> amount[u] > 0

(* The divisor of every reward is the sum of the stakes it is shared by. *)
StakesAddUp == totalStaked = SumOf(amount)

(* pending = amount * acc / 1e12 - rewardDebt never underflows.  If it did *)
(* the staker could neither claim nor stake nor take the stake out again.  *)
SettlementNeverReverts ==
    \A u \in Users : rewardDebt[u] <= Share(amount[u], accRewardPerShare)

(* All that was minted or is owed stays within what the blocks rewarded,   *)
(* up to the rounding of one token unit per change of a stake: a stake can *)
(* be moved about, but not to be rewarded twice.                           *)
Owed(u) == minted[u] + Share(amount[u], accRewardPerShare) - rewardDebt[u]

RewardsBounded ==
    Precision * SumOf([u \in Users |-> Owed(u)])
        <= Precision * rewarded + (Precision - 1) * changes

(* What the view earned() promises an account only grows, whatever others  *)
(* do and however a block is shared, until the account itself is paid.     *)
EarnedOnlyGrows ==
    [][\A u \in Users : earned(u)' + minted'[u] >= earned(u) + minted[u]]_vars

(* Every wei is accounted for: in the contract, in a lending pool, or with *)
(* the owner.                                                              *)
EtherConserved ==
    ether + SumOf(supplied) + taken = totalStaked + given

(* The stakes are covered where the next unstake will look for them.       *)
Covered ==
    totalStaked <= IF lendingPool = NoPool THEN ether ELSE supplied[lendingPool]

(* Only the owner can put the stakes out of the stakers' reach: by another *)
(* pool, which leaves them in the old one, or by taking the ether.         *)
OnlyOwnerUncovers == [][Covered /\ ~OwnerStep => Covered']_vars

=============================================================================
