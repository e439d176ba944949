------------------------------ MODULE VoteToken ------------------------------
(***************************************************************************)
(* VoteToken.sol: an ERC20 whose every mint and transfer also writes the   *)
(* voting-weight checkpoints that getPastVotes answers from.               *)
(*                                                                         *)
(* A transaction is one action.  Several transactions may share a block;   *)
(* AdvanceBlock is the chain moving on.  transferFrom reaches this state   *)
(* through the same _update as transfer, the allowance being the library's *)
(* business, so Transfer stands for both.  The contract has no entry that  *)
(* burns, so _update's branch for it is unreachable and left out.          *)
(***************************************************************************)
EXTENDS Sums, Checkpoints

CONSTANTS Users,      \* the token holders
          Owner,      \* the deployer, who owns the token
          InitialSupply,
          MaxSupply,  \* bound on the supply explored
          MaxBlock    \* bound on the blocks explored

ASSUME UsersAssumption == IsFiniteSet(Users) /\ Owner \in Users
ASSUME BoundsAssumption ==
    InitialSupply \in Nat /\ MaxSupply \in Nat /\ MaxBlock \in Nat

VARIABLES height,                  \* block.number
          balanceOf, totalSupply,  \* the ERC20 state
          checkpoints,             \* _checkpoints
          totalSupplyCheckpoints   \* _totalSupplyCheckpoints

tokenVars == <<height, balanceOf, totalSupply, checkpoints, totalSupplyCheckpoints>>

(* The views.  The two about the past answer for earlier blocks only. *)
getVotes(u) == CurrentVotes(checkpoints[u])
getPastVotes(u, b) == VotesAt(checkpoints[u], b)
getPastTotalSupply(b) == VotesAt(totalSupplyCheckpoints, b)
PastBlock(b) == b < height

(* The constructor mints the initial supply to the owner, in block 1. *)
TokenInit ==
    /\ height = 1
    /\ balanceOf = [u \in Users |-> IF u = Owner THEN InitialSupply ELSE 0]
    /\ totalSupply = InitialSupply
    /\ checkpoints =
         [u \in Users |-> IF u = Owner /\ InitialSupply > 0
                          THEN WriteCheckpoint(<<>>, 1, InitialSupply) ELSE <<>>]
    /\ totalSupplyCheckpoints = WriteCheckpoint(<<>>, 1, InitialSupply)

(* Mutant: a mint that leaves the supply's checkpoints alone. *)
MintUncheckpointed(to, value) ==
    /\ totalSupply + value <= MaxSupply
    /\ balanceOf' = [balanceOf EXCEPT ![to] = balanceOf[to] + value]
    /\ totalSupply' = totalSupply + value
    /\ checkpoints' = [checkpoints EXCEPT ![to] = WriteCheckpoint(@, height, getVotes(to) + value)]
    /\ UNCHANGED <<height, totalSupplyCheckpoints>>

(* mint: a mint of nothing still writes a supply checkpoint. *)
Mint(to, value) ==
    /\ totalSupply + value <= MaxSupply
    /\ balanceOf' = [balanceOf EXCEPT ![to] = balanceOf[to] + value]
    /\ totalSupply' = totalSupply + value
    /\ totalSupplyCheckpoints' =
         WriteCheckpoint(totalSupplyCheckpoints, height, totalSupply + value)
    /\ checkpoints' =
         IF value > 0
         THEN [checkpoints EXCEPT ![to] = WriteCheckpoint(@, height, getVotes(to) + value)]
         ELSE checkpoints
    /\ UNCHANGED height

(* transfer to someone else: the checked subtraction from the votes must   *)
(* succeed as well as the one from the balance.                            *)
Transfer(from, to, value) ==
    /\ from # to
    /\ 0 < value /\ value <= balanceOf[from]
    /\ value <= getVotes(from)
    /\ balanceOf' = [balanceOf EXCEPT ![from] = balanceOf[from] - value,
                                      ![to]   = balanceOf[to] + value]
    /\ checkpoints' =
         [checkpoints EXCEPT ![from] = WriteCheckpoint(@, height, getVotes(from) - value),
                             ![to]   = WriteCheckpoint(@, height, getVotes(to) + value)]
    /\ UNCHANGED <<height, totalSupply, totalSupplyCheckpoints>>

(* A transfer of nothing or to oneself leaves the state as it was, so it   *)
(* is the stuttering step.                                                 *)

AdvanceBlock ==
    /\ height < MaxBlock
    /\ height' = height + 1
    /\ UNCHANGED <<balanceOf, totalSupply, checkpoints, totalSupplyCheckpoints>>

TokenNext ==
    \/ \E to \in Users, value \in 0..MaxSupply : Mint(to, value)
    \/ \E from, to \in Users, value \in 1..MaxSupply : Transfer(from, to, value)
    \/ AdvanceBlock

TokenSpec == TokenInit /\ [][TokenNext]_tokenVars

-----------------------------------------------------------------------------

TokenTypeOK ==
    /\ height \in Nat \ {0}
    /\ balanceOf \in [Users -> Nat]
    /\ totalSupply \in Nat
    /\ checkpoints \in [Users -> Seq(Checkpoint)]
    /\ \A u \in Users : IsHistory(checkpoints[u])
    /\ IsHistory(totalSupplyCheckpoints)

(* The votes a holder has are its tokens, however the two ledgers were     *)
(* moved: the subtraction from the votes never reverts a transfer the      *)
(* balance allows, and nobody proposes with tokens it has sold.            *)
VotesTrackBalances ==
    /\ \A u \in Users : getVotes(u) = balanceOf[u]
    /\ SumOf(balanceOf) = totalSupply

(* Every weight a vote in a past block can be counted with was backed by   *)
(* supply in that block: over all holders the weights add up to            *)
(* getPastTotalSupply.                                                     *)
PastVotesConserved ==
    \A b \in 0..(height - 1) :
        SumOf([u \in Users |-> getPastVotes(u, b)]) = getPastTotalSupply(b)

(* What the token says of a past block never changes again, whatever is    *)
(* minted or transferred later: a vote cannot be bought after the snapshot.*)
PastVotesFixed ==
    [][\A b \in 0..(height - 1) :
          /\ \A u \in Users : getPastVotes(u, b)' = getPastVotes(u, b)
          /\ getPastTotalSupply(b)' = getPastTotalSupply(b)]_tokenVars

=============================================================================
