-------------------------- MODULE CheckpointSearch --------------------------
(***************************************************************************)
(* _checkpointsLookup of VoteToken.sol, the binary search behind           *)
(* getPastVotes and getPastTotalSupply, one step per loop iteration.       *)
(* Indexes are the contract's, from 0; element i is ckpts[i + 1].          *)
(***************************************************************************)
EXTENDS Checkpoints

CONSTANTS Histories,  \* the arrays the search is run on
          Blocks      \* the block numbers it is asked about

ASSUME HistoriesAssumption == \A c \in Histories : IsHistory(c)
ASSUME BlocksAssumption == Blocks \subseteq Nat

VARIABLES ckpts, blockNumber,  \* the arguments
          pc,                  \* "start", "loop" or "done"
          lower, upper,        \* the loop's bounds
          result               \* the returned weight

searchVars == <<ckpts, blockNumber, pc, lower, upper, result>>

SearchInit ==
    /\ ckpts \in Histories
    /\ blockNumber \in Blocks
    /\ pc = "start"
    /\ lower = 0 /\ upper = 0 /\ result = 0

Return(v) ==
    /\ pc' = "done"
    /\ result' = v
    /\ UNCHANGED <<ckpts, blockNumber, lower, upper>>

Elem(i) == ckpts[i + 1]

(* The early returns, in the order the code tries them. *)
ReturnEmpty ==
    /\ pc = "start"
    /\ Len(ckpts) = 0
    /\ Return(0)

ReturnNewest ==
    /\ pc = "start"
    /\ Len(ckpts) > 0
    /\ Elem(Len(ckpts) - 1).fromBlock <= blockNumber
    /\ Return(Elem(Len(ckpts) - 1).votes)

ReturnBeforeFirst ==
    /\ pc = "start"
    /\ Len(ckpts) > 0
    /\ Elem(Len(ckpts) - 1).fromBlock > blockNumber
    /\ Elem(0).fromBlock > blockNumber
    /\ Return(0)

EnterLoop ==
    /\ pc = "start"
    /\ Len(ckpts) > 0
    /\ Elem(Len(ckpts) - 1).fromBlock > blockNumber
    /\ Elem(0).fromBlock <= blockNumber
    /\ pc' = "loop"
    /\ lower' = 0
    /\ upper' = Len(ckpts) - 1
    /\ UNCHANGED <<ckpts, blockNumber, result>>

Center == upper - (upper - lower) \div 2

IterateHit ==
    /\ pc = "loop" /\ upper > lower
    /\ Elem(Center).fromBlock = blockNumber
    /\ Return(Elem(Center).votes)

(* Mutant: the checkpoint found is stepped over. *)
IterateUpPastCenter ==
    /\ pc = "loop" /\ upper > lower
    /\ Elem(Center).fromBlock < blockNumber
    /\ lower' = Center + 1
    /\ UNCHANGED <<ckpts, blockNumber, pc, upper, result>>

IterateUp ==
    /\ pc = "loop" /\ upper > lower
    /\ Elem(Center).fromBlock < blockNumber
    /\ lower' = Center
    /\ UNCHANGED <<ckpts, blockNumber, pc, upper, result>>

IterateDown ==
    /\ pc = "loop" /\ upper > lower
    /\ Elem(Center).fromBlock > blockNumber
    /\ upper' = Center - 1
    /\ UNCHANGED <<ckpts, blockNumber, pc, lower, result>>

ExitLoop ==
    /\ pc = "loop" /\ ~(upper > lower)
    /\ Return(Elem(lower).votes)

SearchNext ==
    \/ ReturnEmpty \/ ReturnNewest \/ ReturnBeforeFirst \/ EnterLoop
    \/ IterateHit \/ IterateUp \/ IterateDown \/ ExitLoop

SearchSpec == SearchInit /\ [][SearchNext]_searchVars

-----------------------------------------------------------------------------

SearchTypeOK ==
    /\ IsHistory(ckpts) /\ blockNumber \in Nat
    /\ pc \in {"start", "loop", "done"}
    /\ lower \in Nat /\ upper \in Nat /\ result \in Nat

(* While it loops, the answer lies between the bounds: the lower one is at *)
(* or before the block, and everything beyond the upper one after it.      *)
LoopInvariant ==
    pc = "loop" =>
        /\ lower <= upper /\ upper < Len(ckpts)
        /\ Elem(lower).fromBlock <= blockNumber
        /\ upper + 1 < Len(ckpts) => blockNumber < Elem(upper + 1).fromBlock

(* The search returns the weight in force at the block, for every array    *)
(* and every block: what getPastVotes hands to Gov.castVote.               *)
SearchCorrect == pc = "done" => result = VotesAt(ckpts, blockNumber)

(* Every iteration at least halves the range, so a history of n checkpoints *)
(* costs about log2(n) reads and voting with a long one stays affordable.   *)
LoopHalves ==
    [][pc = "loop" /\ pc' = "loop" =>
          upper' - lower' <= (upper - lower) \div 2]_searchVars

=============================================================================
