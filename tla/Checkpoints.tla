----------------------------- MODULE Checkpoints -----------------------------
(***************************************************************************)
(* The checkpoint arrays of VoteToken.sol: one per account and one for the *)
(* total supply.  A checkpoint says which weight holds from a block on.    *)
(*                                                                         *)
(* VotesAt states what an array says of a block; the loop that computes it *)
(* in the contract is the state machine of CheckpointSearch.               *)
(***************************************************************************)
EXTENDS Integers, Sequences

Checkpoint == [fromBlock : Nat, votes : Nat]

(* The contract only ever appends, at the block of the transaction, so the *)
(* arrays are strictly ordered by block.                                   *)
IsHistory(c) ==
    /\ c \in Seq(Checkpoint)
    /\ \A i, j \in DOMAIN c : i < j => c[i].fromBlock < c[j].fromBlock

(* getVotes: the weight of the newest checkpoint. *)
CurrentVotes(c) == IF c = <<>> THEN 0 ELSE c[Len(c)].votes

(* Mutant: a later write replaces the newest entry whatever its block. *)
WriteCheckpointReplaces(c, block, weight) ==
    IF c # <<>>
    THEN [c EXCEPT ![Len(c)] = [fromBlock |-> block, votes |-> weight]]
    ELSE Append(c, [fromBlock |-> block, votes |-> weight])

(* _writeCheckpoint: a second write in a block replaces the first. *)
WriteCheckpoint(c, block, weight) ==
    IF c # <<>> /\ c[Len(c)].fromBlock = block
    THEN [c EXCEPT ![Len(c)] = [fromBlock |-> block, votes |-> weight]]
    ELSE Append(c, [fromBlock |-> block, votes |-> weight])

(* The checkpoints in force at a block: at or before it, and the next one  *)
(* after it.  In an ordered array there is at most one.                    *)
InForce(c, block) ==
    {i \in DOMAIN c : /\ c[i].fromBlock <= block
                      /\ i < Len(c) => block < c[i + 1].fromBlock}

VotesAt(c, block) ==
    IF InForce(c, block) = {}
    THEN 0
    ELSE c[CHOOSE i \in InForce(c, block) : TRUE].votes

=============================================================================
