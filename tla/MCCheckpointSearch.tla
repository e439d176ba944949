------------------------- MODULE MCCheckpointSearch -------------------------
(* All arrays with checkpoints at blocks 1..MaxBlock, weights distinct from *)
(* their neighbours' where it matters: every assignment of Weights.         *)
EXTENDS CheckpointSearch, SequencesExt

CONSTANTS MaxBlock, Weights

MCHistories ==
    UNION {LET order == SetToSortSeq(S, <)
               n == Len(order)
           IN  {[i \in 1..n |-> [fromBlock |-> order[i], votes |-> w[i]]] :
                    w \in [1..n -> Weights]} : S \in SUBSET (1..MaxBlock)}

MCBlocks == 0..(MaxBlock + 1)


=============================================================================
