-------------------------------- MODULE View ---------------------------------
(***************************************************************************)
(* What a reader of a contract's state is promised: for every key the      *)
(* answer shown is the one the contract gave to that very key, in a block  *)
(* of the chain, and no answer is followed by an earlier one.  A request   *)
(* that fails may blank an answer.                                         *)
(***************************************************************************)
EXTENDS Naturals

CONSTANTS Keys,
          Null    \* no answer

VARIABLES head,   \* the newest block of the chain
          answer  \* for every key what is shown: Null, or the key and block asked

vars == <<head, answer>>

Init == head \in Nat /\ answer = [k \in Keys |-> Null]

Grow == head' = head + 1 /\ UNCHANGED answer

(* One request answers many keys, all of them in the same block.           *)
Show(K, b) ==
    /\ \A k \in K : answer[k] = Null \/ answer[k].at <= b
    /\ answer' = [k \in Keys |-> IF k \in K THEN [of |-> k, at |-> b] ELSE answer[k]]
    /\ UNCHANGED head

Blank(K) ==
    /\ answer' = [k \in Keys |-> IF k \in K THEN Null ELSE answer[k]]
    /\ UNCHANGED head

Next == Grow \/ \E K \in SUBSET Keys : Blank(K) \/ \E b \in 1..head : Show(K, b)

Spec == Init /\ [][Next]_vars

=============================================================================
