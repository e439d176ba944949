-------------------------------- MODULE Sums --------------------------------
(***************************************************************************)
(* The sum of a function into the naturals: the total of a mapping of      *)
(* balances, stakes, deposits or votes.  It is the number of unit coins    *)
(* the mapping stands for, so that its properties are facts about finite   *)
(* sets; no recursion is involved.                                         *)
(***************************************************************************)
EXTENDS Integers, FiniteSets

(* The coins of u are <<u, 1>>, ..., <<u, f[u]>>. *)
CoinsOf(u, n) == {u} \X (1..n)

Coins(f) == UNION {CoinsOf(u, f[u]) : u \in DOMAIN f}

SumOf(f) == Cardinality(Coins(f))

=============================================================================
