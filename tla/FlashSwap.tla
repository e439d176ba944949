------------------------------ MODULE FlashSwap ------------------------------
(***************************************************************************)
(* FlashSwap.sol: borrows one token from pool A, sells it in pool B and    *)
(* repays pool A in the other token, all within pool A's swap.  h is what  *)
(* the contract itself holds of the two tokens; s is the side borrowed     *)
(* (tokenA), which is the same in both pools.                              *)
(***************************************************************************)
EXTENDS Router

CONSTANTS PoolA, PoolB   \* of the two factories, over the same two tokens

ASSUME FlashSwapAssumption ==
    PoolA \in Pools /\ PoolB \in Pools \ {PoolA} /\ TokensOf[PoolA] = TokensOf[PoolB]

(* Mutant: the compensation for the division is left out. *)
RepayAmountTruncated(n) == (n * 1000) \div 997

RepayAmount(n) == (n * 1000) \div 997 + 1

(* What pool A asks for in the other token, by its reserves. *)
AmountBack(w, s, repay) == getAmountIn(repay, w[PoolA].r[Other(s)], w[PoolA].r[s])

(* What pool B pays for n. *)
AmountSold(w, s, n) == getAmountOut(n, w[PoolB].r[s], w[PoolB].r[Other(s)])

(* checkFlashSwapConditions: the profit it announces, 0 with a reason or   *)
(* when the view reverts.                                                  *)
CheckedProfit(w, s, n) ==
    LET repay == (n * 1000) \div 997 + 1
    IN  IF /\ n > 0 /\ n <= w[PoolA].r[s]
           /\ Funded(w[PoolA].r) /\ Funded(w[PoolB].r)
           /\ repay < w[PoolA].r[s]
           /\ AmountSold(w, s, n) > AmountBack(w, s, repay)
        THEN AmountSold(w, s, n) - AmountBack(w, s, repay)
        ELSE 0

(* executeFlashSwap with the callback of pool A: the world after it, and   *)
(* what the owner is sent.                                                 *)
Sold(w, s, n, now) ==
    [w EXCEPT ![PoolA] = SentOut(@, Out(s, n)),
              ![PoolB] = Swapped(PayIn(@, s, n), Out(Other(s), AmountSold(w, s, n)), now)]

Repaid(w, s, n, now) ==
    [Sold(w, s, n, now) EXCEPT
        ![PoolA] = PayIn(@, Other(s), AmountBack(w, s, RepayAmount(n)))]

Executed(w, s, n, now) == [Repaid(w, s, n, now) EXCEPT ![PoolA] = Update(@, now)]

OwnerGets(w, h, s, n) ==
    [h EXCEPT ![Other(s)] = @ + AmountSold(w, s, n) - AmountBack(w, s, RepayAmount(n))]

ExecuteAllowed(w, h, s, n, now) ==
    /\ n > 0
    /\ SwapBegins(w[PoolA], Out(s, n))
    /\ Funded(w[PoolB].r)
    /\ SwapAllowed(PayIn(w[PoolB], s, n), Out(Other(s), AmountSold(w, s, n)), now)
    /\ Funded(w[PoolA].r) /\ RepayAmount(n) < w[PoolA].r[s]
    /\ AmountBack(w, s, RepayAmount(n)) <= h[Other(s)] + AmountSold(w, s, n)
    /\ SwapEnds(Repaid(w, s, n, now)[PoolA], Out(s, n), now)

=============================================================================
