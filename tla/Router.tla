------------------------------- MODULE Router --------------------------------
(***************************************************************************)
(* UniswapV2Library over paths of pools, and what UniswapV2Router02 does   *)
(* to the pools.  A world w maps every pool to its record.                 *)
(*                                                                         *)
(* A path is a sequence of tokens; hop i goes from its i-th token to the   *)
(* next.  The library finds the pool of two tokens in the router's         *)
(* factory.  (_swap as committed declares vUSDCAmountOut at line 425 and   *)
(* reads amountOut at line 430; it is read as one name.)                   *)
(***************************************************************************)
EXTENDS Pair, Sequences

CONSTANTS Pools,
          TokensOf,     \* the two tokens of a pool, in the order of addresses
          RouterPools   \* the pools of the router's factory

(* One pool per pair of tokens in a factory. *)
ASSUME RouterAssumption ==
    /\ RouterPools \subseteq Pools
    /\ \A p, q \in RouterPools :
        {TokensOf[p][s] : s \in Sides} = {TokensOf[q][s] : s \in Sides} => p = q

Connects(p, a, b) == {TokensOf[p][s] : s \in Sides} = {a, b}
PoolFor(a, b) == CHOOSE p \in RouterPools : Connects(p, a, b)
SideOf(p, t) == IF TokensOf[p][0] = t THEN 0 ELSE 1

Hops(path) == 1 .. Len(path) - 1
PoolOf(path, i) == PoolFor(path[i], path[i + 1])
In(path, i) == SideOf(PoolOf(path, i), path[i])
ReserveIn(w, path, i) == w[PoolOf(path, i)].r[In(path, i)]
ReserveOut(w, path, i) == w[PoolOf(path, i)].r[Other(In(path, i))]

AllFunded(w, path) == \A i \in Hops(path) : Funded(w[PoolOf(path, i)].r)

-----------------------------------------------------------------------------
(* The amounts at each token of the path, from the first or from the last; *)
(* 0 stands for a require that fails.                                      *)
getAmountsOut(w, n, path) ==
    LET a[i \in 1 .. Len(path)] ==
            IF i = 1 THEN n
            ELSE getAmountOut(a[i - 1], ReserveIn(w, path, i - 1), ReserveOut(w, path, i - 1))
    IN  a

getAmountsIn(w, n, path) ==
    LET a[i \in 1 .. Len(path)] ==
            IF i = Len(path) THEN n
            ELSE IF a[i + 1] < ReserveOut(w, path, i)
            THEN getAmountIn(a[i + 1], ReserveIn(w, path, i), ReserveOut(w, path, i))
            ELSE 0
    IN  a

Quoted(amounts) == \A i \in DOMAIN amounts : amounts[i] > 0

-----------------------------------------------------------------------------
(* A hop: the pool pays its output to the next pool of the path. *)
Hop(w, path, i, out, now) ==
    LET swapped == [w EXCEPT ![PoolOf(path, i)] = Swapped(@, Out(Other(In(path, i)), out), now)]
    IN  IF i + 1 \in Hops(path)
        THEN [swapped EXCEPT ![PoolOf(path, i + 1)] = PayIn(@, In(path, i + 1), out)]
        ELSE swapped

HopAllowed(w, path, i, out, now) ==
    SwapAllowed(w[PoolOf(path, i)], Out(Other(In(path, i)), out), now)

(* Mutant: each hop asks for what the hop before it paid. *)
SwapAlongShifted(w, amounts, path, now) ==
    LET f[i \in {0} \cup Hops(path)] ==
            IF i = 0 THEN w ELSE Hop(f[i - 1], path, i, amounts[i], now)
    IN  f

(* _swap: the worlds after 0, 1, ... hops with the amounts quoted. *)
SwapAlong(w, amounts, path, now) ==
    LET f[i \in {0} \cup Hops(path)] ==
            IF i = 0 THEN w ELSE Hop(f[i - 1], path, i, amounts[i + 1], now)
    IN  f

SwapAlongAllowed(w, amounts, path, now) ==
    \A i \in Hops(path) :
        HopAllowed(SwapAlong(w, amounts, path, now)[i - 1], path, i, amounts[i + 1], now)

(* _swapSupportingFeeOnTransferTokens: each hop is priced by what its pool *)
(* has received beyond its reserves.                                       *)
Surplus(w, path, i) ==
    LET p == w[PoolOf(path, i)] IN p.b[In(path, i)] - p.r[In(path, i)]

SupportingOut(w, path, i) ==
    getAmountOut(Surplus(w, path, i), ReserveIn(w, path, i), ReserveOut(w, path, i))

SwapSupporting(w, path, now) ==
    LET f[i \in {0} \cup Hops(path)] ==
            IF i = 0 THEN w
            ELSE Hop(f[i - 1], path, i, SupportingOut(f[i - 1], path, i), now)
    IN  f

SwapSupportingAllowed(w, path, now) ==
    \A i \in Hops(path) :
        LET before == SwapSupporting(w, path, now)[i - 1]
        IN  /\ Surplus(before, path, i) > 0
            /\ HopAllowed(before, path, i, SupportingOut(before, path, i), now)

(* The user pays the first pool of the path. *)
PayFirst(w, path, n) == [w EXCEPT ![PoolOf(path, 1)] = PayIn(@, In(path, 1), n)]
LastWorld(path) == Len(path) - 1

-----------------------------------------------------------------------------
(* _addLiquidity: the amounts that enter a pool with reserves r when d is  *)
(* offered; side s is tokenA.                                              *)
OptimalA(r, d, s) == quote(d[Other(s)], r[Other(s)], r[s])

OptimalAmounts(r, d, s) ==
    LET o == Other(s)
        optimalB == quote(d[s], r[s], r[o])
    IN  IF r[0] = 0 /\ r[1] = 0 THEN d
        ELSE IF optimalB <= d[o] THEN [d EXCEPT ![o] = optimalB]
        ELSE [d EXCEPT ![s] = OptimalA(r, d, s)]

=============================================================================
