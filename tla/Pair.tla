-------------------------------- MODULE Pair ---------------------------------
(***************************************************************************)
(* UniswapV2Pair.sol with the liquidity token it extends, and the pricing  *)
(* of UniswapV2Library.sol.  A pool is a record; each call is an operator  *)
(* from the pool before to the pool after, with a predicate that says when *)
(* it does not revert.  The actions are in Amm, which composes pools.      *)
(*                                                                         *)
(* Sides are 0 and 1.  Both tokens are plain ERC20s.  Prices are scaled by *)
(* Q (2^112 in the code); uint112 is MaxReserve, uint32 is TimeMod.        *)
(***************************************************************************)
EXTENDS Integers

CONSTANTS MinLiquidity,  \* MINIMUM_LIQUIDITY
          Q,             \* the scale of UQ112x112
          MaxReserve,    \* type(uint112).max
          TimeMod        \* 2**32

ASSUME PairAssumption ==
    /\ MinLiquidity \in Nat \ {0} /\ Q \in Nat \ {0}
    /\ MaxReserve \in Nat /\ TimeMod \in Nat \ {0}

Sides == {0, 1}
Other(s) == 1 - s

(* Who holds liquidity tokens: address(0), the pair itself, the providers  *)
(* (as one), feeTo.                                                        *)
Holders == {"zero", "pair", "user", "feeTo"}

Pool == [r : [Sides -> Nat],      \* reserve0, reserve1
         b : [Sides -> Nat],      \* the pair's balance of each token
         supply : Nat, lp : [Holders -> Nat],
         kLast : Nat,
         last : Nat,              \* blockTimestampLast
         cum : [Sides -> Nat]]    \* price0CumulativeLast, price1CumulativeLast

EmptyPool ==
    [r |-> [s \in Sides |-> 0], b |-> [s \in Sides |-> 0],
     supply |-> 0, lp |-> [h \in Holders |-> 0],
     kLast |-> 0, last |-> 0, cum |-> [s \in Sides |-> 0]]

Lesser(a, b) == IF a < b THEN a ELSE b

(* Math.sqrt: the integer below the root. *)
Sqrt(y) == CHOOSE z \in 0 .. MaxReserve : z * z <= y /\ y < (z + 1) * (z + 1)

K(r) == r[0] * r[1]

Funded(r) == \A s \in Sides : r[s] > 0

(* The price of token s in the other token. *)
PriceAt(r, s) == (r[Other(s)] * Q) \div r[s]

-----------------------------------------------------------------------------
(* UniswapV2ERC20: _mint, _burn and _transfer. *)
MintShares(p, to, n) == [p EXCEPT !.supply = @ + n, !.lp[to] = @ + n]
BurnShares(p, n) == [p EXCEPT !.supply = @ - n, !.lp["pair"] = @ - n]
MoveShares(p, from, to, n) ==
    [p EXCEPT !.lp = [h \in Holders |->
        p.lp[h] + (IF h = to THEN n ELSE 0) - (IF h = from THEN n ELSE 0)]]

(* A transfer of tokens to the pair, which the pair is not told of. *)
PayIn(p, s, n) == [p EXCEPT !.b[s] = @ + n]

-----------------------------------------------------------------------------
(* _update at the time now.  The difference of the two timestamps is       *)
(* checked: after a wrap it reverts.                                       *)
Stamp(now) == now % TimeMod

UpdateAllowed(p, now) ==
    /\ \A s \in Sides : p.b[s] <= MaxReserve
    /\ Stamp(now) >= p.last

(* Mutant: the seconds since the last call are counted at the new price. *)
AccruedAtNewPrice(p, now) ==
    LET elapsed == Stamp(now) - p.last
    IN  [s \in Sides |->
            IF elapsed > 0 /\ Funded(p.b) THEN p.cum[s] + PriceAt(p.b, s) * elapsed
            ELSE p.cum[s]]

Accrued(p, now) ==
    LET elapsed == Stamp(now) - p.last
    IN  [s \in Sides |->
            IF elapsed > 0 /\ Funded(p.r) THEN p.cum[s] + PriceAt(p.r, s) * elapsed
            ELSE p.cum[s]]

Update(p, now) ==
    [p EXCEPT !.cum = Accrued(p, now), !.r = p.b, !.last = Stamp(now)]

(* _mintFee: a sixth of the growth of the root of k, in shares. *)
FeeShares(p) ==
    LET rootK == Sqrt(K(p.r))
        rootKLast == Sqrt(p.kLast)
    IN  IF rootK > rootKLast
        THEN (p.supply * (rootK - rootKLast)) \div (rootK * 5 + rootKLast)
        ELSE 0

MintFee(p, feeOn) ==
    IF p.kLast = 0 THEN p
    ELSE IF feeOn THEN MintShares(p, "feeTo", FeeShares(p))
    ELSE [p EXCEPT !.kLast = 0]

(* kLast follows the new reserves while the fee is on. *)
Settled(p, feeOn, now) ==
    LET q == Update(p, now)
    IN  IF feeOn THEN [q EXCEPT !.kLast = K(q.r)] ELSE q

-----------------------------------------------------------------------------
(* mint: what was paid in beyond the reserves buys shares. *)
Brought(p) == [s \in Sides |-> p.b[s] - p.r[s]]

SharesFor(p, brought) ==
    IF p.supply = 0 THEN Sqrt(K(brought)) - MinLiquidity
    ELSE Lesser((brought[0] * p.supply) \div p.r[0], (brought[1] * p.supply) \div p.r[1])

MintAllowed(p, feeOn, now) ==
    /\ \A s \in Sides : p.b[s] >= p.r[s]
    /\ UpdateAllowed(p, now)
    /\ SharesFor(MintFee(p, feeOn), Brought(p)) > 0

Minted(p, feeOn, now) ==
    LET q == MintFee(p, feeOn)
        first == IF q.supply = 0 THEN MintShares(q, "zero", MinLiquidity) ELSE q
    IN  Settled(MintShares(first, "user", SharesFor(q, Brought(p))), feeOn, now)

(* burn: the shares sent to the pair are paid out of its balances. *)
Payout(p, feeOn) ==
    LET q == MintFee(p, feeOn)
    IN  [s \in Sides |-> (p.lp["pair"] * p.b[s]) \div q.supply]

BurnAllowed(p, feeOn, now) ==
    /\ p.supply > 0
    /\ \A s \in Sides : Payout(p, feeOn)[s] > 0
    /\ UpdateAllowed(p, now)

Burned(p, feeOn, now) ==
    LET out == Payout(p, feeOn)
        q == BurnShares(MintFee(p, feeOn), p.lp["pair"])
    IN  Settled([q EXCEPT !.b = [s \in Sides |-> p.b[s] - out[s]]], feeOn, now)

-----------------------------------------------------------------------------
(* swap in two halves: the tokens go out and, when the callee has been     *)
(* called, the pair looks at what came in.                                 *)
SwapBegins(p, out) ==
    /\ \E s \in Sides : out[s] > 0
    /\ \A s \in Sides : out[s] < p.r[s]

SentOut(p, out) == [p EXCEPT !.b = [s \in Sides |-> p.b[s] - out[s]]]

CameIn(p, out) ==
    [s \in Sides |-> IF p.b[s] > p.r[s] - out[s] THEN p.b[s] - (p.r[s] - out[s]) ELSE 0]

(* The product of the balances less the fee is that of the reserves. *)
KeepsK(p, in) ==
    K([s \in Sides |-> p.b[s] * 1000 - in[s] * 3]) >= K(p.r) * 1000 * 1000

(* p is the pool after the tokens went out. *)
SwapEnds(p, out, now) ==
    /\ UpdateAllowed(p, now)
    /\ \E s \in Sides : CameIn(p, out)[s] > 0
    /\ KeepsK(p, CameIn(p, out))

SwapAllowed(p, out, now) == SwapBegins(p, out) /\ SwapEnds(SentOut(p, out), out, now)
Swapped(p, out, now) == Update(SentOut(p, out), now)

(* The payout of n of one side. *)
Out(s, n) == [x \in Sides |-> IF x = s THEN n ELSE 0]

-----------------------------------------------------------------------------
(* UniswapV2Library; in is the side paid in. *)
quote(amount, rA, rB) == (amount * rB) \div rA

(* Mutant: the result is rounded up. *)
getAmountOutUp(amountIn, rIn, rOut) ==
    (amountIn * 997 * rOut) \div (rIn * 1000 + amountIn * 997) + 1

getAmountOut(amountIn, rIn, rOut) ==
    (amountIn * 997 * rOut) \div (rIn * 1000 + amountIn * 997)

(* Defined for amountOut < rOut; the code's subtraction reverts otherwise  *)
(* (or divides by zero).                                                   *)
getAmountIn(amountOut, rIn, rOut) ==
    (rIn * amountOut * 1000) \div ((rOut - amountOut) * 997) + 1

=============================================================================
