--------------------------------- MODULE Sdk ---------------------------------
(***************************************************************************)
(* UniswapV2/sdk: what the interface quotes.  The amounts of a pair        *)
(* (entities/pair.ts), a trade along a route of pairs and the search for   *)
(* the best one (entities/trade.ts), the limits it is sent with            *)
(* (router.ts).  A pair is its index in the list of pairs; its reserves    *)
(* are a function of its two tokens.  Slippage is in whole percents.       *)
(***************************************************************************)
EXTENDS Naturals, Sequences, FiniteSets, SequencesExt

CONSTANT Pairs  \* the list of pairs, each the set of its two tokens

ASSUME PairsAssumption ==
    /\ Len(Pairs) \in Nat /\ DOMAIN Pairs = 1..Len(Pairs)
    /\ \A p \in DOMAIN Pairs : \E t, u \in Pairs[p] : t # u /\ Pairs[p] = {t, u}

Other(p, t) == CHOOSE u \in Pairs[p] : u # t

(* The quotes of a pair; 0 where the code throws.                          *)
getOutputAmount(r, t, amount, p) ==
    LET in == r[p][t] out == r[p][Other(p, t)] fee == amount * 997 IN
    IF in = 0 \/ out = 0 THEN 0 ELSE (fee * out) \div (in * 1000 + fee)

getInputAmount(r, t, amount, p) ==
    LET out == r[p][t] in == r[p][Other(p, t)] IN
    IF in = 0 \/ out = 0 \/ amount >= out THEN 0
    ELSE (in * amount * 1000) \div ((out - amount) * 997) + 1

-----------------------------------------------------------------------------
(* A trade: the route, the amounts at its ends, and its mid price as a     *)
(* fraction.  Of two trades with the same amounts the one with the higher  *)
(* mid price has the greater price impact.                                 *)
EXACT_INPUT == "exact input"
EXACT_OUTPUT == "exact output"

midPrice(r, route, t) ==
    FoldSeq(LAMBDA p, m : [token |-> Other(p, m.token),
                           num |-> m.num * r[p][Other(p, m.token)],
                           den |-> m.den * r[p][m.token]],
            [token |-> t, num |-> 1, den |-> 1], Reverse(route))

Trade(r, type, route, in, out, t) ==
    LET mid == midPrice(r, route, t) IN
    [type |-> type, route |-> route, input |-> t, in |-> in, out |-> out,
     num |-> mid.num, den |-> mid.den]

inputOutputBefore_MoreInput(a, b) == a.out > b.out \/ (a.out = b.out /\ a.in > b.in)

inputOutputBefore(a, b) == a.out > b.out \/ (a.out = b.out /\ a.in < b.in)

Before(a, b) ==   \* tradeComparator(a, b) < 0
    \/ inputOutputBefore(a, b)
    \/ /\ a.out = b.out /\ a.in = b.in
       /\ \/ a.num * b.den < b.num * a.den
          \/ a.num * b.den = b.num * a.den /\ Len(a.route) < Len(b.route)

sortedInsert(items, add, maxSize) ==
    LET full == Len(items) = maxSize
        lo   == Cardinality({i \in DOMAIN items : ~Before(add, items[i])})
        all  == InsertAt(items, lo + 1, add)
    IN  IF full /\ lo = maxSize THEN items ELSE SubSeq(all, 1, IF full THEN maxSize ELSE Len(all))

(* The search, from the side whose amount is given: every pair of the list *)
(* that quotes for the token, then, without it, the others from the token  *)
(* it leads to, as deep as hops.  A call is the arguments of the recursion *)
(* and where its loop is; its value, the routes in the order in which they *)
(* are inserted, each as it was walked and with the amount at its end.     *)
Quote(r, type, t, amount, p) ==
    IF t \notin Pairs[p] THEN 0
    ELSE IF type = EXACT_INPUT THEN getOutputAmount(r, t, amount, p)
    ELSE getInputAmount(r, t, amount, p)

Traded == UNION {Pairs[p] : p \in DOMAIN Pairs}
Calls(start) == [pairs : Seq(DOMAIN Pairs), i : Nat \ {0}, hops : Nat, token : Traded \cup {start},
                 amount : Nat, current : Seq(DOMAIN Pairs)]

Deeper(c, p, amount) ==
    [pairs |-> RemoveAt(c.pairs, c.i), i |-> 1, hops |-> c.hops - 1, token |-> Other(p, c.token),
     amount |-> amount, current |-> Append(c.current, p)]

FoundAt(r, type, target, search, c) ==   \* what the loop finds at its pair
    LET p == c.pairs[c.i]
        amount == Quote(r, type, c.token, c.amount, p)
    IN  IF amount = 0 THEN <<>>
        ELSE IF Other(p, c.token) = target THEN <<[walk |-> Append(c.current, p), amount |-> amount]>>
        ELSE IF c.hops > 1 THEN search[Deeper(c, p, amount)]
        ELSE <<>>

Search(r, type, start, target) ==
    LET search[c \in Calls(start)] ==
        IF c.i > Len(c.pairs) THEN <<>>
        ELSE FoundAt(r, type, target, search, c) \o search[[c EXCEPT !.i = @ + 1]]
    IN  search

Best(trades, size) ==   \* inserted one by one, the first of them first
    LET best[k \in 0..Len(trades)] == IF k = 0 THEN <<>> ELSE sortedInsert(best[k - 1], trades[k], size)
    IN  best[Len(trades)]

FirstCall(pairs, t, amount, hops) ==
    [pairs |-> pairs, i |-> 1, hops |-> hops, token |-> t, amount |-> amount, current |-> <<>>]

bestTradeExactIn(r, pairs, from, amount, to, hops, size) ==
    LET found == Search(r, EXACT_INPUT, from, to)[FirstCall(pairs, from, amount, hops)]
    IN  Best([k \in 1..Len(found) |->
                 Trade(r, EXACT_INPUT, found[k].walk, amount, found[k].amount, from)], size)

bestTradeExactOut(r, pairs, from, to, amount, hops, size) ==
    LET found == Search(r, EXACT_OUTPUT, to, from)[FirstCall(pairs, to, amount, hops)]
    IN  Best([k \in 1..Len(found) |->
                 Trade(r, EXACT_OUTPUT, Reverse(found[k].walk), found[k].amount, amount, from)], size)

-----------------------------------------------------------------------------
(* The limits a trade is sent with.                                        *)
minimumAmountOut(trade, slippage) ==
    IF trade.type = EXACT_OUTPUT THEN trade.out ELSE (100 * trade.out) \div (100 + slippage)

maximumAmountIn(trade, slippage) ==
    IF trade.type = EXACT_INPUT THEN trade.in ELSE ((100 + slippage) * trade.in) \div 100

swapCallParameters(trade, slippage) ==
    [type |-> trade.type, route |-> trade.route, input |-> trade.input,
     in |-> maximumAmountIn(trade, slippage), out |-> minimumAmountOut(trade, slippage)]

-----------------------------------------------------------------------------
(* For comparison: the tokens and the amounts of a walk from pair to pair, *)
(* what a route gives or takes, and the routes from one token to another   *)
(* that visit no token twice.                                              *)
Tokens(walk, t) ==
    LET ts[k \in 1..(Len(walk) + 1)] == IF k = 1 THEN t ELSE Other(walk[k - 1], ts[k - 1])
    IN  ts

AmountsAlong(r, type, walk, t, amount) ==
    LET qs[k \in 1..(Len(walk) + 1)] ==
        IF k = 1 THEN amount
        ELSE IF qs[k - 1] = 0 THEN 0
        ELSE Quote(r, type, Tokens(walk, t)[k - 1], qs[k - 1], walk[k - 1])
    IN  qs

Gives(r, route, from, amount) ==
    AmountsAlong(r, EXACT_INPUT, route, from, amount)[Len(route) + 1]

Takes(r, route, to, amount) ==
    AmountsAlong(r, EXACT_OUTPUT, Reverse(route), to, amount)[Len(route) + 1]

Routes(pairs, from, to, hops) ==
    {s \in UNION {[1..n -> {pairs[i] : i \in DOMAIN pairs}] : n \in 1..hops} :
        LET ts == Tokens(s, from) IN
        /\ \A k \in DOMAIN s : ts[k] \in Pairs[s[k]]
        /\ IsInjective(ts)
        /\ ts[Len(s) + 1] = to}

=============================================================================
