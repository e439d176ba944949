--------------------------------- MODULE Amm ---------------------------------
(***************************************************************************)
(* Two factories of UniswapV2 pools with the router of the first, the      *)
(* contract FlashSwap that trades between them and the oracle OracleSimple *)
(* of one pool.  Every transaction is one action, except a swap with a     *)
(* callback: while it is open, whoever is called back makes any calls,     *)
(* and the pool that called it is locked (lock, lines 32-38).  It ends     *)
(* with the pool's checks or with a revert, which undoes all of them.      *)
(***************************************************************************)
EXTENDS FlashSwap, Oracle

CONSTANTS OraclePool, Weth,
          InitPools,    \* the first worlds: pools empty or after a first mint
          Amounts,      \* what users pay, ask for and send
          Paths,        \* the paths asked of the router
          Averages,     \* what setPrice is given
          MaxTime, MaxCalls, MaxCallbacks,   \* bounds
          FlashCost     \* what a swap with a callback counts among the calls

(* A pool nothing was paid into, or one after its first mint. *)
AtFirst(p) ==
    \/ p = EmptyPool
    \/ \E x, y \in 1 .. MaxReserve, on \in BOOLEAN :
        LET paid == PayIn(PayIn(EmptyPool, 0, x), 1, y)
        IN  MintAllowed(paid, on, 0) /\ p = Minted(paid, on, 0)

Tokens == {TokensOf[p][s] : p \in Pools, s \in Sides}

ASSUME AmmAssumption ==
    /\ OraclePool \in Pools
    /\ \A w \in InitPools : w \in [Pools -> Pool] /\ \A p \in Pools : AtFirst(w[p])
    /\ Amounts \subseteq Nat \ {0}
    /\ \A path \in Paths : path \in Seq(Tokens) /\ Len(path) >= 2
    /\ Averages \subseteq [Sides -> Nat]

(* The time modelled ends before the timestamps wrap. *)
ASSUME TimeAssumption == MaxTime \in Nat /\ MaxTime < TimeMod

NoFlash == [open |-> FALSE]
NoOracle == [deployed |-> FALSE]
FreshOracle(p) == [deployed |-> TRUE, state |-> Deployed(p), window |-> {}, own |-> FALSE]

VARIABLES pools,     \* a Pool for each
          created,   \* getPair of the factories
          feeOn,     \* feeTo # 0
          now,       \* block.timestamp
          flash,     \* the swap whose callback is running
          router,    \* what the router holds: ether and tokens
          held,      \* what the contract FlashSwap holds of its two tokens
          oracle,
          prices,    \* the prices of OraclePool in the seconds past
          calls      \* transactions and calls so far

vars == <<pools, created, feeOn, now, flash, router, held, oracle, prices, calls>>
others == <<created, feeOn, now, router, held, oracle, prices>>
world == [pools |-> pools, created |-> created, feeOn |-> feeOn, router |-> router,
          held |-> held, oracle |-> oracle]

Init ==
    /\ pools \in InitPools
    /\ created = {p \in Pools : pools[p].supply > 0}
    /\ feeOn \in BOOLEAN
    /\ now = 0
    /\ flash = NoFlash
    /\ router = 0
    /\ held = [s \in Sides |-> 0]
    /\ \/ oracle = NoOracle
       \/ DeployAllowed(pools[OraclePool]) /\ oracle = FreshOracle(pools[OraclePool])
    /\ prices = << >>
    /\ calls = 0

(* Calls count, those of a callee against a bound of their own. *)
MayCall == IF flash.open THEN flash.calls < MaxCallbacks ELSE calls < MaxCalls

Count ==
    IF flash.open THEN flash' = [flash EXCEPT !.calls = @ + 1] /\ UNCHANGED calls
    ELSE calls' = calls + 1 /\ UNCHANGED flash

(* Mutant: a pool may be entered while its swap waits for the callback. *)
UnlockedAlways(p) == p \in created

(* lock: the pool is not in the middle of a swap. *)
Unlocked(p) == p \in created /\ ~(flash.open /\ flash.pool = p)

UnlockedPath(path) ==
    \A i \in Hops(path) :
        /\ \E p \in RouterPools : Connects(p, path[i], path[i + 1])
        /\ Unlocked(PoolOf(path, i))

-----------------------------------------------------------------------------
(* The factory. *)
createPair(p) ==
    /\ p \notin created
    /\ Count
    /\ created' = created \cup {p}
    /\ UNCHANGED <<pools, feeOn, now, router, held, oracle, prices>>

setFeeTo ==
    /\ Count
    /\ feeOn' = ~feeOn
    /\ UNCHANGED <<pools, created, now, router, held, oracle, prices>>

(* The pools, called directly. *)
Pay(p, s, n) ==
    /\ p \in created /\ pools[p].b[s] + n <= MaxReserve
    /\ Count
    /\ pools' = [pools EXCEPT ![p] = PayIn(@, s, n)]
    /\ UNCHANGED others

PayShares(p, n) ==
    /\ p \in created /\ n <= pools[p].lp["user"]
    /\ Count
    /\ pools' = [pools EXCEPT ![p] = MoveShares(@, "user", "pair", n)]
    /\ UNCHANGED others

mint(p) ==
    /\ Unlocked(p) /\ MintAllowed(pools[p], feeOn, now)
    /\ Count
    /\ pools' = [pools EXCEPT ![p] = Minted(@, feeOn, now)]
    /\ UNCHANGED others

burn(p) ==
    /\ Unlocked(p) /\ BurnAllowed(pools[p], feeOn, now)
    /\ Count
    /\ pools' = [pools EXCEPT ![p] = Burned(@, feeOn, now)]
    /\ UNCHANGED others

swap(p, out) ==
    /\ Unlocked(p) /\ SwapAllowed(pools[p], out, now)
    /\ Count
    /\ pools' = [pools EXCEPT ![p] = Swapped(@, out, now)]
    /\ UNCHANGED others

skim(p) ==
    /\ Unlocked(p)
    /\ Count
    /\ pools' = [pools EXCEPT ![p].b = pools[p].r]
    /\ UNCHANGED others

sync(p) ==
    /\ Unlocked(p) /\ UpdateAllowed(pools[p], now)
    /\ Count
    /\ pools' = [pools EXCEPT ![p] = Update(@, now)]
    /\ UNCHANGED others

-----------------------------------------------------------------------------
(* swap with data: up to the callback, after it, and when it reverts. *)
FlashOpen(p, out) ==
    /\ ~flash.open
    /\ Unlocked(p) /\ SwapBegins(pools[p], out)
    /\ calls + FlashCost <= MaxCalls
    /\ calls' = calls + FlashCost
    /\ flash' = [open |-> TRUE, pool |-> p, out |-> out, calls |-> 0, before |-> world]
    /\ pools' = [pools EXCEPT ![p] = SentOut(@, out)]
    /\ UNCHANGED others

FlashClose ==
    /\ flash.open
    /\ SwapEnds(pools[flash.pool], flash.out, now)
    /\ flash' = NoFlash
    /\ pools' = [pools EXCEPT ![flash.pool] = Update(@, now)]
    /\ UNCHANGED <<others, calls>>

FlashRevert ==
    /\ flash.open
    /\ flash' = NoFlash
    /\ pools' = flash.before.pools /\ created' = flash.before.created
    /\ feeOn' = flash.before.feeOn /\ router' = flash.before.router
    /\ held' = flash.before.held /\ oracle' = flash.before.oracle
    /\ UNCHANGED <<now, prices, calls>>

-----------------------------------------------------------------------------
(* The router; what it requires of minimums only forbids more. *)
Add(p, s, d) ==
    LET a == OptimalAmounts(pools[p].r, d, s)
        paid == PayIn(PayIn(pools[p], 0, a[0]), 1, a[1])
    IN  /\ p \in RouterPools
        /\ p \in created => Unlocked(p)
        /\ Funded(pools[p].r) \/ \A x \in Sides : pools[p].r[x] = 0
        /\ MintAllowed(paid, feeOn, now)
        /\ Count
        /\ created' = created \cup {p}
        /\ pools' = [pools EXCEPT ![p] = Minted(paid, feeOn, now)]
        /\ UNCHANGED <<feeOn, now, held, oracle, prices>>

addLiquidity(p, s, d) == Add(p, s, d) /\ UNCHANGED router

(* Mutant: it stays with the router. *)
RefundNone(value, spent) == 0

(* Ether that is not needed goes back. *)
Refund(value, spent) == value - spent

addLiquidityETH(p, token, value) ==
    LET s == SideOf(p, Weth)
        d == [x \in Sides |-> IF x = s THEN value ELSE token]
        spent == OptimalAmounts(pools[p].r, d, Other(s))[s]
    IN  /\ Weth \in {TokensOf[p][x] : x \in Sides}
        /\ Add(p, Other(s), d)
        /\ router' = router + value - spent - Refund(value, spent)

removeLiquidity(p, n) ==
    LET sent == MoveShares(pools[p], "user", "pair", n)
    IN  /\ p \in RouterPools /\ Unlocked(p) /\ n <= pools[p].lp["user"]
        /\ BurnAllowed(sent, feeOn, now)
        /\ Count
        /\ pools' = [pools EXCEPT ![p] = Burned(sent, feeOn, now)]
        /\ UNCHANGED others

(* The hops of a quoted path, after the first pool was paid. *)
Along(amounts, path) ==
    LET paid == PayFirst(pools, path, amounts[1])
    IN  /\ Quoted(amounts)
        /\ SwapAlongAllowed(paid, amounts, path, now)
        /\ Count
        /\ pools' = SwapAlong(paid, amounts, path, now)[LastWorld(path)]
        /\ UNCHANGED <<created, feeOn, now, held, oracle, prices>>

Open(path) == UnlockedPath(path) /\ AllFunded(pools, path)

swapExactTokensForTokens(n, path) ==
    /\ Open(path)
    /\ Along(getAmountsOut(pools, n, path), path)
    /\ UNCHANGED router

swapTokensForExactTokens(n, path) ==
    /\ Open(path)
    /\ Along(getAmountsIn(pools, n, path), path)
    /\ UNCHANGED router

swapETHForExactTokens(n, value, path) ==
    /\ path[1] = Weth /\ Open(path)
    /\ LET amounts == getAmountsIn(pools, n, path)
       IN  /\ amounts[1] <= value
           /\ Along(amounts, path)
           /\ router' = router + value - amounts[1] - Refund(value, amounts[1])

swapExactTokensSupportingFee(n, path) ==
    /\ Open(path)
    /\ LET paid == PayFirst(pools, path, n)
       IN  /\ SwapSupportingAllowed(paid, path, now)
           /\ pools' = SwapSupporting(paid, path, now)[LastWorld(path)]
    /\ Count
    /\ UNCHANGED others

(* With ether at one end of the path: all of it is wrapped before or       *)
(* unwrapped after, and the pools see the same.                            *)
removeLiquidityETH(p, n) ==
    Weth \in {TokensOf[p][x] : x \in Sides} /\ removeLiquidity(p, n)

swapExactETHForTokens(n, path) == path[1] = Weth /\ swapExactTokensForTokens(n, path)
swapTokensForExactETH(n, path) == path[Len(path)] = Weth /\ swapTokensForExactTokens(n, path)
swapExactTokensForETH(n, path) == path[Len(path)] = Weth /\ swapExactTokensForTokens(n, path)
swapExactETHSupportingFee(n, path) == path[1] = Weth /\ swapExactTokensSupportingFee(n, path)
swapToETHSupportingFee(n, path) ==
    path[Len(path)] = Weth /\ swapExactTokensSupportingFee(n, path)

-----------------------------------------------------------------------------
(* The contract FlashSwap: the owner trades, anyone may send it tokens. *)
executeFlashSwap(s, n) ==
    /\ Unlocked(PoolA) /\ Unlocked(PoolB)
    /\ ExecuteAllowed(pools, held, s, n, now)
    /\ Count
    /\ pools' = Executed(pools, s, n, now)
    /\ held' = [x \in Sides |-> 0]
    /\ UNCHANGED <<created, feeOn, now, router, oracle, prices>>

SendToFlashSwap(s, n) ==
    /\ held[s] + n <= MaxReserve
    /\ Count
    /\ held' = [held EXCEPT ![s] = @ + n]
    /\ UNCHANGED <<pools, created, feeOn, now, router, oracle, prices>>

emergencyWithdraw(s) ==
    /\ Count
    /\ held' = [held EXCEPT ![s] = 0]
    /\ UNCHANGED <<pools, created, feeOn, now, router, oracle, prices>>

-----------------------------------------------------------------------------
(* The oracle, deployed at any time; a ghost notes from when it averages   *)
(* and whether the averages are its own.                                   *)
DeployOracle ==
    /\ ~oracle.deployed /\ OraclePool \in created
    /\ DeployAllowed(pools[OraclePool])
    /\ Count
    /\ oracle' = FreshOracle(pools[OraclePool])
    /\ UNCHANGED <<pools, created, feeOn, now, router, held, prices>>

updateOracle ==
    /\ oracle.deployed
    /\ UpdateOracleAllowed(oracle.state, pools[OraclePool], now)
    /\ Count
    /\ oracle' = [deployed |-> TRUE, own |-> TRUE,
                  state |-> UpdatedOracle(oracle.state, pools[OraclePool], now),
                  window |-> oracle.state.last .. now - 1]
    /\ UNCHANGED <<pools, created, feeOn, now, router, held, prices>>

setPrice(avg) ==
    /\ oracle.deployed
    /\ Count
    /\ oracle' = [oracle EXCEPT !.state = PriceSet(@, avg), !.own = FALSE]
    /\ UNCHANGED <<pools, created, feeOn, now, router, held, prices>>

(* A second passes between transactions; its price is the last one of it. *)
Tick ==
    /\ ~flash.open /\ now < MaxTime
    /\ now' = now + 1
    /\ LET r == pools[OraclePool].r
       IN  prices' = Append(prices, [s \in Sides |-> IF Funded(r) THEN PriceAt(r, s) ELSE 0])
    /\ UNCHANGED <<pools, created, feeOn, flash, router, held, oracle, calls>>

-----------------------------------------------------------------------------
Outs == {Out(s, n) : s \in Sides, n \in Amounts}

PoolCall ==
    \E p \in Pools :
        \/ createPair(p) \/ mint(p) \/ burn(p) \/ skim(p) \/ sync(p)
        \/ \E s \in Sides, n \in Amounts : Pay(p, s, n)
        \/ \E n \in Amounts : PayShares(p, n)
        \/ \E out \in Outs : swap(p, out) \/ FlashOpen(p, out)

RouterCall ==
    \/ \E p \in RouterPools, s \in Sides, d \in [Sides -> Amounts] : addLiquidity(p, s, d)
    \/ \E p \in RouterPools, n \in Amounts : removeLiquidity(p, n) \/ removeLiquidityETH(p, n)
    \/ \E p \in RouterPools, token, value \in Amounts : addLiquidityETH(p, token, value)
    \/ \E path \in Paths, n \in Amounts :
        \/ swapExactTokensForTokens(n, path)
        \/ swapTokensForExactTokens(n, path)
        \/ swapExactTokensSupportingFee(n, path)
        \/ swapExactETHForTokens(n, path) \/ swapExactTokensForETH(n, path)
        \/ swapTokensForExactETH(n, path)
        \/ swapExactETHSupportingFee(n, path) \/ swapToETHSupportingFee(n, path)
        \/ \E value \in Amounts : swapETHForExactTokens(n, value, path)

ClientCall ==
    \/ \E s \in Sides, n \in Amounts : executeFlashSwap(s, n) \/ SendToFlashSwap(s, n)
    \/ \E s \in Sides : emergencyWithdraw(s)
    \/ DeployOracle \/ updateOracle
    \/ \E avg \in Averages : setPrice(avg)

Next ==
    \/ MayCall /\ (PoolCall \/ RouterCall \/ ClientCall \/ setFeeTo)
    \/ FlashClose \/ FlashRevert \/ Tick

Spec == Init /\ [][Next]_vars

(***************************************************************************)
(* Properties.                                                             *)
(***************************************************************************)

(* A step of a callee that ends in a revert takes back what it undoes. *)
Undone == flash.open /\ ~flash'.open /\ pools' = flash.before.pools

(* What a pool's product is measured against: the protocol's fee may       *)
(* dilute the shares down to what they were worth when kLast was noted.    *)
WorthBase(p, after) ==
    IF p.lp["feeTo"] # after.lp["feeTo"] THEN Sqrt(p.kLast) * Sqrt(p.kLast) ELSE K(p.r)

(* No call, and no sequence of calls in a callback, makes a share of a     *)
(* pool worth less: the product of the reserves grows at least with the    *)
(* square of the supply, whatever is rounded in mint, burn, swap and in    *)
(* the protocol's fee.                                                     *)
SharesKeepTheirWorth ==
    [][Undone \/ \A p \in Pools :
        LET a == pools[p]
            c == pools'[p]
        IN  a.supply > 0 =>
                K(c.r) * a.supply * a.supply >= WorthBase(a, c) * c.supply * c.supply]_vars

(* The pools hold the reserves they state, up to what an open swap has     *)
(* sent ahead, and nothing is left behind in the router.                   *)
ReservesCovered ==
    /\ router = 0
    /\ \A p \in Pools, s \in Sides :
        pools[p].b[s] >= pools[p].r[s]
                          - (IF flash.open /\ flash.pool = p THEN flash.out[s] ELSE 0)

(* The library's quotes are those of the pool's product check: the pool    *)
(* pays getAmountOut and not one more, and is content with getAmountIn     *)
(* and not with two less.                                                  *)
Accepts(r, s, in, out) ==
    SwapAllowed(PayIn([EmptyPool EXCEPT !.r = r, !.b = r], s, in), Out(Other(s), out), now)

QuotesAreTight ==
    \A p \in Pools, s \in Sides, n \in Amounts :
        LET r == pools[p].r
            o == Other(s)
            out == getAmountOut(n, r[s], r[o])
            in == getAmountIn(n, r[s], r[o])
        IN  Funded(r) =>
            /\ (out > 0 /\ r[s] + n <= MaxReserve) =>
                    Accepts(r, s, n, out) /\ ~Accepts(r, s, n, out + 1)
            /\ (n < r[o] /\ r[s] + in <= MaxReserve) =>
                    Accepts(r, s, in, n) /\ (in > 2 => ~Accepts(r, s, in - 2, n))

(* The router quotes a whole path before the first hop.  Each pool on it   *)
(* accepts its hop when it comes to it, if no pool is on it twice; and     *)
(* what _addLiquidity asserts (line 81) holds.                             *)
Once(path) == \A i, j \in Hops(path) : PoolOf(path, i) = PoolOf(path, j) => i = j
Roomy(w, amounts, path) ==
    \A i \in Hops(path) : w[PoolOf(path, i)].b[In(path, i)] + amounts[i] <= MaxReserve

RouterQuotesHold ==
    /\ \A path \in Paths, n \in Amounts :
        Open(path) /\ Once(path) =>
            \A amounts \in {getAmountsOut(pools, n, path), getAmountsIn(pools, n, path)} :
                Quoted(amounts) /\ Roomy(pools, amounts, path) =>
                    SwapAlongAllowed(PayFirst(pools, path, amounts[1]), amounts, path, now)
    /\ \A p \in RouterPools, s \in Sides, d \in [Sides -> Amounts] :
        Funded(pools[p].r) =>
            LET a == OptimalAmounts(pools[p].r, d, s) IN a[0] <= d[0] /\ a[1] <= d[1]

(* The averages the oracle has computed lie between prices its pool had    *)
(* for a second or more of the time they are about: a price that held only *)
(* within a block, or within a callback, does not show.                    *)
AverageWithinWindow ==
    oracle.deployed /\ oracle.own =>
        \A s \in Sides : \E t, u \in oracle.window :
            prices[t + 1][s] <= oracle.state.avg[s] /\ oracle.state.avg[s] <= prices[u + 1][s]

(* When the check announces a profit, the trade done on the same reserves  *)
(* succeeds and leaves the owner exactly that much, whatever the contract  *)
(* or the pools hold besides.                                              *)
ProfitAsChecked ==
    \A s \in Sides, n \in Amounts :
        (/\ Unlocked(PoolA) /\ Unlocked(PoolB)
         /\ CheckedProfit(pools, s, n) > 0
         /\ pools[PoolB].b[s] + n <= MaxReserve
         /\ pools[PoolA].b[Other(s)] + AmountSold(pools, s, n) <= MaxReserve) =>
            /\ ExecuteAllowed(pools, held, s, n, now)
            /\ OwnerGets(pools, held, s, n) =
                    [held EXCEPT ![Other(s)] = @ + CheckedProfit(pools, s, n)]

=============================================================================
