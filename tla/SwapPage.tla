------------------------------ MODULE SwapPage ------------------------------
(***************************************************************************)
(* The swap page of the interface (pages/Swap) with the hooks it calls:    *)
(* the form (state/swap), the best trade (hooks/Trades), the approval of   *)
(* the router (hooks/useApproveCallback), the modal in which a trade is    *)
(* confirmed (components/swap), the promise that sends it                  *)
(* (hooks/useSwapCallback) and the list of transactions                    *)
(* (state/transactions).                                                   *)
(*                                                                         *)
(* The pools and the allowance change on the chain at any time; the page   *)
(* computes with what it last read.  A handler runs on what is rendered; a *)
(* promise continues with the values its closure caught.  Amounts are      *)
(* small numbers, a pool is in one of the given Worlds.  The user's        *)
(* balance is fixed, the recipient is the user, the exchange is the second *)
(* version, and the two currencies are ether and one token.                *)
(***************************************************************************)
EXTENDS Sdk

CONSTANTS Worlds,    \* the states of the pools: reserves of every pair
          Bases,     \* the tokens routes may go through
          Token,     \* what is traded against ether
          Amounts,   \* the amounts that may be asked for
          Typed,     \* those the user types
          Balance,   \* how much of each currency the user has
          Slippage,  \* the tolerance, in percent
          MaxMoves,  \* bound: how often the pools move, or the allowance is revoked
          MaxTxs     \* bound: transactions sent

ASSUME SwapAssumption ==
    /\ Token # "ETH" /\ Amounts \subseteq Nat \ {0}
    /\ 1 \in DOMAIN Worlds
    /\ \A w \in DOMAIN Worlds, p \in DOMAIN Pairs : \A t \in Pairs[p] : Worlds[w][p][t] \in Nat

VARIABLES world,      \* the pools on the chain: an index into Worlds
          allowed,    \* on the chain: the router may take the token
          seen,       \* what the page last read of both
          moves,
          expert,     \* the user's expert mode
          form,       \* state.swap
          page,       \* the state of the modal
          approvalSubmitted,
          attempts,   \* promises in flight
          txs,        \* transactions sent, by hash
          store       \* state.transactions: hash -> absent, pending, final

vars == <<world, allowed, seen, moves, expert, form, page, approvalSubmitted, attempts, txs, store>>
chain == <<world, allowed, moves>>

INPUT == "input"
OUTPUT == "output"
Flip(field) == IF field = INPUT THEN OUTPUT ELSE INPUT
Currencies == {"ETH", Token}
wrappedCurrency(c) == IF c = "ETH" THEN "W" ELSE c
NoTrade == [type |-> "none"]

-----------------------------------------------------------------------------
(* The best trade for every state of the pools and every form.             *)
useAllCommonPairs ==
    SetToSeq({p \in DOMAIN Pairs : Pairs[p] \subseteq Bases \cup {wrappedCurrency(c) : c \in Currencies}})

Head1(trades) == IF trades = <<>> THEN NoTrade ELSE trades[1]

useTradeExactIn(w, from, amount, to) ==
    Head1(bestTradeExactIn(Worlds[w], useAllCommonPairs, from, amount, to, 3, 1))

useTradeExactOut(w, from, to, amount) ==
    Head1(bestTradeExactOut(Worlds[w], useAllCommonPairs, from, to, amount, 3, 1))

bestTrades ==
    [w \in DOMAIN Worlds |-> [input \in Currencies |->
        LET output == CHOOSE c \in Currencies : c # input
            from == wrappedCurrency(input)
            to == wrappedCurrency(output)
        IN  [field \in {INPUT, OUTPUT} |-> [a \in Amounts |->
                IF field = INPUT THEN useTradeExactIn(w, from, a, to)
                ELSE useTradeExactOut(w, from, to, a)]]]]

trade == IF form.typed = 0 THEN NoTrade ELSE bestTrades[seen.world][form.input][form.field][form.typed]

(* The price impact less the fee of 0.3% a hop, rounded to the per mille;  *)
(* from 15% on only experts may go on.                                     *)
blockedByImpact(t) ==
    LET left == <<997, 994, 991>>[Len(t.route)] IN
    (left - 150) * t.in * t.num >= 1000 * t.out * t.den

inputError ==
    \/ form.typed = 0
    \/ trade # NoTrade /\ maximumAmountIn(trade, Slippage) > Balance[form.input]

approvalOf(t, input, may, transactions) ==
    IF t = NoTrade THEN "unknown"
    ELSE IF input = "ETH" \/ may THEN "approved"
    ELSE IF \E h \in DOMAIN txs : txs[h].kind = "approve" /\ transactions[h] = "pending" THEN "pending"
    ELSE "not approved"

approval == approvalOf(trade, form.input, seen.allowed, store)

showApproveFlow ==
    /\ ~inputError
    /\ approval \in {"not approved", "pending"} \/ (approvalSubmitted /\ approval = "approved")
    /\ expert \/ ~blockedByImpact(trade)

(* The effect that marks an approval as submitted runs after every render. *)
Rendered(submitted) == approvalSubmitted' = (submitted \/ approval' = "pending")

-----------------------------------------------------------------------------
Closed == [showConfirm |-> FALSE, trade |-> NoTrade, attempting |-> FALSE, error |-> FALSE, hash |-> 0]

Init ==
    /\ world = 1 /\ allowed \in BOOLEAN /\ moves = 0
    /\ seen = [world |-> 1, allowed |-> allowed]
    /\ expert \in BOOLEAN
    /\ form = [input |-> "ETH", field |-> INPUT, typed |-> 0]
    /\ page = Closed /\ approvalSubmitted = FALSE
    /\ attempts = {} /\ txs = <<>> /\ store = <<>>

(* The form.  Choosing the other currency for a side swaps the two.        *)
typeInput(field, typed) ==
    /\ ~page.showConfirm
    /\ form' = [form EXCEPT !.field = field, !.typed = typed]
    /\ UNCHANGED <<chain, seen, expert, page, attempts, txs, store>>
    /\ Rendered(approvalSubmitted)

switchCurrencies(submitted) ==
    /\ ~page.showConfirm
    /\ form' = [form EXCEPT !.input = CHOOSE c \in Currencies : c # form.input, !.field = Flip(@)]
    /\ UNCHANGED <<chain, seen, expert, page, attempts, txs, store>>
    /\ Rendered(submitted)

handleInputSelect == switchCurrencies(FALSE)   \* and the arrow between the two sides
handleOutputSelect == switchCurrencies(approvalSubmitted)

(* The swap button opens the modal, and in expert mode sends at once.      *)
swapButton ==
    /\ trade # NoTrade /\ ~inputError
    /\ showApproveFlow => approval = "approved"
    /\ expert \/ ~blockedByImpact(trade)

openModal ==
    /\ swapButton /\ ~expert /\ ~page.showConfirm
    /\ page' = [Closed EXCEPT !.showConfirm = TRUE, !.trade = trade]
    /\ UNCHANGED <<chain, seen, expert, form, approvalSubmitted, attempts, txs, store>>

tradeMeaningfullyDiffers_InputOnly(a, b) == a.type # b.type \/ a.input # b.input \/ a.in # b.in

tradeMeaningfullyDiffers(a, b) ==
    \/ a.type # b.type \/ a.input # b.input \/ a.in # b.in \/ a.out # b.out

showAcceptChanges ==
    trade # NoTrade /\ page.trade # NoTrade /\ tradeMeaningfullyDiffers(trade, page.trade)

(* The modal shows the wallet's question, then the hash, then an error or  *)
(* else the trade with its two buttons.                                    *)
showsTrade == page.showConfirm /\ ~page.attempting /\ page.hash = 0 /\ ~page.error /\ trade # NoTrade

handleAcceptChanges ==
    /\ showsTrade /\ showAcceptChanges
    /\ page' = [page EXCEPT !.trade = trade]
    /\ UNCHANGED <<chain, seen, expert, form, approvalSubmitted, attempts, txs, store>>

handleConfirmDismiss ==
    /\ page.showConfirm
    /\ page' = [page EXCEPT !.showConfirm = FALSE]
    /\ form' = IF page.hash # 0 THEN [form EXCEPT !.field = INPUT, !.typed = 0] ELSE form
    /\ UNCHANGED <<chain, seen, expert, attempts, txs, store>>
    /\ Rendered(approvalSubmitted)

(* The user refuses a large price impact: nothing happens.  Otherwise the  *)
(* promise starts; the modal shows that it waits.                          *)
handleSwap ==
    /\ \/ showsTrade /\ ~showAcceptChanges
       \/ swapButton /\ expert /\ ~page.showConfirm
    /\ Len(txs) + Cardinality(attempts) < MaxTxs
    /\ page' = [page EXCEPT !.attempting = TRUE, !.error = FALSE, !.hash = 0]
    /\ attempts' = attempts \cup {[
           kind |-> "swap", stage |-> "estimate", hash |-> 0,
           call |-> swapCallParameters(trade, Slippage),
           accepted |-> IF expert THEN trade ELSE page.trade,
           trade |-> page.trade, showConfirm |-> page.showConfirm]}
    /\ UNCHANGED <<chain, seen, expert, form, approvalSubmitted, txs, store>>

-----------------------------------------------------------------------------
(* What a call does on the chain.                                          *)
amountsOf(call) ==
    LET r == Worlds[world]
        to == Tokens(call.route, call.input)[Len(call.route) + 1]
    IN  IF call.type = EXACT_INPUT
        THEN [in |-> call.in, out |-> Gives(r, call.route, call.input, call.in)]
        ELSE [in |-> Takes(r, call.route, to, call.out), out |-> call.out]

succeeds(call) ==
    LET a == amountsOf(call) IN
    /\ call.input # "W" => allowed
    /\ a.in \in 1..call.in /\ a.out >= call.out

(* Of one call, or of the call and its variant for tokens that take a fee, *)
(* the last one's estimate decides whether any is sent.                    *)
settle_KeepsWaiting(p, error, hash) ==
    page' = [showConfirm |-> p.showConfirm, trade |-> p.trade,
             attempting |-> error /\ ~p.showConfirm, error |-> error, hash |-> hash]

settle(p, error, hash) ==
    page' = [showConfirm |-> p.showConfirm, trade |-> p.trade, attempting |-> FALSE,
             error |-> error, hash |-> hash]

estimate(p) ==
    /\ p.stage = "estimate"
    /\ IF p.kind = "approve" \/ succeeds(p.call)
       THEN /\ attempts' = (attempts \ {p}) \cup {[p EXCEPT !.stage = "wallet"]}
            /\ UNCHANGED page
       ELSE attempts' = attempts \ {p} /\ settle(p, TRUE, 0)
    /\ UNCHANGED <<chain, seen, expert, form, approvalSubmitted, txs, store>>

(* The user rejects, or the node fails.                                    *)
reject(p) ==
    /\ p.stage \in {"estimate", "wallet"}
    /\ attempts' = attempts \ {p}
    /\ IF p.kind = "swap" THEN settle(p, TRUE, 0) ELSE UNCHANGED page
    /\ UNCHANGED <<chain, seen, expert, form, approvalSubmitted, txs, store>>

(* The wallet sends; the answer with the hash comes later.                 *)
send(p) ==
    /\ p.stage = "wallet"
    /\ txs' = Append(txs, [kind |-> p.kind, call |-> p.call, accepted |-> p.accepted,
                           status |-> "sent", got |-> [in |-> 0, out |-> 0]])
    /\ store' = Append(store, "absent")
    /\ attempts' = (attempts \ {p}) \cup {[p EXCEPT !.stage = "sent", !.hash = Len(txs) + 1]}
    /\ UNCHANGED <<chain, seen, expert, form, page, approvalSubmitted>>

answer(p) ==
    /\ p.stage = "sent"
    /\ store' = [store EXCEPT ![p.hash] = "pending"]
    /\ attempts' = attempts \ {p}
    /\ IF p.kind = "swap" THEN settle(p, FALSE, p.hash) ELSE UNCHANGED page
    /\ UNCHANGED <<chain, seen, expert, form, txs>>
    /\ Rendered(approvalSubmitted)

approve ==
    /\ ~page.showConfirm /\ showApproveFlow
    /\ approval = "not approved" /\ ~approvalSubmitted
    /\ Len(txs) + Cardinality(attempts) < MaxTxs
    /\ attempts' = attempts \cup {[
           kind |-> "approve", stage |-> "estimate", hash |-> 0, call |-> NoTrade,
           accepted |-> NoTrade, trade |-> NoTrade, showConfirm |-> FALSE]}
    /\ UNCHANGED <<chain, seen, expert, form, page, approvalSubmitted, txs, store>>

(* The list of transactions.                                               *)
finalizeTransaction(h) ==
    /\ txs[h].status # "sent" /\ store[h] = "pending"
    /\ store' = [store EXCEPT ![h] = "final"]
    /\ UNCHANGED <<chain, seen, expert, form, page, attempts, txs>>
    /\ Rendered(approvalSubmitted)

clearAllTransactions ==
    /\ ~page.showConfirm /\ \E h \in DOMAIN store : store[h] # "absent"
    /\ store' = [h \in DOMAIN store |-> "absent"]
    /\ UNCHANGED <<chain, seen, expert, form, page, attempts, txs>>
    /\ Rendered(approvalSubmitted)

-----------------------------------------------------------------------------
(* The chain: other traders move the pools, the user revokes the allowance *)
(* elsewhere, a transaction is executed or fails (its deadline, its gas).  *)
Move ==
    /\ moves < MaxMoves /\ moves' = moves + 1
    /\ \/ world' \in (DOMAIN Worlds) \ {world} /\ UNCHANGED allowed
       \/ allowed /\ allowed' = FALSE /\ UNCHANGED world
    /\ UNCHANGED <<seen, expert, form, page, approvalSubmitted, attempts, txs, store>>

Mine(h) ==
    /\ txs[h].status = "sent"
    /\ \/ /\ txs[h].kind = "swap" /\ succeeds(txs[h].call)
          /\ txs' = [txs EXCEPT ![h].status = "done", ![h].got = amountsOf(txs[h].call)]
          /\ UNCHANGED allowed
       \/ /\ txs[h].kind = "approve"
          /\ txs' = [txs EXCEPT ![h].status = "done"]
          /\ allowed' = TRUE
       \/ txs' = [txs EXCEPT ![h].status = "failed"] /\ UNCHANGED allowed
    /\ UNCHANGED <<world, moves, seen, expert, form, page, approvalSubmitted, attempts, store>>

Read ==
    /\ \/ seen.world # world /\ seen' = [seen EXCEPT !.world = world]
       \/ seen.allowed # allowed /\ seen' = [seen EXCEPT !.allowed = allowed]
    /\ UNCHANGED <<chain, expert, form, page, attempts, txs, store>>
    /\ Rendered(approvalSubmitted)

Next ==
    \/ \E f \in {INPUT, OUTPUT}, a \in Typed \cup {0} : typeInput(f, a)
    \/ handleInputSelect \/ handleOutputSelect
    \/ openModal \/ handleAcceptChanges \/ handleConfirmDismiss \/ handleSwap
    \/ \E p \in attempts : estimate(p) \/ reject(p) \/ send(p) \/ answer(p)
    \/ approve \/ clearAllTransactions
    \/ \E h \in DOMAIN txs : finalizeTransaction(h) \/ Mine(h)
    \/ Move \/ Read

Spec == Init /\ [][Next]_vars

-----------------------------------------------------------------------------
(* A swap that went through took at most, and gave at least, what the      *)
(* trade the user accepted promised at the tolerance, in the same          *)
(* direction: whatever the page has recomputed since, whichever promise    *)
(* was late, and however the pools moved.                                  *)
SwapGivesWhatWasAccepted ==
    \A h \in DOMAIN txs :
        LET t == txs[h] IN
        t.kind = "swap" /\ t.status = "done" =>
            /\ t.call.input = t.accepted.input
            /\ t.got.in <= maximumAmountIn(t.accepted, Slippage)
            /\ t.got.out >= minimumAmountOut(t.accepted, Slippage)

(* The trade the page offers is what it says and the best there is,        *)
(* whatever the page has read of the pools: its route turns the one amount *)
(* into the other, and no route over the common pairs of at most three     *)
(* hops gives more for the same input, or takes less for the same output;  *)
(* when the page offers none there is none.  The code finds it by a        *)
(* depth-first search that keeps one trade.                                *)
noneBetter ==
    [w \in DOMAIN Worlds |-> [input \in Currencies |->
        LET from == wrappedCurrency(input)
            to == wrappedCurrency(CHOOSE c \in Currencies : c # input)
        IN  \A a \in Amounts :
                LET exactIn == bestTrades[w][input][INPUT][a]
                    exactOut == bestTrades[w][input][OUTPUT][a]
                IN  /\ exactIn # NoTrade =>
                          exactIn.in = a /\ exactIn.out = Gives(Worlds[w], exactIn.route, from, a)
                    /\ exactOut # NoTrade =>
                          exactOut.out = a /\ exactOut.in = Takes(Worlds[w], exactOut.route, to, a)
                    /\ \A s \in Routes(useAllCommonPairs, from, to, 3) :
                          LET in == Takes(Worlds[w], s, to, a) IN
                          /\ Gives(Worlds[w], s, from, a) <= IF exactIn = NoTrade THEN 0 ELSE exactIn.out
                          /\ in = 0 \/ (exactOut # NoTrade /\ exactOut.in <= in)]]

BestTradeIsBest == noneBetter[seen.world][form.input]

(* The page says it waits for the wallet only while a swap is on its way:  *)
(* no order of dismissals, reopenings and late answers leaves it waiting.  *)
WaitsOnlyInFlight ==
    page.attempting => \E p \in attempts : p.kind = "swap"
=============================================================================
