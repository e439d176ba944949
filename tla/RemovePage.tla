----------------------------- MODULE RemovePage -----------------------------
(***************************************************************************)
(* The page of the interface on which liquidity is removed                 *)
(* (pages/RemoveLiquidity, state/burn): the amounts it derives from what   *)
(* was typed and read, the permit the user signs or else the approval he   *)
(* sends, the modal in which he confirms, and the removal itself.          *)
(*                                                                         *)
(* The page shows the pair of the two currencies A and B, which the user   *)
(* may change.  The pools move at any time; reserves and supply, the       *)
(* user's liquidity and his allowance are read separately, each pair's     *)
(* once before it is shown.  A handler runs on what is rendered; a promise *)
(* goes on with what its closure caught.  The allowance is all or nothing: *)
(* an approval is of the greatest amount there is.                         *)
(***************************************************************************)
EXTENDS Naturals

CONSTANTS Pools,      \* for every pair of tokens with a pool: [supply, reserve] at first
          Currencies, \* what the user may select: ether, "ETH", its token "W", others
          Opened,     \* the currencies the page may be opened with: [A, B]
          Approved,   \* the sets of pairs that the router may be approved for at first
          Liquidity,  \* what the user has of each supply
          Trades,     \* what others may trade in: [pair, token, size]
          Percents,   \* what the user may choose
          Typed,      \* the amounts he may type instead
          Slippage,   \* the tolerance, in percent
          MaxMoves,   \* bound: trades of others
          MaxTasks,   \* bound: signatures, approvals and removals asked for
          MaxSelects  \* bound: changes of the currencies

VARIABLES
    pool, liquidity, allowed, nonce,  \* the chain, for every pair
    moves,
    selected,   \* the currencies of the page's address: [A, B]
    selects,
    seen,       \* what the page last read of each pair: [pool, liquidity, allowed]
    form,       \* state.burn
    timer,      \* the percentage of the slider that is still to be taken
    modal,      \* [open, attempting, done]
    signature,  \* signatureData
    tasks,      \* promises in flight
    asked,      \* how many there were
    removed     \* the removals that went through, with what they gave

vars == <<pool, liquidity, allowed, nonce, moves, selected, selects, seen, form, timer, modal,
          signature, tasks, asked, removed>>
chain == <<pool, liquidity, allowed, nonce, moves>>
address == <<selected, selects>>
local == <<form, timer, modal, signature>>

Pooled == DOMAIN Pools
None == [pair |-> {}, value |-> 0, nonce |-> 0]     \* no signature
NoTimer == 0

-----------------------------------------------------------------------------
wrappedCurrency(c) == IF c = "ETH" THEN "W" ELSE c
unwrappedCurrency(c) == IF c = "W" THEN "ETH" ELSE c
tokenOf(side) == wrappedCurrency(selected[side])
pair == {tokenOf("A"), tokenOf("B")}
hasPair == pair \in Pooled

(* The amounts: the share of the user's liquidity that was chosen, and     *)
(* what that is worth in both currencies, as far as is known.  A pool of   *)
(* which the user has more than there is has been read half.               *)
known == hasPair /\ seen[pair].liquidity <= seen[pair].pool.supply
userLiquidity == IF hasPair THEN seen[pair].liquidity ELSE 0
getLiquidityValue(side) ==
    IF known THEN (userLiquidity * seen[pair].pool.reserve[tokenOf(side)]) \div seen[pair].pool.supply
    ELSE 0
valueOf(field) == IF field = "LIQUIDITY" THEN userLiquidity ELSE getLiquidityValue(field)

percentToRemove ==
    IF form.field = "PERCENT" THEN [num |-> form.typed, den |-> 100]
    ELSE LET value == valueOf(form.field) IN
         IF form.typed <= value /\ value > 0 THEN [num |-> form.typed, den |-> value]
         ELSE [num |-> 0, den |-> 1]

parsedAmounts ==
    LET percent == percentToRemove
        part(n) == (n * percent.num) \div percent.den
    IN  [liquidity |-> part(userLiquidity), A |-> part(getLiquidityValue("A")),
         B |-> part(getLiquidityValue("B"))]

(* The amounts are there, and may be zero by rounding.                     *)
isValid == percentToRemove.num > 0 /\ known

approval ==
    IF ~hasPair \/ percentToRemove.num = 0 THEN "unknown"
    ELSE IF seen[pair].allowed \/ parsedAmounts.liquidity = 0 THEN "approved"
    ELSE IF \E t \in tasks : t.kind = "approve" /\ t.stage = "listed" /\ t.pair = pair THEN "pending"
    ELSE "not approved"

ready == approval = "approved" \/ signature # None

-----------------------------------------------------------------------------
Init ==
    /\ pool = Pools /\ liquidity = [p \in Pooled |-> Liquidity] /\ nonce = [p \in Pooled |-> 0]
    /\ (\E approved \in Approved : allowed = [p \in Pooled |-> p \in approved]) /\ moves = 0
    /\ selected \in Opened /\ selects = 0
    /\ seen = [p \in Pooled |-> [pool |-> Pools[p], liquidity |-> Liquidity, allowed |-> allowed[p]]]
    /\ form = [field |-> "PERCENT", typed |-> 0] /\ timer = NoTimer
    /\ modal = [open |-> FALSE, attempting |-> FALSE, done |-> FALSE]
    /\ signature = None /\ tasks = {} /\ asked = 0 /\ removed = {}

(* A new amount takes the signature away.  When the percentage changes, of *)
(* whatever cause, the slider's timer goes.                                *)
Shown == LET p == percentToRemove IN (200 * p.num + p.den) \div (2 * p.den)
keepTimer == timer' = IF timer # NoTimer /\ Shown' # Shown THEN NoTimer ELSE timer

onUserInput(field, typed) ==
    /\ form' = [field |-> field, typed |-> typed]
    /\ signature' = None
    /\ keepTimer

Input(field, typed) ==
    /\ ~modal.open
    /\ UNCHANGED <<chain, address, seen, modal, tasks, asked, removed>>
    /\ onUserInput(field, typed)

(* The slider's value is taken 100 milliseconds later, whatever the page   *)
(* shows by then.                                                          *)
Slide(p) ==
    /\ ~modal.open /\ timer' = p
    /\ UNCHANGED <<chain, address, seen, form, modal, signature, tasks, asked, removed>>

liquidityPercentChangeCallback ==
    /\ timer # NoTimer
    /\ form' = [field |-> "PERCENT", typed |-> timer] /\ signature' = None /\ timer' = NoTimer
    /\ UNCHANGED <<chain, address, seen, modal, tasks, asked, removed>>

(* Another currency: that of the other side changes places with it.  Only  *)
(* the address changes; the amount typed stays, and so does the signature. *)
select(currencies) ==
    /\ ~modal.open /\ selects < MaxSelects /\ selects' = selects + 1
    /\ currencies # selected /\ selected' = currencies
    /\ UNCHANGED <<chain, seen, form, modal, signature, tasks, asked, removed>>
    /\ keepTimer

handleSelectCurrencyA(c) ==
    select([A |-> c, B |-> IF c = selected["B"] THEN selected["A"] ELSE selected["B"]])

handleSelectCurrencyB(c) ==
    select([A |-> IF c = selected["A"] THEN selected["B"] ELSE selected["A"], B |-> c])

(* The links "Receive WETH" and "Receive ETH".                             *)
receive ==
    select(IF "ETH" \in {selected["A"], selected["B"]}
           THEN [side \in {"A", "B"} |-> wrappedCurrency(selected[side])]
           ELSE [side \in {"A", "B"} |-> unwrappedCurrency(selected[side])])

Start(task) ==
    /\ asked < MaxTasks /\ asked' = asked + 1
    /\ tasks' = tasks \cup {task}

(* The permit: the nonce is asked for first.  The button stays enabled     *)
(* while the wallet asks.                                                  *)
onAttemptToApprove ==
    /\ ~modal.open /\ approval = "not approved" /\ signature = None
    /\ Start([id |-> asked + 1, kind |-> "permit", stage |-> "nonce", pair |-> pair,
              permit |-> [pair |-> pair, value |-> parsedAmounts.liquidity, nonce |-> 0]])
    /\ UNCHANGED <<chain, address, seen, local, removed>>

showConfirm ==
    /\ ~modal.open /\ isValid /\ ready
    /\ modal' = [modal EXCEPT !.open = TRUE]
    /\ UNCHANGED <<chain, address, seen, form, timer, signature, tasks, asked, removed>>

handleDismissConfirmation ==
    /\ modal.open
    /\ modal' = [modal EXCEPT !.open = FALSE, !.done = FALSE]
    /\ UNCHANGED <<chain, address, seen, tasks, asked, removed>>
    /\ IF modal.done THEN onUserInput("PERCENT", 0)
       ELSE signature' = None /\ UNCHANGED <<form, timer>>

(* The least the removal may give.  When one currency is ether the router  *)
(* takes the token and its minimum before those of ether.                  *)
calculateSlippageAmount(n) == (n * (100 - Slippage)) \div 100

order == IF selected["A"] = "ETH" THEN <<"B", "A">> ELSE <<"A", "B">>

minimums_Straight(amounts) == [i \in 1..2 |-> calculateSlippageAmount(amounts[<<"A", "B">>[i]])]
minimums(amounts) == [i \in 1..2 |-> calculateSlippageAmount(amounts[order[i]])]

onRemove ==
    /\ modal.open /\ ~modal.attempting /\ ~modal.done
    /\ ready /\ isValid
    /\ LET amounts == parsedAmounts IN
        Start([id |-> asked + 1, kind |-> "remove", stage |-> "estimate", pair |-> pair,
               tokens |-> [i \in 1..2 |-> tokenOf(order[i])],
               liquidity |-> amounts.liquidity,
               min |-> minimums(amounts),
               shown |-> [liquidity |-> amounts.liquidity,
                          amount |-> [x \in pair |-> amounts[IF x = tokenOf("A") THEN "A" ELSE "B"]]],
               permit |-> IF approval = "approved" THEN None ELSE signature])
    /\ UNCHANGED <<chain, address, seen, local, removed>>

-----------------------------------------------------------------------------
(* What a removal does on the chain: the pair pays the parts of its        *)
(* reserves (the shares that it mints to the protocol before, when a fee   *)
(* is set, are left out); the router compares them with the minimums.      *)
Given(t) == [x \in t.pair |-> (t.liquidity * pool[t.pair].reserve[x]) \div pool[t.pair].supply]

Covers(t) == \A i \in 1..2 : Given(t)[t.tokens[i]] >= t.min[i]

Granted(t) ==
    IF t.permit = None THEN allowed[t.pair]
    ELSE t.permit = [pair |-> t.pair, value |-> t.liquidity, nonce |-> nonce[t.pair]]

succeeds(t) ==
    /\ Granted(t) /\ t.liquidity <= liquidity[t.pair]
    /\ \A x \in t.pair : Given(t)[x] > 0
    /\ Covers(t)

Advance(t, stage) == tasks' = (tasks \ {t}) \cup {[t EXCEPT !.stage = stage]}
Drop(t) == tasks' = tasks \ {t}

(* The steps of the promises.  A removal that no estimate lets through is  *)
(* given up without a word.                                                *)
nonces(t) ==
    /\ t.kind = "permit" /\ t.stage = "nonce"
    /\ tasks' = (tasks \ {t}) \cup {[t EXCEPT !.stage = "wallet", !.permit.nonce = nonce[t.pair]]}
    /\ UNCHANGED <<chain, address, seen, local, asked, removed>>

splitSignature(t) ==
    /\ t.kind = "permit" /\ t.stage = "wallet" /\ Drop(t)
    /\ signature' = t.permit
    /\ UNCHANGED <<chain, address, seen, form, timer, modal, asked, removed>>

(* A wallet that cannot sign: the approval is sent instead.                *)
approveCallback(t) ==
    /\ t.kind = "permit" /\ t.stage = "wallet"
    /\ tasks' = (tasks \ {t}) \cup {[t EXCEPT !.kind = "approve"]}
    /\ UNCHANGED <<chain, address, seen, local, asked, removed>>

estimateGas_Ignored(t) ==
    /\ t.kind = "remove" /\ t.stage = "estimate"
    /\ Advance(t, "wallet") /\ modal' = [modal EXCEPT !.attempting = TRUE]
    /\ UNCHANGED <<chain, address, seen, form, timer, signature, asked, removed>>

estimateGas(t) ==
    /\ t.kind = "remove" /\ t.stage = "estimate"
    /\ IF succeeds(t) THEN Advance(t, "wallet") /\ modal' = [modal EXCEPT !.attempting = TRUE]
       ELSE Drop(t) /\ UNCHANGED modal
    /\ UNCHANGED <<chain, address, seen, form, timer, signature, asked, removed>>

reject(t) ==
    /\ t.stage \in {"nonce", "wallet"} /\ Drop(t)
    /\ modal' = IF t.kind = "remove" THEN [modal EXCEPT !.attempting = FALSE] ELSE modal
    /\ UNCHANGED <<chain, address, seen, form, timer, signature, asked, removed>>

(* Sent; the answer with the hash comes later, but before the transaction  *)
(* is executed; the list of transactions shows an approval until then.     *)
send(t) ==
    /\ t.kind # "permit" /\ t.stage = "wallet" /\ Advance(t, "sent")
    /\ UNCHANGED <<chain, address, seen, local, asked, removed>>

answer(t) ==
    /\ t.stage = "sent" /\ Advance(t, "listed")
    /\ modal' = IF t.kind = "remove" THEN [modal EXCEPT !.attempting = FALSE, !.done = TRUE] ELSE modal
    /\ UNCHANGED <<chain, address, seen, form, timer, signature, asked, removed>>

(* Executed, or not: its gas or its deadline may have run out.  A permit   *)
(* sets the allowance to what is burnt, whatever it was before.            *)
Execute(t) ==
    /\ t.stage = "listed" /\ Drop(t)
    /\ \/ /\ t.kind = "approve" /\ allowed' = [allowed EXCEPT ![t.pair] = TRUE]
          /\ UNCHANGED <<pool, liquidity, nonce, removed>>
       \/ /\ t.kind = "remove" /\ succeeds(t)
          /\ pool' = [pool EXCEPT ![t.pair] =
                 [supply |-> @.supply - t.liquidity,
                  reserve |-> [x \in t.pair |-> @.reserve[x] - Given(t)[x]]]]
          /\ liquidity' = [liquidity EXCEPT ![t.pair] = @ - t.liquidity]
          /\ nonce' = [nonce EXCEPT ![t.pair] = IF t.permit = None THEN @ ELSE @ + 1]
          /\ allowed' = [allowed EXCEPT ![t.pair] = @ /\ t.permit = None]
          /\ removed' = removed \cup {[burnt |-> t.liquidity, gave |-> Given(t), shown |-> t.shown]}
       \/ UNCHANGED <<pool, liquidity, nonce, allowed, removed>>
    /\ UNCHANGED <<moves, address, seen, local, asked>>

(* Others trade one token of a pair for the other.                         *)
Move(trade) ==
    /\ moves < MaxMoves /\ moves' = moves + 1
    /\ LET in == pool[trade.pair].reserve[trade.token] IN
        pool' = [pool EXCEPT ![trade.pair].reserve =
            [x \in trade.pair |-> IF x = trade.token THEN in + trade.size
                                  ELSE (in * @[x]) \div (in + trade.size) + 1]]
    /\ UNCHANGED <<liquidity, allowed, nonce, address, seen, local, tasks, asked, removed>>

(* Of the pair that is shown.                                              *)
Read ==
    /\ hasPair
    /\ \/ seen[pair].pool # pool[pair] /\ seen' = [seen EXCEPT ![pair].pool = pool[pair]]
       \/ seen[pair].liquidity # liquidity[pair]
          /\ seen' = [seen EXCEPT ![pair].liquidity = liquidity[pair]]
       \/ seen[pair].allowed # allowed[pair] /\ seen' = [seen EXCEPT ![pair].allowed = allowed[pair]]
    /\ UNCHANGED <<chain, address, form, modal, signature, tasks, asked, removed>>
    /\ keepTimer

Next ==
    \/ \E p \in Percents : Input("PERCENT", p) \/ Slide(p)
    \/ \E f \in {"LIQUIDITY", "A", "B"}, n \in Typed : Input(f, n)
    \/ \E c \in Currencies : handleSelectCurrencyA(c) \/ handleSelectCurrencyB(c)
    \/ receive
    \/ liquidityPercentChangeCallback
    \/ onAttemptToApprove \/ showConfirm \/ handleDismissConfirmation \/ onRemove
    \/ \E t \in tasks :
        \/ nonces(t) \/ splitSignature(t) \/ approveCallback(t) \/ estimateGas(t)
        \/ reject(t) \/ send(t) \/ answer(t) \/ Execute(t)
    \/ (\E trade \in Trades : Move(trade)) \/ Read

Spec == Init /\ [][Next]_vars

-----------------------------------------------------------------------------
(* A removal that went through burnt what was shown when the user          *)
(* confirmed, and gave of each token what was shown within his tolerance,  *)
(* whatever was read, selected, traded or removed in between.              *)
RemovedAsShown ==
    \A r \in removed :
        /\ r.burnt = r.shown.liquidity
        /\ \A x \in DOMAIN r.shown.amount :
             r.gave[x] >= (r.shown.amount[x] * (100 - Slippage)) \div 100

(* The wallet is not asked to send a removal with a permit of another      *)
(* amount or another pair, though a signature may come back after both     *)
(* have changed, and the page keeps it when the pair does.                 *)
PermitFits ==
    \A t \in tasks : t.kind = "remove" /\ t.stage # "estimate" /\ t.permit # None
                         => t.permit.pair = t.pair /\ t.permit.value = t.liquidity
=============================================================================
