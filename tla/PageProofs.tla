----------------------------- MODULE PageProofs -----------------------------
(***************************************************************************)
(* Proofs about the two pages of the interface, for any pools, amounts and *)
(* tolerances: what a promise sends is what the user accepted, however     *)
(* late it comes and whatever the page has computed or read since.         *)
(***************************************************************************)
EXTENDS Site, LedgerLemmas, SequenceTheorems, FiniteSetTheorems, TLAPS

-----------------------------------------------------------------------------
(***************************************************************************)
(* The swap page.  A call that waits has the limits of the trade that was  *)
(* accepted; the modal shows a trade, also after a late answer has set the *)
(* page back to what its closure caught, unless the user is an expert, who *)
(* accepts what the page offers.                                           *)
(***************************************************************************)

Matches(call, t) ==
    /\ call.input = t.input
    /\ call.in = maximumAmountIn(t, Slippage)
    /\ call.out = minimumAmountOut(t, Slippage)

ShowsSome(p) == p.showConfirm /\ ~expert => p.trade # NoTrade

AttemptOK(p) ==
    /\ p = [kind |-> p.kind, stage |-> p.stage, hash |-> p.hash, call |-> p.call,
            accepted |-> p.accepted, trade |-> p.trade, showConfirm |-> p.showConfirm]
    /\ p.kind \in {"swap", "approve"}
    /\ p.kind = "swap" => Matches(p.call, p.accepted) /\ ShowsSome(p)

TxOK(t) ==
    /\ t = [kind |-> t.kind, call |-> t.call, accepted |-> t.accepted, status |-> t.status,
            got |-> t.got]
    /\ t.kind = "swap" =>
        /\ Matches(t.call, t.accepted)
        /\ t.status = "done" => t.got.in <= t.call.in /\ t.got.out >= t.call.out

PageOK ==
    /\ page = [showConfirm |-> page.showConfirm, trade |-> page.trade,
               attempting |-> page.attempting, error |-> page.error, hash |-> page.hash]
    /\ ShowsSome(page)

SwapInv ==
    /\ \A p \in attempts : AttemptOK(p)
    /\ \E S : txs \in Seq(S)
    /\ \A h \in DOMAIN txs : TxOK(txs[h])
    /\ PageOK
    /\ WaitsOnlyInFlight

LEMMA SwapQuiet ==
  ASSUME SwapInv, UNCHANGED <<page, attempts, txs, expert>>
  PROVE  SwapInv'
BY DEF SwapInv, AttemptOK, TxOK, PageOK, ShowsSome, WaitsOnlyInFlight

LEMMA CallMatches ==
  ASSUME NEW a, NEW b, ~tradeMeaningfullyDiffers(a, b)
  PROVE  Matches(swapCallParameters(a, Slippage), b)
BY DEF Matches, swapCallParameters, tradeMeaningfullyDiffers, maximumAmountIn, minimumAmountOut

(* The modal changes, and no promise.                                      *)
LEMMA ModalKeeps ==
  ASSUME SwapInv, UNCHANGED <<attempts, txs, expert>>,
         NEW c, NEW t, NEW w, NEW e, NEW h,
         page' = [showConfirm |-> c, trade |-> t, attempting |-> w, error |-> e, hash |-> h],
         c /\ ~expert => t # NoTrade,
         w => page.attempting
  PROVE  SwapInv'
<1>1. PageOK'
  BY DEF PageOK, ShowsSome
<1>2. WaitsOnlyInFlight'
  BY DEF SwapInv, WaitsOnlyInFlight
<1> QED
  BY <1>1, <1>2 DEF SwapInv, AttemptOK, TxOK, ShowsSome

LEMMA OpenKeeps ==
  ASSUME SwapInv, openModal
  PROVE  SwapInv'
<1>1. UNCHANGED <<attempts, txs, expert>> /\ trade # NoTrade
  BY DEF openModal, swapButton
<1>2. PICK a, b, t : a = TRUE /\ b = FALSE /\ t = trade
  OBVIOUS
<1>3. PICK m : m = [Closed EXCEPT !.showConfirm = a, !.trade = t]
  OBVIOUS
<1>4. m = [showConfirm |-> a, trade |-> t, attempting |-> FALSE, error |-> FALSE, hash |-> 0]
  BY <1>3 DEF Closed
<1>5. page' = m
  BY <1>2, <1>3 DEF openModal
<1> QED
  BY <1>1, <1>2, <1>4, <1>5, ModalKeeps

LEMMA AcceptKeeps ==
  ASSUME SwapInv, handleAcceptChanges
  PROVE  SwapInv'
<1>1. UNCHANGED <<attempts, txs, expert>> /\ trade # NoTrade
  BY DEF handleAcceptChanges, showsTrade
<1>2. PICK c, o, w, e, h :
        page = [showConfirm |-> c, trade |-> o, attempting |-> w, error |-> e, hash |-> h]
  BY DEF SwapInv, PageOK
<1>3. PICK t, old : t = trade /\ old = page
  OBVIOUS
<1>4. PICK m : m = [old EXCEPT !.trade = t]
  OBVIOUS
<1>5. m = [showConfirm |-> c, trade |-> t, attempting |-> w, error |-> e, hash |-> h]
  BY <1>2, <1>3, <1>4
<1>6. page' = m
  BY <1>3, <1>4 DEF handleAcceptChanges
<1>7. page.attempting = w
  BY <1>2
<1> QED
  BY <1>1, <1>3, <1>5, <1>6, <1>7, ModalKeeps

LEMMA DismissKeeps ==
  ASSUME SwapInv, handleConfirmDismiss
  PROVE  SwapInv'
<1>1. UNCHANGED <<attempts, txs, expert>>
  BY DEF handleConfirmDismiss
<1>2. PICK c, t, w, e, h :
        page = [showConfirm |-> c, trade |-> t, attempting |-> w, error |-> e, hash |-> h]
  BY DEF SwapInv, PageOK
<1>3. PICK no, old : no = FALSE /\ old = page
  OBVIOUS
<1>4. PICK m : m = [old EXCEPT !.showConfirm = no]
  OBVIOUS
<1>5. m = [showConfirm |-> no, trade |-> t, attempting |-> w, error |-> e, hash |-> h]
  BY <1>2, <1>3, <1>4
<1>6. page' = m
  BY <1>3, <1>4 DEF handleConfirmDismiss
<1>7. page.attempting = w
  BY <1>2
<1> QED
  BY <1>1, <1>3, <1>5, <1>6, <1>7, ModalKeeps

(* The promise catches what the user accepted: what the modal shows, which *)
(* is then what the page would send, or else what the page offers.         *)
LEMMA HandleSwapKeeps ==
  ASSUME SwapInv, handleSwap
  PROVE  SwapInv'
<1>1. PICK c, t, w, e, h :
        page = [showConfirm |-> c, trade |-> t, attempting |-> w, error |-> e, hash |-> h]
  BY DEF SwapInv, PageOK
<1>2. page.trade = t /\ page.showConfirm = c
  BY <1>1
<1>3. c /\ ~expert => t # NoTrade
  BY <1>2 DEF SwapInv, PageOK, ShowsSome
<1> DEFINE accepted == IF expert THEN trade ELSE page.trade
           p == [kind |-> "swap", stage |-> "estimate", hash |-> 0,
                 call |-> swapCallParameters(trade, Slippage), accepted |-> accepted,
                 trade |-> page.trade, showConfirm |-> page.showConfirm]
<1>4. ~tradeMeaningfullyDiffers(trade, accepted)
  <2>1. CASE expert
    BY <2>1 DEF tradeMeaningfullyDiffers
  <2>2. CASE ~expert
    <3>1. showsTrade /\ ~showAcceptChanges
      BY <2>2 DEF handleSwap
    <3>2. trade # NoTrade /\ page.trade # NoTrade
      BY <1>2, <1>3, <2>2, <3>1 DEF showsTrade
    <3> QED
      BY <2>2, <3>1, <3>2 DEF showAcceptChanges
  <2> QED
    BY <2>1, <2>2
<1>5. Matches(swapCallParameters(trade, Slippage), accepted)
  BY <1>4, CallMatches
<1>6. attempts' = attempts \cup {p} /\ UNCHANGED <<expert, txs>>
  BY DEF handleSwap
<1>7. PICK yes, no, old : yes = TRUE /\ no = FALSE /\ old = page
  OBVIOUS
<1>8. PICK m : m = [old EXCEPT !.attempting = yes, !.error = no, !.hash = 0]
  OBVIOUS
<1>9. m = [showConfirm |-> c, trade |-> t, attempting |-> yes, error |-> no, hash |-> 0]
  BY <1>1, <1>7, <1>8
<1>10. page' = m
  BY <1>7, <1>8 DEF handleSwap
<1>11. /\ p.kind = "swap" /\ p.call = swapCallParameters(trade, Slippage) /\ p.accepted = accepted
       /\ p.trade = t /\ p.showConfirm = c
       /\ p = [kind |-> p.kind, stage |-> p.stage, hash |-> p.hash, call |-> p.call,
               accepted |-> p.accepted, trade |-> p.trade, showConfirm |-> p.showConfirm]
  BY <1>2
<1> HIDE DEF p, accepted
<1>12. AttemptOK(p)
  BY <1>3, <1>5, <1>11 DEF AttemptOK, ShowsSome
<1>13. PageOK'
  BY <1>3, <1>6, <1>9, <1>10 DEF PageOK, ShowsSome
<1>14. WaitsOnlyInFlight'
  BY <1>6, <1>11 DEF WaitsOnlyInFlight
<1>15. (\A q \in attempts : AttemptOK(q))'
  BY <1>6, <1>12 DEF SwapInv, AttemptOK, ShowsSome
<1> QED
  BY <1>6, <1>13, <1>14, <1>15 DEF SwapInv, TxOK

(* A promise that ends sets the page to what it caught, no longer waiting. *)
LEMMA SettleKeeps ==
  ASSUME SwapInv, NEW p \in attempts, p.kind = "swap", NEW e, NEW h, settle(p, e, h),
         attempts' \subseteq attempts, UNCHANGED <<expert, txs>>
  PROVE  SwapInv'
<1>1. page' = [showConfirm |-> p.showConfirm, trade |-> p.trade, attempting |-> FALSE,
               error |-> e, hash |-> h]
  BY DEF settle
<1>2. ShowsSome(p)
  BY DEF SwapInv, AttemptOK
<1>3. PageOK'
  BY <1>1, <1>2 DEF PageOK, ShowsSome
<1>4. WaitsOnlyInFlight'
  BY <1>1 DEF WaitsOnlyInFlight
<1> QED
  BY <1>3, <1>4 DEF SwapInv, AttemptOK, TxOK, ShowsSome

(* A promise goes on: it stays what it is.                                 *)
LEMMA OnwardKeeps ==
  ASSUME SwapInv, NEW p \in attempts, NEW s, NEW n, UNCHANGED <<expert, page>>,
         NEW q, q = [kind |-> p.kind, stage |-> s, hash |-> n, call |-> p.call,
                     accepted |-> p.accepted, trade |-> p.trade, showConfirm |-> p.showConfirm],
         attempts' = (attempts \ {p}) \cup {q}
  PROVE  (\A r \in attempts : AttemptOK(r))' /\ PageOK' /\ WaitsOnlyInFlight'
<1>1. AttemptOK(q) /\ q.kind = p.kind
  <2>1. /\ q.kind = p.kind /\ q.stage = s /\ q.hash = n /\ q.call = p.call
        /\ q.accepted = p.accepted /\ q.trade = p.trade /\ q.showConfirm = p.showConfirm
    OBVIOUS
  <2>2. q.kind \in {"swap", "approve"}
    BY <2>1 DEF SwapInv, AttemptOK
  <2>3. q.kind = "swap" => Matches(q.call, q.accepted) /\ ShowsSome(q)
    BY <2>1 DEF SwapInv, AttemptOK, ShowsSome
  <2> QED
    BY <2>1, <2>2, <2>3 DEF AttemptOK
<1>2. WaitsOnlyInFlight'
  BY <1>1 DEF SwapInv, WaitsOnlyInFlight
<1> QED
  BY <1>1, <1>2 DEF SwapInv, AttemptOK, PageOK, ShowsSome

LEMMA StageChanges ==
  ASSUME NEW p, AttemptOK(p), NEW s, NEW q, q = [p EXCEPT !.stage = s]
  PROVE  q = [kind |-> p.kind, stage |-> s, hash |-> p.hash, call |-> p.call,
              accepted |-> p.accepted, trade |-> p.trade, showConfirm |-> p.showConfirm]
<1>1. PICK k, st, h, c, a, t, f :
        p = [kind |-> k, stage |-> st, hash |-> h, call |-> c, accepted |-> a, trade |-> t,
             showConfirm |-> f]
  BY DEF AttemptOK
<1>2. q = [kind |-> k, stage |-> s, hash |-> h, call |-> c, accepted |-> a, trade |-> t,
           showConfirm |-> f]
  BY <1>1
<1>3. /\ p.kind = k /\ p.hash = h /\ p.call = c /\ p.accepted = a /\ p.trade = t
      /\ p.showConfirm = f
  BY <1>1
<1> QED
  BY <1>2, <1>3

LEMMA HashChanges ==
  ASSUME NEW p, AttemptOK(p), NEW s, NEW n, NEW q, q = [p EXCEPT !.stage = s, !.hash = n]
  PROVE  q = [kind |-> p.kind, stage |-> s, hash |-> n, call |-> p.call,
              accepted |-> p.accepted, trade |-> p.trade, showConfirm |-> p.showConfirm]
<1>1. PICK k, st, h, c, a, t, f :
        p = [kind |-> k, stage |-> st, hash |-> h, call |-> c, accepted |-> a, trade |-> t,
             showConfirm |-> f]
  BY DEF AttemptOK
<1>2. q = [kind |-> k, stage |-> s, hash |-> n, call |-> c, accepted |-> a, trade |-> t,
           showConfirm |-> f]
  BY <1>1
<1>3. p.kind = k /\ p.call = c /\ p.accepted = a /\ p.trade = t /\ p.showConfirm = f
  BY <1>1
<1> QED
  BY <1>2, <1>3

LEMMA EstimateKeeps ==
  ASSUME SwapInv, NEW p \in attempts, estimate(p)
  PROVE  SwapInv'
<1>1. UNCHANGED <<expert, txs>> /\ AttemptOK(p)
  BY DEF estimate, SwapInv
<1>2. CASE p.kind = "approve" \/ succeeds(p.call)
  <2>1. PICK s : s = "wallet"
    OBVIOUS
  <2>2. PICK q : q = [p EXCEPT !.stage = s]
    OBVIOUS
  <2>3. attempts' = (attempts \ {p}) \cup {q} /\ page' = page
    BY <1>2, <2>1, <2>2 DEF estimate
  <2>4. q = [kind |-> p.kind, stage |-> s, hash |-> p.hash, call |-> p.call,
             accepted |-> p.accepted, trade |-> p.trade, showConfirm |-> p.showConfirm]
    BY <1>1, <2>2, StageChanges
  <2>5. (\A r \in attempts : AttemptOK(r))' /\ PageOK' /\ WaitsOnlyInFlight'
    BY <1>1, <2>3, <2>4, OnwardKeeps
  <2> QED
    BY <1>1, <2>5 DEF SwapInv, TxOK
<1>3. CASE ~(p.kind = "approve" \/ succeeds(p.call))
  <2>1. attempts' = attempts \ {p} /\ settle(p, TRUE, 0)
    BY <1>3 DEF estimate
  <2>2. p.kind = "swap"
    BY <1>1, <1>3 DEF AttemptOK
  <2> QED
    BY <1>1, <2>1, <2>2, SettleKeeps
<1> QED
  BY <1>2, <1>3

LEMMA EndKeeps ==   \* a promise that does not touch the page
  ASSUME SwapInv, NEW p \in attempts, p.kind # "swap", attempts' = attempts \ {p},
         UNCHANGED <<expert, txs, page>>
  PROVE  SwapInv'
<1>1. WaitsOnlyInFlight'
  BY DEF SwapInv, WaitsOnlyInFlight
<1> QED
  BY <1>1 DEF SwapInv, AttemptOK, TxOK, PageOK, ShowsSome

LEMMA RejectKeeps ==
  ASSUME SwapInv, NEW p \in attempts, reject(p)
  PROVE  SwapInv'
<1>1. UNCHANGED <<expert, txs>> /\ attempts' = attempts \ {p}
  BY DEF reject
<1>2. CASE p.kind = "swap"
  BY <1>1, <1>2, SettleKeeps DEF reject
<1>3. CASE p.kind # "swap"
  BY <1>1, <1>3, EndKeeps DEF reject
<1> QED
  BY <1>2, <1>3

LEMMA AnswerKeeps ==
  ASSUME SwapInv, NEW p \in attempts, answer(p)
  PROVE  SwapInv'
<1>1. UNCHANGED <<expert, txs>> /\ attempts' = attempts \ {p}
  BY DEF answer
<1>2. CASE p.kind = "swap"
  BY <1>1, <1>2, SettleKeeps DEF answer
<1>3. CASE p.kind # "swap"
  BY <1>1, <1>3, EndKeeps DEF answer
<1> QED
  BY <1>2, <1>3

LEMMA SendKeeps ==
  ASSUME SwapInv, NEW p \in attempts, send(p)
  PROVE  SwapInv'
<1>1. UNCHANGED <<expert, page>> /\ AttemptOK(p)
  BY DEF send, SwapInv
<1>2. PICK s, n : s = "sent" /\ n = Len(txs) + 1
  OBVIOUS
<1>3. PICK q : q = [p EXCEPT !.stage = s, !.hash = n]
  OBVIOUS
<1>4. attempts' = (attempts \ {p}) \cup {q}
  BY <1>2, <1>3 DEF send
<1>5. q = [kind |-> p.kind, stage |-> s, hash |-> n, call |-> p.call,
           accepted |-> p.accepted, trade |-> p.trade, showConfirm |-> p.showConfirm]
  BY <1>1, <1>3, HashChanges
<1>6. (\A r \in attempts : AttemptOK(r))' /\ PageOK' /\ WaitsOnlyInFlight'
  BY <1>1, <1>4, <1>5, OnwardKeeps
<1>7. PICK t : t = [kind |-> p.kind, call |-> p.call, accepted |-> p.accepted,
                    status |-> "sent", got |-> [in |-> 0, out |-> 0]]
  OBVIOUS
<1>8. TxOK(t)
  BY <1>1, <1>7 DEF AttemptOK, TxOK
<1>9. txs' = Append(txs, t)
  BY <1>7 DEF send
<1>10. PICK S : txs \in Seq(S)
  BY DEF SwapInv
<1>11. txs \in Seq(S \cup {t})
  BY <1>10, SeqDef
<1>12. txs' \in Seq(S \cup {t})
  BY <1>9, <1>11
<1>13. \A h \in DOMAIN txs' : txs'[h] = t \/ (h \in DOMAIN txs /\ txs'[h] = txs[h])
  BY <1>9, <1>11
<1>14. (\A h \in DOMAIN txs : TxOK(txs[h]))'
  BY <1>8, <1>13 DEF SwapInv, TxOK
<1> QED
  BY <1>6, <1>12, <1>14 DEF SwapInv

LEMMA ApproveKeeps ==
  ASSUME SwapInv, approve
  PROVE  SwapInv'
<1>1. PICK p : p = [kind |-> "approve", stage |-> "estimate", hash |-> 0, call |-> NoTrade,
                    accepted |-> NoTrade, trade |-> NoTrade, showConfirm |-> FALSE]
  OBVIOUS
<1>2. attempts' = attempts \cup {p} /\ UNCHANGED <<expert, page, txs>>
  BY <1>1 DEF approve
<1>3. AttemptOK(p)
  BY <1>1 DEF AttemptOK
<1>4. WaitsOnlyInFlight'
  BY <1>2 DEF SwapInv, WaitsOnlyInFlight
<1> QED
  BY <1>2, <1>3, <1>4 DEF SwapInv, AttemptOK, TxOK, PageOK, ShowsSome

(* One transaction is executed, or not: a swap only within its limits.     *)
LEMMA OneTxChanges ==
  ASSUME SwapInv, UNCHANGED <<expert, page, attempts>>, NEW h \in DOMAIN txs,
         NEW s, NEW g, s = "done" => txs[h].kind # "swap"
             \/ (g.in <= txs[h].call.in /\ g.out >= txs[h].call.out),
         NEW t, t = [kind |-> txs[h].kind, call |-> txs[h].call, accepted |-> txs[h].accepted,
                     status |-> s, got |-> g],
         txs' = [txs EXCEPT ![h] = t]
  PROVE  SwapInv'
<1>1. TxOK(t)
  <2>1. /\ t.kind = txs[h].kind /\ t.call = txs[h].call /\ t.accepted = txs[h].accepted
        /\ t.status = s /\ t.got = g
    OBVIOUS
  <2>2. t.kind = "swap" => Matches(t.call, t.accepted)
    BY <2>1 DEF SwapInv, TxOK
  <2> QED
    BY <2>1, <2>2 DEF TxOK
<1>2. PICK S : txs \in Seq(S)
  BY DEF SwapInv
<1>3. PICK n \in Nat : txs \in [1..n -> S]
  BY <1>2, SeqDef
<1>4. PICK ts, T : ts = txs' /\ T = S \cup {t}
  OBVIOUS
<1>5. txs' \in Seq(T)
  <2>1. ts \in [1..n -> T]
    BY <1>3, <1>4
  <2>2. ts \in Seq(T)
    BY <2>1, SeqDef
  <2> QED
    BY <1>4, <2>2
<1>6. DOMAIN txs' = DOMAIN txs /\ \A i \in DOMAIN txs : txs'[i] = t \/ txs'[i] = txs[i]
  BY <1>3
<1>7. (\A i \in DOMAIN txs : TxOK(txs[i]))'
  BY <1>1, <1>6 DEF SwapInv, TxOK
<1> QED
  BY <1>5, <1>7 DEF SwapInv, AttemptOK, PageOK, ShowsSome, WaitsOnlyInFlight

LEMMA MineKeeps ==
  ASSUME SwapInv, NEW h \in DOMAIN txs, Mine(h)
  PROVE  SwapInv'
<1>1. UNCHANGED <<expert, page, attempts>>
  BY DEF Mine
<1>2. PICK S : txs \in Seq(S)
  BY DEF SwapInv
<1>3. PICK o : o = txs[h]
  OBVIOUS
<1>4. PICK k, c, a, st, g : o = [kind |-> k, call |-> c, accepted |-> a, status |-> st, got |-> g]
  BY <1>3 DEF SwapInv, TxOK
<1>5. txs[h].kind = k /\ txs[h].call = c /\ txs[h].accepted = a
  BY <1>3, <1>4
<1>6. CASE /\ txs[h].kind = "swap" /\ succeeds(txs[h].call)
           /\ txs' = [txs EXCEPT ![h].status = "done", ![h].got = amountsOf(txs[h].call)]
  <2>1. PICK s, n : s = "done" /\ n = amountsOf(txs[h].call)
    OBVIOUS
  <2>2. PICK t : t = [o EXCEPT !.status = s, !.got = n]
    OBVIOUS
  <2>3. t = [kind |-> k, call |-> c, accepted |-> a, status |-> s, got |-> n]
    BY <1>4, <2>2
  <2>4. txs' = [txs EXCEPT ![h] = t]
    BY <1>2, <1>3, <1>6, <2>1, <2>2
  <2>5. n.in <= c.in /\ n.out >= c.out
    BY <1>5, <1>6, <2>1 DEF succeeds
  <2> QED
    BY <1>1, <1>5, <2>3, <2>4, <2>5, OneTxChanges
<1>7. ASSUME NEW s, s \in {"done", "failed"}, s = "done" => txs[h].kind # "swap",
             txs' = [txs EXCEPT ![h].status = s]
      PROVE  SwapInv'
  <2>1. PICK t : t = [o EXCEPT !.status = s]
    OBVIOUS
  <2>2. t = [kind |-> k, call |-> c, accepted |-> a, status |-> s, got |-> g]
    BY <1>4, <2>1
  <2>3. txs' = [txs EXCEPT ![h] = t]
    BY <1>2, <1>3, <1>7, <2>1
  <2>4. t = [kind |-> txs[h].kind, call |-> txs[h].call, accepted |-> txs[h].accepted,
             status |-> s, got |-> g]
    BY <1>5, <2>2
  <2>5. s = "done" => txs[h].kind # "swap"
             \/ (g.in <= txs[h].call.in /\ g.out >= txs[h].call.out)
    BY <1>7
  <2> QED
    BY <1>1, <2>3, <2>4, <2>5, OneTxChanges
<1> QED
  BY <1>6, <1>7 DEF Mine

LEMMA SwapStep ==
  ASSUME SwapInv, [Next]_vars
  PROVE  SwapInv'
<1>1. CASE UNCHANGED <<page, attempts, txs, expert>>
  BY <1>1, SwapQuiet
<1>2. ASSUME NEW f, NEW a, typeInput(f, a) PROVE UNCHANGED <<page, attempts, txs, expert>>
  BY <1>2 DEF typeInput
<1>3. CASE handleInputSelect \/ handleOutputSelect
  BY <1>1, <1>3 DEF handleInputSelect, handleOutputSelect, switchCurrencies
<1>4. CASE clearAllTransactions \/ Move \/ Read
  BY <1>1, <1>4 DEF clearAllTransactions, Move, Read
<1>5. ASSUME NEW h, finalizeTransaction(h) PROVE UNCHANGED <<page, attempts, txs, expert>>
  BY <1>5 DEF finalizeTransaction
<1>6. CASE UNCHANGED vars
  BY <1>1, <1>6 DEF vars
<1> QED
  BY <1>1, <1>2, <1>3, <1>4, <1>5, <1>6, OpenKeeps, AcceptKeeps, DismissKeeps, HandleSwapKeeps,
     EstimateKeeps, RejectKeeps, SendKeeps, AnswerKeeps, ApproveKeeps, MineKeeps DEF Next

LEMMA SwapStarts == Init => SwapInv
<1> SUFFICES ASSUME Init PROVE SwapInv
  OBVIOUS
<1>1. page = Closed /\ attempts = {} /\ txs = <<>>
  BY DEF Init
<1>2. txs \in Seq({}) /\ DOMAIN txs = {}
  BY <1>1
<1>3. PageOK /\ ~page.attempting
  BY <1>1 DEF PageOK, ShowsSome, Closed
<1> QED
  BY <1>1, <1>2, <1>3 DEF SwapInv, WaitsOnlyInFlight

LEMMA SwapSafe == SwapInv => SwapGivesWhatWasAccepted /\ WaitsOnlyInFlight
BY DEF SwapInv, TxOK, Matches, SwapGivesWhatWasAccepted

-----------------------------------------------------------------------------
(***************************************************************************)
(* The page that removes liquidity.  A removal has the minimums of what    *)
(* the page showed when it was confirmed, each at the place where the      *)
(* router takes it; once its gas is estimated its permit, if any, is for   *)
(* the pair and the amount that it burns.                                  *)
(***************************************************************************)

Least(n) == Removal!calculateSlippageAmount(n)

AsShown(t) ==
    /\ t.liquidity = t.shown.liquidity
    /\ \A x \in DOMAIN t.shown.amount :
         \E i \in 1..2 : t.tokens[i] = x /\ t.min[i] = Least(t.shown.amount[x])

ForIts(t) == t.permit # Removal!None => t.permit.pair = t.pair /\ t.permit.value = t.liquidity

Fits(t) == t.stage # "estimate" => ForIts(t)

TaskOK(t) ==
    \/ /\ t = [id |-> t.id, kind |-> t.kind, stage |-> t.stage, pair |-> t.pair,
               permit |-> t.permit]
       /\ t.kind \in {"permit", "approve"}
    \/ /\ t = [id |-> t.id, kind |-> t.kind, stage |-> t.stage, pair |-> t.pair,
               tokens |-> t.tokens, liquidity |-> t.liquidity, min |-> t.min,
               shown |-> t.shown, permit |-> t.permit]
       /\ t.kind = "remove" /\ AsShown(t) /\ Fits(t)

RemoveInv == (\A t \in tasks : TaskOK(t)) /\ RemovedAsShown

LEMMA RemoveQuiet ==
  ASSUME RemoveInv, UNCHANGED <<tasks, removed>>
  PROVE  RemoveInv'
BY DEF RemoveInv, RemovedAsShown, Removal!RemovedAsShown

(* Promises come, go on and go; no removal is executed.                    *)
LEMMA TasksKeep ==
  ASSUME RemoveInv, UNCHANGED removed,
         \A t \in tasks' : t \in tasks \/ TaskOK(t)
  PROVE  RemoveInv'
<1>1. (\A t \in tasks : TaskOK(t))'
  BY DEF RemoveInv
<1> QED
  BY <1>1 DEF RemoveInv, RemovedAsShown, Removal!RemovedAsShown

(* A promise goes on: only its stage is another, and a removal has passed  *)
(* its estimate, with a permit that fits, before it does.                  *)
LEMMA TaskStage ==
  ASSUME NEW t, TaskOK(t), NEW s, t.kind = "remove" /\ s # "estimate" => ForIts(t),
         NEW q, q = [t EXCEPT !.stage = s]
  PROVE  TaskOK(q)
<1>1. CASE t.kind = "remove"
  <2>1. PICK i, k, st, a, b, l, m, sh, p :
          t = [id |-> i, kind |-> k, stage |-> st, pair |-> a, tokens |-> b, liquidity |-> l,
               min |-> m, shown |-> sh, permit |-> p]
    BY <1>1 DEF TaskOK
  <2>2. q = [id |-> i, kind |-> k, stage |-> s, pair |-> a, tokens |-> b, liquidity |-> l,
             min |-> m, shown |-> sh, permit |-> p]
    BY <2>1
  <2>3. /\ t.kind = k /\ t.permit = p /\ t.liquidity = l /\ t.min = m /\ t.shown = sh
        /\ t.pair = a /\ t.tokens = b
        /\ q.kind = k /\ q.permit = p /\ q.liquidity = l /\ q.min = m /\ q.shown = sh
        /\ q.pair = a /\ q.tokens = b /\ q.id = i /\ q.stage = s
    BY <2>1, <2>2
  <2>4. AsShown(t)
    BY <1>1 DEF TaskOK
  <2>5. AsShown(q) /\ Fits(q)
    BY <1>1, <2>3, <2>4 DEF AsShown, Fits, ForIts
  <2> QED
    BY <1>1, <2>2, <2>3, <2>5 DEF TaskOK
<1>2. CASE t.kind # "remove"
  <2>1. PICK i, k, st, a, p :
          t = [id |-> i, kind |-> k, stage |-> st, pair |-> a, permit |-> p]
    BY <1>2 DEF TaskOK
  <2>2. q = [id |-> i, kind |-> k, stage |-> s, pair |-> a, permit |-> p]
    BY <2>1
  <2>3. t.kind = k /\ k \in {"permit", "approve"}
    BY <1>2, <2>1 DEF TaskOK
  <2> QED
    BY <2>2, <2>3 DEF TaskOK
<1> QED
  BY <1>1, <1>2

LEMMA AdvanceKeeps ==
  ASSUME RemoveInv, NEW t \in tasks, NEW s, Removal!Advance(t, s), UNCHANGED removed,
         t.kind = "remove" /\ t.stage = "estimate" => ForIts(t)
  PROVE  RemoveInv'
<1>1. TaskOK(t)
  BY DEF RemoveInv
<1>2. PICK q : q = [t EXCEPT !.stage = s]
  OBVIOUS
<1>3. t.kind = "remove" /\ s # "estimate" => ForIts(t)
  BY <1>1 DEF TaskOK, Fits
<1>4. TaskOK(q)
  BY <1>1, <1>2, <1>3, TaskStage
<1>5. tasks' = (tasks \ {t}) \cup {q}
  BY <1>2 DEF Removal!Advance
<1> QED
  BY <1>4, <1>5, TasksKeep

LEMMA DropKeeps ==
  ASSUME RemoveInv, NEW t, Removal!Drop(t), UNCHANGED removed
  PROVE  RemoveInv'
BY TasksKeep DEF Removal!Drop

LEMMA AskedKeeps ==
  ASSUME RemoveInv, Removal!onAttemptToApprove
  PROVE  RemoveInv'
<1>1. PICK t, a, p :
        /\ t = [id |-> asked + 1, kind |-> "permit", stage |-> "nonce", pair |-> a, permit |-> p]
        /\ tasks' = tasks \cup {t}
  BY DEF Removal!onAttemptToApprove, Removal!Start
<1>2. TaskOK(t)
  BY <1>1 DEF TaskOK
<1>3. UNCHANGED removed
  BY DEF Removal!onAttemptToApprove, Removal!chain
<1> QED
  BY <1>1, <1>2, <1>3, TasksKeep

(* The minimum of either token is where the router takes it: the amount    *)
(* shown of a token is that of its side of the page.                       *)
LEMMA LeastOfEach ==
  ASSUME NEW sh, NEW x \in Removal!pair
  PROVE  \E i \in 1..2 :
            /\ Removal!tokenOf(Removal!order[i]) = x
            /\ Removal!minimums(sh)[i]
                 = Least(sh[IF x = Removal!tokenOf("A") THEN "A" ELSE "B"])
<1>1. PICK side \in {"A", "B"} :
        /\ x = Removal!tokenOf(side)
        /\ side = IF x = Removal!tokenOf("A") THEN "A" ELSE "B"
  BY DEF Removal!pair
<1>2. PICK i \in 1..2 : Removal!order[i] = side
  <2>1. Removal!order \in {<<"A", "B">>, <<"B", "A">>}
    BY DEF Removal!order
  <2>2. CASE side = Removal!order[1]
    BY <2>2
  <2>3. CASE side = Removal!order[2]
    BY <2>3
  <2> QED
    BY <2>1, <2>2, <2>3
<1>3. Removal!minimums(sh)[i] = Least(sh[side])
  BY <1>2 DEF Removal!minimums, Least
<1> QED
  BY <1>1, <1>2, <1>3

LEMMA ConfirmKeeps ==
  ASSUME RemoveInv, Removal!onRemove
  PROVE  RemoveInv'
<1> DEFINE sh == Removal!parsedAmounts
           amountOf == [x \in Removal!pair |-> sh[IF x = Removal!tokenOf("A") THEN "A" ELSE "B"]]
           tokens == [i \in 1..2 |-> Removal!tokenOf(Removal!order[i])]
<1>1. PICK l, g, b, m : l = sh.liquidity /\ g = amountOf /\ b = tokens /\ m = Removal!minimums(sh)
  OBVIOUS
<1>2. PICK t, a, p :
        /\ t = [id |-> asked + 1, kind |-> "remove", stage |-> "estimate", pair |-> a,
                tokens |-> b, liquidity |-> l, min |-> m,
                shown |-> [liquidity |-> l, amount |-> g], permit |-> p]
        /\ tasks' = tasks \cup {t}
  BY <1>1 DEF Removal!onRemove, Removal!Start
<1>3. \A x \in DOMAIN g : \E i \in 1..2 : b[i] = x /\ m[i] = Least(g[x])
  <2> SUFFICES ASSUME NEW x \in Removal!pair
               PROVE  \E i \in 1..2 : b[i] = x /\ m[i] = Least(g[x])
    BY <1>1
  <2>1. g[x] = sh[IF x = Removal!tokenOf("A") THEN "A" ELSE "B"]
    BY <1>1
  <2> HIDE DEF sh
  <2>2. PICK i \in 1..2 :
          /\ Removal!tokenOf(Removal!order[i]) = x
          /\ Removal!minimums(sh)[i] = Least(sh[IF x = Removal!tokenOf("A") THEN "A" ELSE "B"])
    BY LeastOfEach
  <2>3. b[i] = x
    BY <1>1, <2>2
  <2> QED
    BY <1>1, <2>1, <2>2, <2>3
<1> HIDE DEF sh, amountOf, tokens
<1>4. AsShown(t) /\ Fits(t)
  BY <1>2, <1>3 DEF AsShown, Fits
<1>5. TaskOK(t)
  BY <1>2, <1>4 DEF TaskOK
<1>6. UNCHANGED removed
  BY DEF Removal!onRemove, Removal!chain
<1> QED
  BY <1>2, <1>5, <1>6, TasksKeep

LEMMA PermitTask ==
  ASSUME NEW t, TaskOK(t), t.kind = "permit"
  PROVE  \E i, st, a, p :
            t = [id |-> i, kind |-> "permit", stage |-> st, pair |-> a, permit |-> p]
BY DEF TaskOK

LEMMA NoncesKeep ==
  ASSUME RemoveInv, NEW t \in tasks, Removal!nonces(t)
  PROVE  RemoveInv'
<1>1. t.kind = "permit" /\ TaskOK(t) /\ UNCHANGED removed
  BY DEF Removal!nonces, Removal!chain, RemoveInv
<1>2. PICK i, st, a, p :
        t = [id |-> i, kind |-> "permit", stage |-> st, pair |-> a, permit |-> p]
  BY <1>1, PermitTask
<1>3. PICK q : q = [t EXCEPT !.stage = "wallet", !.permit.nonce = nonce[t.pair]]
  OBVIOUS
<1>4. PICK k, v : k = "wallet" /\ v = [t.permit EXCEPT !.nonce = nonce[t.pair]]
  OBVIOUS
<1>5. PICK r : r = [t EXCEPT !.stage = k, !.permit = v]
  OBVIOUS
<1>6. q = r
  BY <1>3, <1>4, <1>5
<1>7. r = [id |-> i, kind |-> "permit", stage |-> k, pair |-> a, permit |-> v]
  BY <1>2, <1>5
<1>8. TaskOK(q)
  BY <1>6, <1>7 DEF TaskOK
<1>9. tasks' = (tasks \ {t}) \cup {q}
  BY <1>3 DEF Removal!nonces
<1> QED
  BY <1>1, <1>8, <1>9, TasksKeep

LEMMA ApproveInstead ==
  ASSUME RemoveInv, NEW t \in tasks, Removal!approveCallback(t)
  PROVE  RemoveInv'
<1>1. t.kind = "permit" /\ TaskOK(t) /\ UNCHANGED removed
  BY DEF Removal!approveCallback, Removal!chain, RemoveInv
<1>2. PICK i, st, a, p :
        t = [id |-> i, kind |-> "permit", stage |-> st, pair |-> a, permit |-> p]
  BY <1>1, PermitTask
<1>3. PICK k : k = "approve"
  OBVIOUS
<1>4. PICK q : q = [t EXCEPT !.kind = k]
  OBVIOUS
<1>5. q = [id |-> i, kind |-> k, stage |-> st, pair |-> a, permit |-> p]
  BY <1>2, <1>4
<1>6. TaskOK(q)
  BY <1>3, <1>5 DEF TaskOK
<1>7. tasks' = (tasks \ {t}) \cup {q}
  BY <1>3, <1>4 DEF Removal!approveCallback
<1> QED
  BY <1>1, <1>6, <1>7, TasksKeep

LEMMA GasKeeps ==
  ASSUME RemoveInv, NEW t \in tasks, Removal!estimateGas(t)
  PROVE  RemoveInv'
<1>1. UNCHANGED removed
  BY DEF Removal!estimateGas, Removal!chain
<1>2. CASE Removal!succeeds(t)
  <2>1. ForIts(t)
    BY <1>2 DEF Removal!succeeds, Removal!Granted, ForIts
  <2> QED
    BY <1>1, <1>2, <2>1, AdvanceKeeps DEF Removal!estimateGas
<1>3. CASE ~Removal!succeeds(t)
  BY <1>1, <1>3, DropKeeps DEF Removal!estimateGas
<1> QED
  BY <1>2, <1>3

(* A removal is executed: the pool gives of both what the router demands.  *)
LEMMA ExecuteKeeps ==
  ASSUME RemoveInv, NEW t \in tasks, Removal!Execute(t)
  PROVE  RemoveInv'
<1>1. tasks' = tasks \ {t}
  BY DEF Removal!Execute, Removal!Drop
<1>2. CASE removed' = removed
  BY <1>1, <1>2, TasksKeep
<1>3. CASE /\ t.kind = "remove" /\ Removal!succeeds(t)
           /\ removed' = removed \cup {[burnt |-> t.liquidity, gave |-> Removal!Given(t), shown |-> t.shown]}
  <2>1. AsShown(t)
    BY <1>3 DEF RemoveInv, TaskOK
  <2>2. PICK g : g = Removal!Given(t)
    OBVIOUS
  <2>3. \A i \in 1..2 : g[t.tokens[i]] >= t.min[i]
    BY <1>3, <2>2 DEF Removal!succeeds, Removal!Covers
  <2>4. \A x \in DOMAIN t.shown.amount : g[x] >= Least(t.shown.amount[x])
    BY <2>1, <2>3 DEF AsShown
  <2>5. PICK r : r = [burnt |-> t.liquidity, gave |-> g, shown |-> t.shown]
    OBVIOUS
  <2>6. /\ r.burnt = r.shown.liquidity
        /\ \A x \in DOMAIN r.shown.amount : r.gave[x] >= Least(r.shown.amount[x])
    BY <2>1, <2>4, <2>5 DEF AsShown
  <2>7. removed' = removed \cup {r}
    BY <1>3, <2>2, <2>5
  <2>8. RemovedAsShown'
    BY <2>6, <2>7 DEF RemoveInv, RemovedAsShown, Removal!RemovedAsShown, Least, Removal!calculateSlippageAmount
  <2>9. (\A q \in tasks : TaskOK(q))'
    BY <1>1 DEF RemoveInv
  <2> QED
    BY <2>8, <2>9 DEF RemoveInv
<1> QED
  BY <1>2, <1>3 DEF Removal!Execute

LEMMA RemoveStep ==
  ASSUME RemoveInv, Removal!Next
  PROVE  RemoveInv'
<1>1. ASSUME NEW f, NEW n, Removal!Input(f, n) PROVE RemoveInv'
  BY <1>1, RemoveQuiet DEF Removal!Input, Removal!chain
<1>2. ASSUME NEW p, Removal!Slide(p) PROVE RemoveInv'
  BY <1>2, RemoveQuiet DEF Removal!Slide, Removal!chain
<1>3. CASE \/ Removal!liquidityPercentChangeCallback \/ Removal!showConfirm
           \/ Removal!handleDismissConfirmation \/ Removal!Read
  BY <1>3, RemoveQuiet
  DEF Removal!liquidityPercentChangeCallback, Removal!showConfirm, Removal!handleDismissConfirmation,
      Removal!Read, Removal!chain
<1>4. ASSUME NEW t \in tasks, Removal!splitSignature(t) \/ Removal!reject(t) PROVE RemoveInv'
  BY <1>4, DropKeeps DEF Removal!splitSignature, Removal!reject, Removal!chain
<1>5. ASSUME NEW t \in tasks, Removal!send(t) \/ Removal!answer(t) PROVE RemoveInv'
  <2>1. t.stage # "estimate" /\ UNCHANGED removed
    BY <1>5 DEF Removal!send, Removal!answer, Removal!chain
  <2> QED
    BY <1>5, <2>1, AdvanceKeeps DEF Removal!send, Removal!answer
<1>6. ASSUME NEW move, Removal!Move(move) PROVE RemoveInv'
  BY <1>6, RemoveQuiet DEF Removal!Move
<1>7. ASSUME NEW currencies, Removal!select(currencies) PROVE RemoveInv'
  BY <1>7, RemoveQuiet DEF Removal!select, Removal!chain
<1>8. ASSUME NEW c, Removal!handleSelectCurrencyA(c) \/ Removal!handleSelectCurrencyB(c)
      PROVE  RemoveInv'
  BY <1>7, <1>8 DEF Removal!handleSelectCurrencyA, Removal!handleSelectCurrencyB
<1>9. CASE Removal!receive
  BY <1>7, <1>9 DEF Removal!receive
<1> QED
  BY <1>1, <1>2, <1>3, <1>4, <1>5, <1>6, <1>8, <1>9, AskedKeeps, ConfirmKeeps, NoncesKeep,
     ApproveInstead, GasKeeps, ExecuteKeeps DEF Removal!Next

-----------------------------------------------------------------------------
LEMMA SiteKeeps == SwapInv /\ RemoveInv /\ [SiteNext]_<<path, vars, removalVars>>
                       => SwapInv' /\ RemoveInv'
<1> SUFFICES ASSUME SwapInv, RemoveInv, [SiteNext]_<<path, vars, removalVars>>
             PROVE  SwapInv' /\ RemoveInv'
  OBVIOUS
<1>1. [Next]_vars
  BY DEF SiteNext
<1>2. SwapInv'
  BY <1>1, SwapStep
<1>3. CASE UNCHANGED removalVars
  BY <1>2, <1>3, RemoveQuiet DEF removalVars
<1>4. CASE Removal!Next
  BY <1>2, <1>4, RemoveStep
<1> QED
  BY <1>3, <1>4 DEF SiteNext

LEMMA SiteStarts == SiteInit => SwapInv /\ RemoveInv
<1> SUFFICES ASSUME SiteInit PROVE SwapInv /\ RemoveInv
  OBVIOUS
<1>1. SwapInv
  BY SwapStarts DEF SiteInit
<1>2. tasks = {} /\ removed = {}
  BY DEF SiteInit, Removal!Init
<1> QED
  BY <1>1, <1>2 DEF RemoveInv, RemovedAsShown, Removal!RemovedAsShown

(* A swap that went through kept within the tolerance of what the user     *)
(* accepted, for any pools and however late its promise; see               *)
(* SwapGivesWhatWasAccepted in SwapPage.                                   *)
THEOREM SwapsAreAsAccepted == SiteSpec => []SwapGivesWhatWasAccepted
BY SiteStarts, SiteKeeps, SwapSafe, PTL DEF SiteSpec

(* The swap page waits for the wallet only while a swap is on its way; see *)
(* WaitsOnlyInFlight in SwapPage.                                          *)
THEOREM WaitingEnds == SiteSpec => []WaitsOnlyInFlight
BY SiteStarts, SiteKeeps, SwapSafe, PTL DEF SiteSpec

(* A removal burnt what was confirmed and gave it within the tolerance,    *)
(* whichever of the two currencies is ether; see RemovePage.               *)
THEOREM RemovalsAreAsShown == SiteSpec => []RemovedAsShown
<1>1. RemoveInv => RemovedAsShown
  BY DEF RemoveInv
<1> QED
  BY <1>1, SiteStarts, SiteKeeps, PTL DEF SiteSpec

(* No removal is sent with a permit for another amount or another pair,    *)
(* though signatures come back late and outlive a change of currencies;    *)
(* see PermitFits in RemovePage.                                           *)
THEOREM PermitsFit == SiteSpec => []PermitFits
<1>1. RemoveInv => PermitFits
  BY DEF RemoveInv, TaskOK, Fits, ForIts, PermitFits, Removal!PermitFits
<1> QED
  BY <1>1, SiteStarts, SiteKeeps, PTL DEF SiteSpec

-----------------------------------------------------------------------------
(***************************************************************************)
(* The search for the best trade.  Every call is of a higher rank than the *)
(* calls it makes, so the recursion is well defined, and what it finds is  *)
(* shown for the calls of least rank first.                                *)
(***************************************************************************)

Reserves(r) == \A p \in DOMAIN Pairs : \A t \in Pairs[p] : r[p][t] \in Nat

(* A pair has two tokens, each the other of the other.                     *)
LEMMA OtherOf ==
  ASSUME NEW p \in DOMAIN Pairs, NEW t \in Pairs[p]
  PROVE  /\ Other(p, t) \in Pairs[p] /\ Other(p, t) # t
         /\ Other(p, Other(p, t)) = t
         /\ Pairs[p] = {t, Other(p, t)}
         /\ t \in Traded /\ Other(p, t) \in Traded
<1>1. PICK a \in Pairs[p], b \in Pairs[p] : a # b /\ Pairs[p] = {a, b}
  BY PairsAssumption
<1>2. \E u \in Pairs[p] : u # t
  BY <1>1
<1>3. Other(p, t) \in Pairs[p] /\ Other(p, t) # t
  BY <1>2 DEF Other
<1>4. \E u \in Pairs[p] : u # Other(p, t)
  BY <1>3
<1>5. Other(p, Other(p, t)) \in Pairs[p] /\ Other(p, Other(p, t)) # Other(p, t)
  BY <1>4 DEF Other
<1> QED
  BY <1>1, <1>3, <1>5 DEF Traded

(* A quote is an amount, and only for a token of the pair.                 *)
LEMMA QuoteNat ==
  ASSUME NEW r, Reserves(r), NEW type, NEW t, NEW amount \in Nat, NEW p \in DOMAIN Pairs
  PROVE  /\ Quote(r, type, t, amount, p) \in Nat
         /\ Quote(r, type, t, amount, p) # 0 => t \in Pairs[p]
<1>1. CASE t \notin Pairs[p]
  BY <1>1 DEF Quote
<1>2. CASE t \in Pairs[p]
  <2> DEFINE x == r[p][t]
             y == r[p][Other(p, t)]
  <2>1. x \in Nat /\ y \in Nat
    BY <1>2, OtherOf DEF Reserves
  <2>2. getOutputAmount(r, t, amount, p) \in Nat
    <3>1. CASE x = 0 \/ y = 0
      BY <3>1 DEF getOutputAmount
    <3>2. CASE x # 0 /\ y # 0
      <4> DEFINE n == amount * 997 * y
                 d == x * 1000 + amount * 997
      <4>1. n \in Nat
        <5> DEFINE fee == amount * 997
        <5>1. fee \in Nat
          OBVIOUS
        <5> HIDE DEF fee
        <5>2. fee * y \in Nat
          BY <2>1, <5>1
        <5> QED
          BY <5>2 DEF fee
      <4>2. d \in Nat \ {0}
        <5> HIDE DEF x
        <5> QED
          BY <2>1, <3>2
      <4>3. n \div d \in Nat
        BY <4>1, <4>2, DivFacts
      <4> QED
        BY <3>2, <4>3 DEF getOutputAmount
    <3> QED
      BY <3>1, <3>2
  <2>3. getInputAmount(r, t, amount, p) \in Nat
    <3>1. CASE y = 0 \/ x = 0 \/ amount >= x
      BY <3>1 DEF getInputAmount
    <3>2. CASE ~(y = 0 \/ x = 0 \/ amount >= x)
      <4> DEFINE n == y * amount * 1000
                 d == (x - amount) * 997
      <4>1. n \in Nat /\ d \in Nat \ {0}
        <5>1. x - amount \in Nat \ {0}
          BY <2>1, <3>2
        <5> QED
          BY <2>1, <5>1
      <4>2. n \div d \in Nat
        BY <4>1, DivFacts
      <4>3. n \div d + 1 \in Nat
        BY <4>2
      <4> QED
        BY <3>2, <4>3 DEF getInputAmount
    <3> QED
      BY <3>1, <3>2
  <2> QED
    BY <1>2, <2>2, <2>3 DEF Quote
<1> QED
  BY <1>1, <1>2

(* How much a call has left to do: pairs that can be gone through in turn, *)
(* and with each of them one pair fewer.                                   *)
Rank(c) == IF c.i > Len(c.pairs) THEN 0 ELSE Len(c.pairs) * Len(c.pairs) + Len(c.pairs) + 1 - c.i

NextCall(c) == [c EXCEPT !.i = @ + 1]

(* The parameters of a call, and its rank, are what they should be.        *)
LEMMA RankNat ==
  ASSUME NEW start, NEW c \in Calls(start)
  PROVE  /\ Rank(c) \in Nat
         /\ c = [pairs |-> c.pairs, i |-> c.i, hops |-> c.hops, token |-> c.token,
                 amount |-> c.amount, current |-> c.current]
         /\ c.pairs \in Seq(DOMAIN Pairs) /\ Len(c.pairs) \in Nat /\ c.i \in Nat \ {0}
         /\ c.hops \in Nat /\ c.token \in Traded \cup {start} /\ c.amount \in Nat
         /\ c.current \in Seq(DOMAIN Pairs)
<1>1. /\ c = [pairs |-> c.pairs, i |-> c.i, hops |-> c.hops, token |-> c.token,
              amount |-> c.amount, current |-> c.current]
      /\ c.pairs \in Seq(DOMAIN Pairs) /\ c.i \in Nat \ {0}
      /\ c.hops \in Nat /\ c.token \in Traded \cup {start} /\ c.amount \in Nat
      /\ c.current \in Seq(DOMAIN Pairs)
  BY DEF Calls
<1>2. Len(c.pairs) \in Nat
  BY <1>1, LenProperties
<1>3. Rank(c) \in Nat
  <2> DEFINE n == Len(c.pairs)
  <2>1. n * n \in Nat
    BY <1>2
  <2> QED
    BY <1>1, <1>2, <2>1 DEF Rank
<1> QED
  BY <1>1, <1>2, <1>3

(* The loop goes on with a call of lower rank.                             *)
LEMMA NextIsCall ==
  ASSUME NEW start, NEW c \in Calls(start)
  PROVE  /\ NextCall(c) \in Calls(start)
         /\ NextCall(c) = [pairs |-> c.pairs, i |-> c.i + 1, hops |-> c.hops, token |-> c.token,
                           amount |-> c.amount, current |-> c.current]
         /\ c.i <= Len(c.pairs) => Rank(NextCall(c)) < Rank(c)
<1> DEFINE d == [pairs |-> c.pairs, i |-> c.i + 1, hops |-> c.hops, token |-> c.token,
                 amount |-> c.amount, current |-> c.current]
<1>1. NextCall(c) = d
  BY RankNat DEF NextCall
<1>2. d \in Calls(start)
  BY RankNat DEF Calls
<1>3. c.i <= Len(c.pairs) => Rank(d) < Rank(c)
  <2> DEFINE n == Len(c.pairs)
  <2>1. n \in Nat /\ n * n \in Nat /\ c.i \in Nat \ {0}
    BY RankNat
  <2> QED
    BY <2>1 DEF Rank
<1> QED
  BY <1>1, <1>2, <1>3

(* A pair less: the others are still in the list.                          *)
LEMMA RemoveAtFacts ==
  ASSUME NEW S, NEW s \in Seq(S), NEW i \in 1..Len(s)
  PROVE  /\ RemoveAt(s, i) \in Seq(S) /\ Len(RemoveAt(s, i)) = Len(s) - 1
         /\ \A j \in 1..Len(s) : j # i =>
                \E k \in 1..(Len(s) - 1) : RemoveAt(s, i)[k] = s[j]
<1> DEFINE a == SubSeq(s, 1, i - 1)
           b == SubSeq(s, i + 1, Len(s))
<1>1. Len(s) \in Nat /\ \A k \in 1..Len(s) : s[k] \in S
  BY LenProperties, ElementOfSeq
<1>2. /\ a \in Seq(S) /\ Len(a) = i - 1
      /\ \A k \in 1..(i - 1) : a[k] = s[k]
  <2>1. 1 \in Int /\ i - 1 \in Int /\ \A k \in 1..(i - 1) : s[k] \in S
    BY <1>1
  <2>2. /\ a \in Seq(S) /\ Len(a) = (IF 1 <= i - 1 THEN i - 1 - 1 + 1 ELSE 0)
        /\ \A k \in 1..(i - 1 - 1 + 1) : a[k] = s[1 + k - 1]
    BY ONLY <2>1, SubSeqProperties
  <2> HIDE DEF a
  <2> QED
    BY <1>1, <2>2
<1>3. /\ b \in Seq(S) /\ Len(b) = Len(s) - i
      /\ \A k \in 1..(Len(s) - i) : b[k] = s[i + k]
  <2>1. i + 1 \in Int /\ Len(s) \in Int /\ \A k \in (i + 1)..Len(s) : s[k] \in S
    BY <1>1
  <2>2. /\ b \in Seq(S) /\ Len(b) = (IF i + 1 <= Len(s) THEN Len(s) - (i + 1) + 1 ELSE 0)
        /\ \A k \in 1..(Len(s) - (i + 1) + 1) : b[k] = s[i + 1 + k - 1]
    BY ONLY <2>1, SubSeqProperties
  <2> HIDE DEF b
  <2> QED
    BY <1>1, <2>2
<1>4. RemoveAt(s, i) = a \o b
  BY DEF RemoveAt
<1> HIDE DEF a, b
<1>5. /\ a \o b \in Seq(S) /\ Len(a \o b) = Len(a) + Len(b)
      /\ \A k \in 1..(Len(a) + Len(b)) : (a \o b)[k] = IF k <= Len(a) THEN a[k] ELSE b[k - Len(a)]
  BY <1>2, <1>3, ConcatProperties
<1>6. ASSUME NEW j \in 1..Len(s), j # i
      PROVE  \E k \in 1..(Len(s) - 1) : (a \o b)[k] = s[j]
  <2>0. i \in Int /\ j \in Int /\ Len(s) \in Int /\ 1 <= i /\ i <= Len(s) /\ 1 <= j /\ j <= Len(s)
    BY <1>1
  <2>1. CASE j < i
    <3>1. j \in 1..(Len(s) - 1) /\ j \in 1..(i - 1) /\ j \in 1..(Len(a) + Len(b)) /\ j <= Len(a)
      BY <1>2, <1>3, <2>0, <2>1
    <3>2. (a \o b)[j] = s[j]
      BY <1>2, <1>5, <3>1
    <3> QED
      BY <3>1, <3>2
  <2>2. CASE j > i
    <3>1. /\ j - 1 \in 1..(Len(s) - 1) /\ j - 1 \in 1..(Len(a) + Len(b)) /\ ~(j - 1 <= Len(a))
          /\ j - 1 - Len(a) = j - i /\ j - i \in 1..(Len(s) - i) /\ i + (j - i) = j
      BY <1>2, <1>3, <2>0, <2>2
    <3>2. (a \o b)[j - 1] = b[j - i]
      BY <1>5, <3>1
    <3>3. b[j - i] = s[j]
      BY <1>3, <3>1
    <3> QED
      BY <3>1, <3>2, <3>3
  <2>3. j < i \/ j > i
    BY <1>6, <2>0
  <2> QED
    BY <2>1, <2>2, <2>3
<1>7. Len(a \o b) = Len(s) - 1
  BY <1>1, <1>2, <1>3, <1>5
<1> QED
  BY <1>4, <1>5, <1>6, <1>7

(* The recursive call is of lower rank.                                    *)
LEMMA DeeperIsCall ==
  ASSUME NEW start, NEW c \in Calls(start), c.i <= Len(c.pairs), c.hops > 1,
         NEW p, p = c.pairs[c.i], c.token \in Pairs[p], NEW amount \in Nat
  PROVE  /\ p \in DOMAIN Pairs
         /\ Deeper(c, p, amount) \in Calls(start)
         /\ Rank(Deeper(c, p, amount)) < Rank(c)
<1>1. c.i \in 1..Len(c.pairs) /\ c.pairs \in Seq(DOMAIN Pairs) /\ Len(c.pairs) \in Nat
  BY RankNat
<1>2. p \in DOMAIN Pairs
  BY <1>1, ElementOfSeq
<1>3. /\ RemoveAt(c.pairs, c.i) \in Seq(DOMAIN Pairs) /\ Len(RemoveAt(c.pairs, c.i)) = Len(c.pairs) - 1
      /\ \A j \in 1..Len(c.pairs) : j # c.i =>
             \E k \in 1..(Len(c.pairs) - 1) : RemoveAt(c.pairs, c.i)[k] = c.pairs[j]
  BY <1>1, RemoveAtFacts
<1>4. Append(c.current, p) \in Seq(DOMAIN Pairs)
  BY <1>2, RankNat, AppendProperties
<1>5. Other(p, c.token) \in Traded
  BY <1>2, OtherOf
<1>6. c.hops - 1 \in Nat
  BY RankNat
<1> DEFINE d == Deeper(c, p, amount)
<1>7. d = [pairs |-> RemoveAt(c.pairs, c.i), i |-> 1, hops |-> c.hops - 1, token |-> Other(p, c.token),
           amount |-> amount, current |-> Append(c.current, p)]
  BY DEF Deeper
<1> HIDE DEF d
<1>8. d \in Calls(start)
  BY <1>3, <1>4, <1>5, <1>6, <1>7 DEF Calls
<1>9. Rank(d) < Rank(c)
  <2> DEFINE n == Len(c.pairs)
             m == n * n
  <2>1. d.i = 1 /\ Len(d.pairs) = n - 1
    BY <1>3, <1>7
  <2>2. n \in Nat /\ m \in Nat /\ (n - 1) * (n - 1) = m - 2 * n + 1 /\ n >= 1
    BY <1>1
  <2>3. Rank(c) = m + n + 1 - c.i
    BY <1>1 DEF Rank
  <2>4. Rank(d) = IF 1 > n - 1 THEN 0 ELSE (n - 1) * (n - 1) + (n - 1) + 1 - 1
    BY <2>1 DEF Rank
  <2> HIDE DEF n, m
  <2>5. c.i \in 1..n
    BY <1>1 DEF n
  <2> QED
    BY <2>2, <2>3, <2>4, <2>5
<1> QED
  BY <1>2, <1>3, <1>7, <1>8, <1>9 DEF d

(* Of any calls there is one of least rank.                                *)
LEMMA LeastCall ==
  ASSUME NEW start, NEW B \in SUBSET Calls(start), B # {}
  PROVE  \E c \in B : \A d \in B : Rank(c) <= Rank(d)
<1> DEFINE S == {Rank(c) : c \in B}
<1>1. S \in SUBSET Nat /\ S # {}
  BY RankNat
<1>2. PICK n \in S : \A m \in S : n <= m
  <2> HIDE DEF S
  <2> QED
    BY <1>1, LeastExists
<1> QED
  BY <1>2

(* The value of a call from the values of the calls it makes.              *)
Value(r, type, target, f, c) ==
    IF c.i > Len(c.pairs) THEN <<>> ELSE FoundAt(r, type, target, f, c) \o f[NextCall(c)]

(* The value of a call needs only the calls of lower rank.                 *)
LEMMA ValueAgrees ==
  ASSUME NEW r, Reserves(r), NEW type, NEW start, NEW target, NEW c \in Calls(start), NEW f, NEW g,
         \A d \in Calls(start) : Rank(d) < Rank(c) => f[d] = g[d]
  PROVE  Value(r, type, target, f, c) = Value(r, type, target, g, c)
<1>1. CASE c.i > Len(c.pairs)
  BY <1>1 DEF Value
<1>2. CASE ~(c.i > Len(c.pairs))
  <2> DEFINE p == c.pairs[c.i]
             amount == Quote(r, type, c.token, c.amount, p)
  <2>1. c.i <= Len(c.pairs) /\ p \in DOMAIN Pairs
    BY <1>2, RankNat, ElementOfSeq
  <2>2. f[NextCall(c)] = g[NextCall(c)]
    BY <2>1, NextIsCall
  <2>3. amount # 0 /\ c.hops > 1 => f[Deeper(c, p, amount)] = g[Deeper(c, p, amount)]
    <3> SUFFICES ASSUME amount # 0, c.hops > 1
                 PROVE  f[Deeper(c, p, amount)] = g[Deeper(c, p, amount)]
      OBVIOUS
    <3>1. amount \in Nat /\ c.token \in Pairs[p]
      BY <2>1, RankNat, QuoteNat
    <3> QED
      BY <2>1, <3>1, DeeperIsCall
  <2>4. FoundAt(r, type, target, f, c) = FoundAt(r, type, target, g, c)
    <3>1. FoundAt(r, type, target, f, c) =
              (IF amount = 0 THEN <<>>
               ELSE IF Other(p, c.token) = target THEN <<[walk |-> Append(c.current, p), amount |-> amount]>>
               ELSE IF c.hops > 1 THEN f[Deeper(c, p, amount)] ELSE <<>>)
      BY DEF FoundAt
    <3>2. FoundAt(r, type, target, g, c) =
              (IF amount = 0 THEN <<>>
               ELSE IF Other(p, c.token) = target THEN <<[walk |-> Append(c.current, p), amount |-> amount]>>
               ELSE IF c.hops > 1 THEN g[Deeper(c, p, amount)] ELSE <<>>)
      BY DEF FoundAt
    <3> QED
      BY <2>3, <3>1, <3>2
  <2> QED
    BY <1>2, <2>2, <2>4 DEF Value
<1> QED
  BY <1>1, <1>2

(* The search is defined: up to any rank there is one function that does   *)
(* what the calls up to it say.                                            *)
Upto(start, n) == {c \in Calls(start) : Rank(c) < n}
Partial(r, type, start, target, n, f) ==
    \A c \in Upto(start, n) : f[c] = Value(r, type, target, f, c)

(* Two of them agree where both are defined.                               *)
LEMMA PartialsAgree ==
  ASSUME NEW r, Reserves(r), NEW type, NEW start, NEW target, NEW n \in Nat, NEW f, NEW g,
         Partial(r, type, start, target, n, f), Partial(r, type, start, target, n, g)
  PROVE  \A c \in Upto(start, n) : f[c] = g[c]
<1> DEFINE B == {c \in Upto(start, n) : f[c] # g[c]}
<1> SUFFICES ASSUME B # {} PROVE FALSE
  OBVIOUS
<1>1. B \in SUBSET Calls(start)
  BY DEF Upto
<1>2. PICK c \in B : \A d \in B : Rank(c) <= Rank(d)
  <2> HIDE DEF B
  <2> QED
    BY <1>1, LeastCall
<1>3. c \in Calls(start) /\ Rank(c) \in Nat /\ Rank(c) < n
  BY <1>1, RankNat DEF Upto
<1>4. \A d \in Calls(start) : Rank(d) < Rank(c) => f[d] = g[d]
  <2> SUFFICES ASSUME NEW d \in Calls(start), Rank(d) < Rank(c) PROVE f[d] = g[d]
    OBVIOUS
  <2>1. Rank(d) \in Nat
    BY RankNat
  <2>2. d \in Upto(start, n) /\ ~(Rank(c) <= Rank(d))
    BY <1>3, <2>1 DEF Upto
  <2> QED
    BY <1>2, <2>2
<1>5. Value(r, type, target, f, c) = Value(r, type, target, g, c)
  BY <1>3, <1>4, ValueAgrees
<1> QED
  BY <1>2, <1>5 DEF Partial

(* There is one for every rank: the recursion is well defined.             *)
LEMMA PartialExists ==
  ASSUME NEW r, Reserves(r), NEW type, NEW start, NEW target, NEW n \in Nat
  PROVE  \E f : Partial(r, type, start, target, n, f)
<1> DEFINE S == {k \in Nat : ~ \E f : Partial(r, type, start, target, k, f)}
<1> SUFFICES ASSUME S # {} PROVE FALSE
  OBVIOUS
<1>1. PICK m \in S : \A k \in S : m <= k
  BY LeastExists
<1>2. m \in Nat
  OBVIOUS
<1>3. m # 0
  <2> SUFFICES ASSUME m = 0 PROVE FALSE
    OBVIOUS
  <2>1. \A c \in Calls(start) : ~(Rank(c) < 0)
    BY RankNat
  <2>2. Upto(start, 0) = {}
    BY <2>1 DEF Upto
  <2>3. Partial(r, type, start, target, 0, [x \in {} |-> x])
    BY <2>2 DEF Partial
  <2> QED
    BY <2>3
<1>4. m - 1 \in Nat /\ m - 1 \notin S
  <2> HIDE DEF S
  <2> QED
    BY <1>1, <1>2, <1>3
<1>5. PICK f : Partial(r, type, start, target, m - 1, f)
  BY <1>4
<1> DEFINE g == [c \in Calls(start) |-> Value(r, type, target, f, c)]
<1>6. \A c \in Upto(start, m - 1) : g[c] = f[c]
  BY <1>5 DEF Partial, Upto
<1> HIDE DEF S
<1>7. ASSUME NEW c \in Upto(start, m)
      PROVE  g[c] = Value(r, type, target, g, c)
  <2>1. c \in Calls(start) /\ g[c] = Value(r, type, target, f, c)
    BY DEF Upto
  <2> HIDE DEF g
  <2>2. \A d \in Calls(start) : Rank(d) < Rank(c) => f[d] = g[d]
    <3> SUFFICES ASSUME NEW d \in Calls(start), Rank(d) < Rank(c) PROVE f[d] = g[d]
      OBVIOUS
    <3>1. Rank(d) \in Nat /\ Rank(c) \in Nat /\ Rank(c) < m
      BY RankNat DEF Upto
    <3>2. d \in Upto(start, m - 1)
      BY <1>2, <3>1 DEF Upto
    <3> QED
      BY <1>6, <3>2
  <2>3. Value(r, type, target, f, c) = Value(r, type, target, g, c)
    BY <2>1, <2>2, ValueAgrees
  <2> QED
    BY <2>1, <2>3
<1> HIDE DEF g
<1>8. Partial(r, type, start, target, m, g)
  BY <1>7 DEF Partial
<1> QED
  BY <1>1, <1>8 DEF S

(* The search is what its definition says for every call.                  *)
LEMMA SearchValue ==
  ASSUME NEW r, Reserves(r), NEW type, NEW start, NEW target, NEW c \in Calls(start)
  PROVE  Search(r, type, start, target)[c] =
             Value(r, type, target, Search(r, type, start, target), c)
<1> DEFINE P(n) == CHOOSE f : Partial(r, type, start, target, n, f)
           g == [d \in Calls(start) |-> P(Rank(d) + 1)[d]]
<1>1. \A n \in Nat : Partial(r, type, start, target, n, P(n))
  BY PartialExists
<1>2. \A d \in Calls(start) : Rank(d) \in Nat /\ d \in Upto(start, Rank(d) + 1)
  BY RankNat DEF Upto
<1>3. \A d \in Calls(start) : g[d] = P(Rank(d) + 1)[d]
  OBVIOUS
<1>4. g = [d \in Calls(start) |-> g[d]]
  OBVIOUS
<1> HIDE DEF P, g
<1>5. ASSUME NEW d \in Calls(start)
      PROVE  g[d] = Value(r, type, target, g, d)
  <2> DEFINE n == Rank(d) + 1
             f == P(n)
  <2>1. n \in Nat /\ Partial(r, type, start, target, n, f) /\ d \in Upto(start, n)
    BY <1>1, <1>2
  <2>2. f[d] = Value(r, type, target, f, d)
    BY <2>1 DEF Partial
  <2>3. \A e \in Calls(start) : Rank(e) < Rank(d) => g[e] = f[e]
    <3> SUFFICES ASSUME NEW e \in Calls(start), Rank(e) < Rank(d) PROVE g[e] = f[e]
      OBVIOUS
    <3> DEFINE m == Rank(e) + 1
    <3>1. m \in Nat /\ Partial(r, type, start, target, m, P(m)) /\ e \in Upto(start, m)
      BY <1>1, <1>2
    <3>2. Partial(r, type, start, target, m, f)
      <4>1. \A x \in Upto(start, m) : x \in Upto(start, n)
        <5> SUFFICES ASSUME NEW x \in Upto(start, m) PROVE x \in Upto(start, n)
          OBVIOUS
        <5>1. x \in Calls(start) /\ Rank(x) \in Nat /\ Rank(x) < Rank(e) + 1
          BY RankNat DEF Upto
        <5>2. Rank(e) \in Nat /\ Rank(d) \in Nat
          BY RankNat
        <5> QED
          BY <5>1, <5>2 DEF Upto
      <4> QED
        BY <2>1, <4>1 DEF Partial
    <3> HIDE DEF m, n, f
    <3>3. P(m)[e] = f[e]
      BY <3>1, <3>2, PartialsAgree
    <3> QED
      BY <1>3, <3>3 DEF m
  <2> HIDE DEF f
  <2>4. Value(r, type, target, f, d) = Value(r, type, target, g, d)
    BY <2>3, ValueAgrees
  <2> QED
    BY <1>3, <2>2, <2>4 DEF f
<1>6. g = [d \in Calls(start) |-> Value(r, type, target, g, d)]
  BY <1>4, <1>5
<1>7. \E h : h = [d \in Calls(start) |-> Value(r, type, target, h, d)]
  BY <1>6
<1> DEFINE F == Search(r, type, start, target)
<1>8. F = CHOOSE h : h = [d \in Calls(start) |-> Value(r, type, target, h, d)]
  BY DEF Search, Value, NextCall
<1>9. F = [d \in Calls(start) |-> Value(r, type, target, F, d)]
  <2> HIDE DEF F
  <2> QED
    BY <1>7, <1>8
<1> HIDE DEF F
<1>10. F[c] = Value(r, type, target, F, c)
  BY <1>9
<1> QED
  BY <1>10 DEF F

Found == [walk : Seq(DOMAIN Pairs), amount : Nat \ {0}]

(* What is found are walks over the pairs with amounts that are not zero.  *)
LEMMA FoundTyped ==
  ASSUME NEW r, Reserves(r), NEW type, NEW start, NEW target, NEW c \in Calls(start)
  PROVE  Search(r, type, start, target)[c] \in Seq(Found)
<1> DEFINE F == Search(r, type, start, target)
           B == {d \in Calls(start) : F[d] \notin Seq(Found)}
<1> SUFFICES ASSUME B # {} PROVE FALSE
  OBVIOUS
<1>1. PICK d \in B : \A e \in B : Rank(d) <= Rank(e)
  BY LeastCall
<1>2. d \in Calls(start) /\ F[d] \notin Seq(Found) /\ Rank(d) \in Nat
  BY RankNat
<1>3. \A e \in Calls(start) : Rank(e) < Rank(d) => F[e] \in Seq(Found)
  <2> SUFFICES ASSUME NEW e \in Calls(start), Rank(e) < Rank(d), e \in B PROVE FALSE
    OBVIOUS
  <2>1. Rank(e) \in Nat
    BY RankNat
  <2> HIDE DEF B
  <2> QED
    BY <1>1, <1>2, <2>1
<1>4. F[d] = Value(r, type, target, F, d)
  BY SearchValue
<1> HIDE DEF F, B
<1>5. CASE d.i > Len(d.pairs)
  <2>1. F[d] = <<>>
    BY <1>4, <1>5 DEF Value
  <2> QED
    BY <1>2, <2>1, EmptySeq
<1>6. CASE ~(d.i > Len(d.pairs))
  <2> DEFINE p == d.pairs[d.i]
             amount == Quote(r, type, d.token, d.amount, p)
  <2>1. d.i <= Len(d.pairs) /\ p \in DOMAIN Pairs
    BY <1>2, <1>6, RankNat, ElementOfSeq
  <2>2. F[NextCall(d)] \in Seq(Found)
    BY <1>2, <1>3, <2>1, NextIsCall
  <2>3. amount \in Nat /\ (amount # 0 => d.token \in Pairs[p])
    BY <1>2, <2>1, RankNat, QuoteNat
  <2>4. amount # 0 => <<[walk |-> Append(d.current, p), amount |-> amount]>> \in Seq(Found)
    <3>1. Append(d.current, p) \in Seq(DOMAIN Pairs)
      BY <1>2, <2>1, RankNat, AppendProperties
    <3>2. amount # 0 => [walk |-> Append(d.current, p), amount |-> amount] \in Found
      <4> HIDE DEF amount, p
      <4> QED
        BY <2>3, <3>1 DEF Found
    <3> QED
      BY <3>2
  <2>5. amount # 0 /\ d.hops > 1 => F[Deeper(d, p, amount)] \in Seq(Found)
    <3> SUFFICES ASSUME amount # 0, d.hops > 1 PROVE F[Deeper(d, p, amount)] \in Seq(Found)
      OBVIOUS
    <3>1. Deeper(d, p, amount) \in Calls(start) /\ Rank(Deeper(d, p, amount)) < Rank(d)
      BY <1>2, <2>1, <2>3, DeeperIsCall
    <3> QED
      BY <1>3, <3>1
  <2>6. FoundAt(r, type, target, F, d) \in Seq(Found)
    <3>1. FoundAt(r, type, target, F, d) =
              (IF amount = 0 THEN <<>>
               ELSE IF Other(p, d.token) = target THEN <<[walk |-> Append(d.current, p), amount |-> amount]>>
               ELSE IF d.hops > 1 THEN F[Deeper(d, p, amount)] ELSE <<>>)
      BY DEF FoundAt
    <3>2. <<>> \in Seq(Found)
      BY EmptySeq
    <3> HIDE DEF p, amount
    <3> QED
      BY <2>4, <2>5, <3>1, <3>2
  <2>7. FoundAt(r, type, target, F, d) \o F[NextCall(d)] \in Seq(Found)
    BY <2>2, <2>6, ConcatProperties
  <2> QED
    BY <1>2, <1>4, <1>6, <2>7 DEF Value
<1> QED
  BY <1>5, <1>6

(* What a call finds at its pair and what it finds after it, both are in   *)
(* what it finds.                                                          *)
LEMMA FoundParts ==
  ASSUME NEW r, Reserves(r), NEW type, NEW start, NEW target, NEW c \in Calls(start),
         c.i <= Len(c.pairs), NEW F, F = Search(r, type, start, target)
  PROVE  /\ F[c] \in Seq(Found) /\ F[NextCall(c)] \in Seq(Found)
         /\ FoundAt(r, type, target, F, c) \in Seq(Found)
         /\ \A k \in DOMAIN F[NextCall(c)] : \E m \in DOMAIN F[c] : F[c][m] = F[NextCall(c)][k]
         /\ \A k \in DOMAIN FoundAt(r, type, target, F, c) :
                \E m \in DOMAIN F[c] : F[c][m] = FoundAt(r, type, target, F, c)[k]
         /\ \A m \in DOMAIN F[c] :
                \/ \E k \in DOMAIN F[NextCall(c)] : F[c][m] = F[NextCall(c)][k]
                \/ \E k \in DOMAIN FoundAt(r, type, target, F, c) :
                       F[c][m] = FoundAt(r, type, target, F, c)[k]
<1> DEFINE a == FoundAt(r, type, target, F, c)
           b == F[NextCall(c)]
<1>1. c.i \in Nat /\ Len(c.pairs) \in Nat /\ ~(c.i > Len(c.pairs))
  BY RankNat
<1>2. F[c] = a \o b
  <2>1. F[c] = Value(r, type, target, F, c)
    BY SearchValue
  <2> QED
    BY <1>1, <2>1 DEF Value
<1>3. F[c] \in Seq(Found) /\ b \in Seq(Found)
  BY FoundTyped, NextIsCall
<1>4. a \in Seq(Found)
  <2> DEFINE p == c.pairs[c.i]
             amount == Quote(r, type, c.token, c.amount, p)
  <2>1. p \in DOMAIN Pairs
    BY <1>1, RankNat, ElementOfSeq
  <2>2. amount \in Nat /\ (amount # 0 => c.token \in Pairs[p])
    BY <2>1, RankNat, QuoteNat
  <2>3. amount # 0 => <<[walk |-> Append(c.current, p), amount |-> amount]>> \in Seq(Found)
    <3>1. Append(c.current, p) \in Seq(DOMAIN Pairs)
      BY <2>1, RankNat, AppendProperties
    <3>2. amount # 0 => [walk |-> Append(c.current, p), amount |-> amount] \in Found
      <4> HIDE DEF amount, p
      <4> QED
        BY <2>2, <3>1 DEF Found
    <3> QED
      BY <3>2
  <2>4. amount # 0 /\ c.hops > 1 => F[Deeper(c, p, amount)] \in Seq(Found)
    <3> SUFFICES ASSUME amount # 0, c.hops > 1 PROVE F[Deeper(c, p, amount)] \in Seq(Found)
      OBVIOUS
    <3>1. Deeper(c, p, amount) \in Calls(start)
      BY <2>1, <2>2, DeeperIsCall
    <3> QED
      BY <3>1, FoundTyped
  <2>5. a = (IF amount = 0 THEN <<>>
             ELSE IF Other(p, c.token) = target THEN <<[walk |-> Append(c.current, p), amount |-> amount]>>
             ELSE IF c.hops > 1 THEN F[Deeper(c, p, amount)] ELSE <<>>)
    BY DEF FoundAt
  <2>6. <<>> \in Seq(Found)
    BY EmptySeq
  <2> HIDE DEF p, amount, a
  <2> QED
    BY <2>3, <2>4, <2>5, <2>6
<1> HIDE DEF a, b
<1>5. /\ Len(a) \in Nat /\ Len(b) \in Nat /\ DOMAIN a = 1..Len(a) /\ DOMAIN b = 1..Len(b)
      /\ DOMAIN (a \o b) = 1..(Len(a) + Len(b))
      /\ \A i \in 1..(Len(a) + Len(b)) : (a \o b)[i] = IF i <= Len(a) THEN a[i] ELSE b[i - Len(a)]
  BY <1>3, <1>4, ConcatProperties, LenProperties
<1>6. ASSUME NEW k \in DOMAIN b
      PROVE  \E m \in DOMAIN (a \o b) : (a \o b)[m] = b[k]
  <2>1. /\ Len(a) + k \in 1..(Len(a) + Len(b)) /\ ~(Len(a) + k <= Len(a))
        /\ Len(a) + k - Len(a) = k
    BY <1>5
  <2> QED
    BY <1>5, <2>1
<1>7. ASSUME NEW k \in DOMAIN a
      PROVE  \E m \in DOMAIN (a \o b) : (a \o b)[m] = a[k]
  <2>1. k \in 1..(Len(a) + Len(b)) /\ k <= Len(a)
    BY <1>5
  <2> QED
    BY <1>5, <2>1
<1>8. ASSUME NEW m \in DOMAIN (a \o b)
      PROVE  \/ \E k \in DOMAIN b : (a \o b)[m] = b[k]
             \/ \E k \in DOMAIN a : (a \o b)[m] = a[k]
  <2>1. CASE m <= Len(a)
    <3>1. m \in DOMAIN a /\ (a \o b)[m] = a[m]
      BY <1>5, <2>1
    <3> QED
      BY <3>1
  <2>2. CASE ~(m <= Len(a))
    <3>1. m - Len(a) \in DOMAIN b /\ (a \o b)[m] = b[m - Len(a)]
      BY <1>5, <2>2
    <3> QED
      BY <3>1
  <2> QED
    BY <2>1, <2>2
<1> DEFINE fc == F[c]
<1>9. fc = a \o b
  BY <1>2
<1> HIDE DEF fc
<1>10. /\ \A k \in DOMAIN b : \E m \in DOMAIN fc : fc[m] = b[k]
       /\ \A k \in DOMAIN a : \E m \in DOMAIN fc : fc[m] = a[k]
       /\ \A m \in DOMAIN fc : \/ \E k \in DOMAIN b : fc[m] = b[k]
                              \/ \E k \in DOMAIN a : fc[m] = a[k]
  BY <1>6, <1>7, <1>8, <1>9
<1> QED
  BY <1>3, <1>4, <1>10 DEF a, b, fc

(* A walk: the tokens it visits, the pairs between them, and the amounts.  *)
Leads(r, type, s, ts, qs) ==
    \A k \in 1..Len(s) :
        /\ ts[k] \in Pairs[s[k]] /\ ts[k + 1] = Other(s[k], ts[k])
        /\ qs[k + 1] = Quote(r, type, ts[k], qs[k], s[k]) /\ qs[k + 1] # 0

(* A walk that visits no token twice, over pairs the call may still take.  *)
Open(c, target, s, ts) ==
    /\ s \in Seq(DOMAIN Pairs) /\ Len(s) \in 1..c.hops
    /\ ts[1] = c.token /\ ts[Len(s) + 1] = target
    /\ \A j, k \in 1..(Len(s) + 1) : ts[j] = ts[k] => j = k
    /\ \A k \in 1..Len(s) : \E j \in 1..Len(c.pairs) : c.pairs[j] = s[k]
    /\ \E j \in c.i..Len(c.pairs) : c.pairs[j] = s[1]

(* A walk over pairs that are still open to the call is found, within the  *)
(* hops that are left.                                                     *)
LEMMA SearchComplete ==
  ASSUME NEW r, Reserves(r), NEW type, NEW start, NEW target, NEW c \in Calls(start),
         NEW s, NEW ts, NEW qs, Open(c, target, s, ts), Leads(r, type, s, ts, qs), qs[1] = c.amount,
         NEW F, F = Search(r, type, start, target)
  PROVE  \E m \in DOMAIN F[c] : F[c][m].amount = qs[Len(s) + 1]
<1> DEFINE Lost(e) == \E w, us, bs :
               /\ Open(e, target, w, us) /\ Leads(r, type, w, us, bs) /\ bs[1] = e.amount
               /\ ~ \E m \in DOMAIN F[e] : F[e][m].amount = bs[Len(w) + 1]
           B == {e \in Calls(start) : Lost(e)}
<1> SUFFICES ASSUME ~ \E m \in DOMAIN F[c] : F[c][m].amount = qs[Len(s) + 1] PROVE FALSE
  OBVIOUS
<1>0. B # {}
  <2>1. Lost(c)
    OBVIOUS
  <2> HIDE DEF Lost
  <2> QED
    BY <2>1
<1>1. PICK d \in B : \A e \in B : Rank(d) <= Rank(e)
  <2> HIDE DEF Lost
  <2> QED
    BY <1>0, LeastCall
<1>2. d \in Calls(start) /\ Lost(d) /\ Rank(d) \in Nat
  BY RankNat
<1>3. \A e \in Calls(start) : Rank(e) < Rank(d) => ~Lost(e)
  <2> SUFFICES ASSUME NEW e \in Calls(start), Rank(e) < Rank(d), e \in B PROVE FALSE
    OBVIOUS
  <2>1. Rank(e) \in Nat
    BY RankNat
  <2> HIDE DEF B
  <2> QED
    BY <1>1, <1>2, <2>1
<1>4. PICK w, us, bs :
          /\ Open(d, target, w, us) /\ Leads(r, type, w, us, bs) /\ bs[1] = d.amount
          /\ ~ \E m \in DOMAIN F[d] : F[d][m].amount = bs[Len(w) + 1]
  BY <1>2
<1> HIDE DEF B
<1> DEFINE p == d.pairs[d.i]
           n == Len(w)
<1>5. /\ w \in Seq(DOMAIN Pairs) /\ n \in Nat /\ 1 <= n /\ n <= d.hops /\ d.hops \in Nat
      /\ \A k \in 1..n : w[k] \in DOMAIN Pairs
  <2>1. w \in Seq(DOMAIN Pairs) /\ n \in 1..d.hops
    BY <1>4 DEF Open
  <2>2. d.hops \in Nat
    BY <1>2, RankNat
  <2>3. n \in Nat /\ 1 <= n /\ n <= d.hops
    BY <2>1, <2>2
  <2> QED
    BY <2>1, <2>2, <2>3, ElementOfSeq
<1>6. /\ d.i \in 1..Len(d.pairs) /\ d.i <= Len(d.pairs) /\ Len(d.pairs) \in Nat
      /\ d.i \in Nat /\ p \in DOMAIN Pairs
  <2>1. d.i \in Nat \ {0} /\ Len(d.pairs) \in Nat /\ d.pairs \in Seq(DOMAIN Pairs)
    BY <1>2, RankNat
  <2>2. \E j \in d.i..Len(d.pairs) : d.pairs[j] = w[1]
    BY <1>4 DEF Open
  <2>3. d.i \in 1..Len(d.pairs)
    BY <2>1, <2>2
  <2> QED
    BY <2>1, <2>3, ElementOfSeq
<1>7. \A k \in DOMAIN FoundAt(r, type, target, F, d) :
          \E m \in DOMAIN F[d] : F[d][m] = FoundAt(r, type, target, F, d)[k]
  BY <1>2, <1>6, FoundParts
<1>8. \A k \in DOMAIN F[NextCall(d)] : \E m \in DOMAIN F[d] : F[d][m] = F[NextCall(d)][k]
  BY <1>2, <1>6, FoundParts
<1>9. CASE w[1] # p
  <2> DEFINE e == NextCall(d)
  <2>1. /\ e \in Calls(start) /\ Rank(e) < Rank(d) /\ e.pairs = d.pairs /\ e.i = d.i + 1
        /\ e.hops = d.hops /\ e.token = d.token /\ e.amount = d.amount
    BY <1>2, <1>6, NextIsCall
  <2> HIDE DEF e
  <2>2. PICK j \in d.i..Len(d.pairs) : d.pairs[j] = w[1]
    BY <1>4 DEF Open
  <2>3. j \in e.i..Len(e.pairs)
    BY <1>6, <1>9, <2>1, <2>2
  <2>4. Open(e, target, w, us) /\ bs[1] = e.amount
    BY <1>4, <2>1, <2>2, <2>3 DEF Open
  <2>5. \E m \in DOMAIN F[e] : F[e][m].amount = bs[Len(w) + 1]
    BY <1>3, <1>4, <2>1, <2>4
  <2> QED
    BY <1>4, <1>8, <2>5 DEF e
<1>10. CASE w[1] = p
  <2> DEFINE amount == Quote(r, type, d.token, d.amount, p)
  <2>1. /\ us[1] = d.token /\ us[n + 1] = target
        /\ \A j, k \in 1..(n + 1) : us[j] = us[k] => j = k
    BY <1>4 DEF Open
  <2>2. /\ us[1] \in Pairs[p] /\ us[2] = Other(p, us[1])
        /\ bs[2] = Quote(r, type, us[1], bs[1], p) /\ bs[2] # 0
    <3>1. 1 \in 1..Len(w) /\ 1 + 1 = 2
      BY <1>5
    <3> QED
      BY <1>4, <1>10, <3>1 DEF Leads
  <2>3. amount = bs[2] /\ amount # 0 /\ amount \in Nat /\ us[2] = Other(p, d.token) /\ d.token \in Pairs[p]
    BY <1>2, <1>4, <1>6, <2>1, <2>2, RankNat, QuoteNat
  <2>4. FoundAt(r, type, target, F, d) =
            (IF amount = 0 THEN <<>>
             ELSE IF Other(p, d.token) = target THEN <<[walk |-> Append(d.current, p), amount |-> amount]>>
             ELSE IF d.hops > 1 THEN F[Deeper(d, p, amount)] ELSE <<>>)
    BY DEF FoundAt
  <2> HIDE DEF p, amount
  <2>5. CASE n = 1
    <3>1. Other(p, d.token) = target /\ bs[n + 1] = amount
      BY <2>1, <2>3, <2>5
    <3> DEFINE one == <<[walk |-> Append(d.current, p), amount |-> amount]>>
    <3>2. FoundAt(r, type, target, F, d) = one
      BY <2>3, <2>4, <3>1
    <3>3. 1 \in DOMAIN one /\ one[1].amount = amount
      OBVIOUS
    <3> HIDE DEF one
    <3> QED
      BY <1>4, <1>7, <3>1, <3>2, <3>3
  <2>6. CASE n # 1
    <3>1. n > 1 /\ d.hops > 1 /\ Other(p, d.token) # target
      <4>1. n > 1 /\ 2 \in 1..(n + 1) /\ n + 1 \in 1..(n + 1) /\ n + 1 # 2
        <5> HIDE DEF n
        <5> QED
          BY <1>5, <2>6
      <4>2. us[2] # us[n + 1]
        BY <2>1, <4>1
      <4> QED
        BY <1>5, <2>1, <2>3, <4>1, <4>2
    <3> DEFINE e == Deeper(d, p, amount)
               v == Tail(w)
               vs == [k \in 1..n |-> us[k + 1]]
               cs == [k \in 1..n |-> bs[k + 1]]
    <3>2. e \in Calls(start) /\ Rank(e) < Rank(d)
      <4>1. p = d.pairs[d.i]
        BY DEF p
      <4> QED
        BY <1>2, <1>6, <2>3, <3>1, <4>1, DeeperIsCall
    <3>2a. /\ Len(e.pairs) = Len(d.pairs) - 1
           /\ \A j \in 1..Len(d.pairs) : j # d.i =>
                 \E k \in 1..(Len(d.pairs) - 1) : e.pairs[k] = d.pairs[j]
      <4>1. e.pairs = RemoveAt(d.pairs, d.i)
        BY DEF Deeper
      <4>2. d.pairs \in Seq(DOMAIN Pairs)
        BY <1>2, RankNat
      <4>3. d.i \in 1..Len(d.pairs)
        BY <1>6
      <4>4. /\ Len(RemoveAt(d.pairs, d.i)) = Len(d.pairs) - 1
            /\ \A j \in 1..Len(d.pairs) : j # d.i =>
                  \E k \in 1..(Len(d.pairs) - 1) : RemoveAt(d.pairs, d.i)[k] = d.pairs[j]
        BY ONLY <4>2, <4>3, RemoveAtFacts
      <4> HIDE DEF e
      <4> QED
        BY <4>1, <4>4
    <3>3. e.i = 1 /\ e.hops = d.hops - 1 /\ e.token = us[2] /\ e.amount = bs[2]
      BY <2>3 DEF Deeper
    <3>4. FoundAt(r, type, target, F, d) = F[e]
      BY <2>3, <2>4, <3>1
    <3>5. v \in Seq(DOMAIN Pairs) /\ Len(v) = n - 1 /\ \A k \in 1..(n - 1) : v[k] = w[k + 1]
      <4>1. w # <<>>
        BY <1>5
      <4> QED
        BY <1>5, <4>1, HeadTailProperties
    <3>6. Len(v) + 1 = n /\ vs[n] = us[n + 1] /\ cs[n] = bs[n + 1] /\ vs[1] = us[2] /\ cs[1] = bs[2]
      BY <1>5, <3>5
    <3>7. \A k \in 1..n : vs[k] = us[k + 1] /\ cs[k] = bs[k + 1]
      OBVIOUS
    <3> HIDE DEF e, v, vs, cs
    <3>8. Leads(r, type, v, vs, cs)
      <4> SUFFICES ASSUME NEW k \in 1..Len(v)
                   PROVE  /\ vs[k] \in Pairs[v[k]] /\ vs[k + 1] = Other(v[k], vs[k])
                          /\ cs[k + 1] = Quote(r, type, vs[k], cs[k], v[k]) /\ cs[k + 1] # 0
        BY DEF Leads
      <4>1. k \in 1..(n - 1) /\ k \in 1..n /\ k + 1 \in 1..n
        BY <1>5, <3>5
      <4>2. /\ us[k + 1] \in Pairs[w[k + 1]] /\ us[k + 1 + 1] = Other(w[k + 1], us[k + 1])
            /\ bs[k + 1 + 1] = Quote(r, type, us[k + 1], bs[k + 1], w[k + 1]) /\ bs[k + 1 + 1] # 0
        BY <1>4, <4>1 DEF Leads
      <4>3. v[k] = w[k + 1]
        BY <3>5, <4>1
      <4> QED
        BY <3>7, <4>1, <4>2, <4>3
    <3>9. \A k \in 1..Len(v) : \E j \in 1..Len(e.pairs) : e.pairs[j] = v[k]
      <4> SUFFICES ASSUME NEW k \in 1..Len(v)
                   PROVE  \E j \in 1..Len(e.pairs) : e.pairs[j] = v[k]
        OBVIOUS
      <4>1. /\ k + 1 \in 1..n /\ k \in 1..(n - 1) /\ v[k] = w[k + 1] /\ 1 \in 1..(n + 1)
            /\ k + 1 \in 1..(n + 1) /\ k + 1 + 1 \in 1..(n + 1) /\ 1 # k + 1 /\ 1 # k + 1 + 1
        BY <1>5, <3>5
      <4>2. PICK j \in 1..Len(d.pairs) : d.pairs[j] = w[k + 1]
        BY <1>4, <4>1 DEF Open
      <4>3. us[1] # us[k + 1] /\ us[1] # us[k + 1 + 1]
        BY <2>1, <4>1
      <4>4. us[k + 1] \in Pairs[w[k + 1]] /\ us[k + 1 + 1] = Other(w[k + 1], us[k + 1])
        BY <1>4, <4>1 DEF Leads
      <4>5. Pairs[w[k + 1]] = {us[k + 1], us[k + 1 + 1]}
        BY <1>5, <4>1, <4>4, OtherOf
      <4>6. w[k + 1] # p
        BY <2>2, <4>3, <4>5
      <4>7. j # d.i
        BY <4>2, <4>6 DEF p
      <4> QED
        BY <3>2a, <4>1, <4>2, <4>7
    <3>10. Open(e, target, v, vs)
      <4>1. Len(v) \in 1..e.hops
        BY <1>5, <3>1, <3>3, <3>5
      <4>2. vs[1] = e.token /\ vs[Len(v) + 1] = target
        BY <2>1, <3>3, <3>6
      <4>3. \A j, k \in 1..(Len(v) + 1) : vs[j] = vs[k] => j = k
        <5> SUFFICES ASSUME NEW j \in 1..n, NEW k \in 1..n, us[j + 1] = us[k + 1] PROVE j = k
          BY <3>6, <3>7
        <5>1. j + 1 \in 1..(n + 1) /\ k + 1 \in 1..(n + 1)
          BY <1>5
        <5>2. j + 1 = k + 1
          BY <2>1, <5>1
        <5> QED
          BY <5>2
      <4>4. 1 \in 1..Len(v)
        BY <1>5, <3>1, <3>5
      <4>5. \E j \in e.i..Len(e.pairs) : e.pairs[j] = v[1]
        BY <3>3, <3>9, <4>4
      <4> QED
        BY <3>5, <3>9, <4>1, <4>2, <4>3, <4>5 DEF Open
    <3>11. \E m \in DOMAIN F[e] : F[e][m].amount = cs[Len(v) + 1]
      BY <1>3, <3>2, <3>3, <3>6, <3>8, <3>10
    <3>12. \E m \in DOMAIN F[e] : F[e][m].amount = bs[n + 1]
      BY <3>6, <3>11
    <3> QED
      BY <1>4, <1>7, <3>4, <3>12
  <2> QED
    BY <2>5, <2>6
<1> QED
  BY <1>9, <1>10

(* A walk from one token and amount to another.                            *)
Comes(r, type, s, t, amount, u, result) ==
    \E ts, qs : /\ Leads(r, type, s, ts, qs)
                /\ ts[1] = t /\ qs[1] = amount
                /\ ts[Len(s) + 1] = u /\ qs[Len(s) + 1] = result

(* A walk that goes one pair further.                                      *)
LEMMA ComesFurther ==
  ASSUME NEW r, NEW type, NEW s \in Seq(DOMAIN Pairs), NEW t, NEW amount, NEW u, NEW result,
         Comes(r, type, s, t, amount, u, result),
         NEW p \in DOMAIN Pairs, NEW q, q = Quote(r, type, u, result, p), q # 0
  PROVE  Comes(r, type, Append(s, p), t, amount, Other(p, u), q)
<1>1. PICK ts, qs : /\ Leads(r, type, s, ts, qs)
                    /\ ts[1] = t /\ qs[1] = amount
                    /\ ts[Len(s) + 1] = u /\ qs[Len(s) + 1] = result
  BY DEF Comes
<1> DEFINE n == Len(s)
           w == Append(s, p)
           us == [k \in 1..(n + 2) |-> IF k = n + 2 THEN Other(p, u) ELSE ts[k]]
           bs == [k \in 1..(n + 2) |-> IF k = n + 2 THEN q ELSE qs[k]]
<1>2. n \in Nat
  BY LenProperties
<1>3. Len(w) = n + 1 /\ w[n + 1] = p /\ \A k \in 1..n : w[k] = s[k]
  BY <1>2, AppendProperties
<1>4. /\ us[n + 2] = Other(p, u) /\ bs[n + 2] = q
      /\ \A k \in 1..(n + 1) : us[k] = ts[k] /\ bs[k] = qs[k]
  <2>1. n + 2 \in 1..(n + 2) /\ \A k \in 1..(n + 1) : k \in 1..(n + 2) /\ k # n + 2
    BY <1>2
  <2> HIDE DEF n
  <2> QED
    BY <2>1
<1>5. u \in Pairs[p]
  BY DEF Quote
<1> HIDE DEF w, us, bs
<1>6. Leads(r, type, w, us, bs)
  <2> SUFFICES ASSUME NEW k \in 1..Len(w)
               PROVE  /\ us[k] \in Pairs[w[k]] /\ us[k + 1] = Other(w[k], us[k])
                      /\ bs[k + 1] = Quote(r, type, us[k], bs[k], w[k]) /\ bs[k + 1] # 0
    BY DEF Leads
  <2>1. CASE k = n + 1
    <3>1. k \in 1..(n + 1) /\ k + 1 = n + 2
      BY <1>2, <2>1
    <3>2. us[k] = u /\ bs[k] = result /\ us[k + 1] = Other(p, u) /\ bs[k + 1] = q /\ w[k] = p
      BY <1>1, <1>3, <1>4, <2>1, <3>1
    <3> QED
      BY <1>5, <3>2
  <2>2. CASE k # n + 1
    <3>1. k \in 1..n /\ k \in 1..(n + 1) /\ k + 1 \in 1..(n + 1)
      BY <1>2, <1>3, <2>2
    <3>2. us[k] = ts[k] /\ bs[k] = qs[k] /\ us[k + 1] = ts[k + 1] /\ bs[k + 1] = qs[k + 1] /\ w[k] = s[k]
      BY <1>3, <1>4, <3>1
    <3>3. /\ ts[k] \in Pairs[s[k]] /\ ts[k + 1] = Other(s[k], ts[k])
          /\ qs[k + 1] = Quote(r, type, ts[k], qs[k], s[k]) /\ qs[k + 1] # 0
      BY <1>1, <3>1 DEF Leads
    <3> QED
      BY <3>2, <3>3
  <2> QED
    BY <2>1, <2>2
<1>7. us[1] = t /\ bs[1] = amount /\ us[Len(w) + 1] = Other(p, u) /\ bs[Len(w) + 1] = q
  <2>1. 1 \in 1..(n + 1) /\ Len(w) + 1 = n + 2
    BY <1>2, <1>3
  <2> QED
    BY <1>1, <1>4, <2>1
<1> QED
  BY <1>6, <1>7 DEF Comes, w

(* What a call finds is found at its pair or by the rest of its loop.      *)
LEMMA FoundSplit ==
  ASSUME NEW r, Reserves(r), NEW type, NEW start, NEW target, NEW c \in Calls(start),
         c.i <= Len(c.pairs), NEW F, F = Search(r, type, start, target), NEW m \in DOMAIN F[c]
  PROVE  \/ \E k \in DOMAIN F[NextCall(c)] : F[c][m] = F[NextCall(c)][k]
         \/ \E k \in DOMAIN FoundAt(r, type, target, F, c) :
                F[c][m] = FoundAt(r, type, target, F, c)[k]
<1>1. \A i \in DOMAIN F[c] :
          \/ \E k \in DOMAIN F[NextCall(c)] : F[c][i] = F[NextCall(c)][k]
          \/ \E k \in DOMAIN FoundAt(r, type, target, F, c) :
                 F[c][i] = FoundAt(r, type, target, F, c)[k]
  BY ONLY Reserves(r), c \in Calls(start), c.i <= Len(c.pairs), F = Search(r, type, start, target),
          FoundParts
<1> QED
  BY <1>1

(* What the search finds is there: its walk gives the amount it says.      *)
LEMMA SearchSound ==
  ASSUME NEW r, Reserves(r), NEW type, NEW start, NEW target, NEW c \in Calls(start),
         NEW t, NEW amount, Comes(r, type, c.current, t, amount, c.token, c.amount),
         NEW F, F = Search(r, type, start, target), NEW m \in DOMAIN F[c]
  PROVE  Comes(r, type, F[c][m].walk, t, amount, target, F[c][m].amount)
<1> DEFINE Goal(f) == Comes(r, type, f.walk, t, amount, target, f.amount)
           False(e) == /\ Comes(r, type, e.current, t, amount, e.token, e.amount)
                       /\ \E k \in DOMAIN F[e] : ~ Goal(F[e][k])
           B == {e \in Calls(start) : False(e)}
<1> SUFFICES ASSUME ~ Goal(F[c][m]) PROVE FALSE
  OBVIOUS
<1>0. False(c)
  <2> HIDE DEF Goal
  <2> QED
    OBVIOUS
<1> HIDE DEF False
<1>1. PICK d \in B : \A e \in B : Rank(d) <= Rank(e)
  BY <1>0, LeastCall
<1>2. d \in Calls(start) /\ False(d) /\ Rank(d) \in Nat
  BY RankNat
<1>3. \A e \in Calls(start) : Rank(e) < Rank(d) => ~False(e)
  <2> SUFFICES ASSUME NEW e \in Calls(start), Rank(e) < Rank(d), e \in B PROVE FALSE
    OBVIOUS
  <2>1. Rank(e) \in Nat
    BY RankNat
  <2> HIDE DEF B
  <2> QED
    BY <1>1, <1>2, <2>1
<1> HIDE DEF Goal, B
<1>4. Comes(r, type, d.current, t, amount, d.token, d.amount)
  BY <1>2 DEF False
<1>5. PICK k \in DOMAIN F[d] : ~ Goal(F[d][k])
  BY <1>2 DEF False
<1>6. d.i <= Len(d.pairs)
  <2> SUFFICES ASSUME ~(d.i <= Len(d.pairs)) PROVE FALSE
    OBVIOUS
  <2>1. d.i > Len(d.pairs)
    BY <1>2, RankNat
  <2>2. F[d] = Value(r, type, target, F, d)
    BY <1>2, SearchValue
  <2>3. F[d] = <<>>
    BY <2>1, <2>2 DEF Value
  <2> QED
    BY <1>5, <2>3
<1> DEFINE p == d.pairs[d.i]
           q == Quote(r, type, d.token, d.amount, p)
           a == FoundAt(r, type, target, F, d)
<1>7. /\ d.pairs \in Seq(DOMAIN Pairs) /\ d.i \in 1..Len(d.pairs) /\ p \in DOMAIN Pairs
      /\ d.current \in Seq(DOMAIN Pairs)
  <2>1. d.pairs \in Seq(DOMAIN Pairs) /\ d.i \in 1..Len(d.pairs) /\ d.current \in Seq(DOMAIN Pairs)
    BY <1>2, <1>6, RankNat
  <2> QED
    BY <2>1, ElementOfSeq
<1>8. q \in Nat /\ (q # 0 => d.token \in Pairs[p])
  BY <1>2, <1>7, RankNat, QuoteNat
<1>9. q # 0 => Comes(r, type, Append(d.current, p), t, amount, Other(p, d.token), q)
  <2> HIDE DEF p
  <2> QED
    BY <1>4, <1>7, ComesFurther
<1>10. CASE \E j \in DOMAIN F[NextCall(d)] : F[d][k] = F[NextCall(d)][j]
  <2> DEFINE e == NextCall(d)
  <2>1. e \in Calls(start) /\ Rank(e) < Rank(d) /\ e.current = d.current /\ e.token = d.token /\ e.amount = d.amount
    BY <1>2, <1>6, NextIsCall
  <2> HIDE DEF e
  <2>2. ~False(e)
    BY <1>3, <2>1
  <2>3. \A j \in DOMAIN F[e] : Goal(F[e][j])
    BY <1>4, <2>1, <2>2 DEF False
  <2> QED
    BY <1>5, <1>10, <2>3 DEF e
<1>11. CASE \E j \in DOMAIN a : F[d][k] = a[j]
  <2>1. a = (IF q = 0 THEN <<>>
             ELSE IF Other(p, d.token) = target THEN <<[walk |-> Append(d.current, p), amount |-> q]>>
             ELSE IF d.hops > 1 THEN F[Deeper(d, p, q)] ELSE <<>>)
    BY DEF FoundAt
  <2> HIDE DEF a
  <2>2. PICK j \in DOMAIN a : F[d][k] = a[j]
    BY <1>11
  <2>3. a # <<>>
    BY <2>2
  <2>4. q # 0
    BY <2>1, <2>3
  <2> HIDE DEF q
  <2>5. CASE Other(p, d.token) = target
    <3> DEFINE f == [walk |-> Append(d.current, p), amount |-> q]
    <3>1. a = <<f>>
      BY <2>1, <2>4, <2>5
    <3>2. f.walk = Append(d.current, p) /\ f.amount = q
      OBVIOUS
    <3> HIDE DEF f
    <3>3. a[j] = f
      BY <2>2, <3>1
    <3>4. Goal(f)
      BY <1>9, <2>4, <2>5, <3>2 DEF Goal
    <3> QED
      BY <1>5, <2>2, <3>3, <3>4
  <2>6. CASE Other(p, d.token) # target
    <3> DEFINE e == Deeper(d, p, q)
    <3>1. a = F[e] /\ d.hops > 1
      BY <2>1, <2>3, <2>4, <2>6
    <3>2. e \in Calls(start) /\ Rank(e) < Rank(d)
      BY <1>2, <1>6, <1>8, <2>4, <3>1, DeeperIsCall
    <3>3. e.current = Append(d.current, p) /\ e.token = Other(p, d.token) /\ e.amount = q
      BY DEF Deeper
    <3> HIDE DEF e
    <3>4. Comes(r, type, e.current, t, amount, e.token, e.amount)
      BY <1>9, <2>4, <3>3
    <3>5. \A i \in DOMAIN F[e] : Goal(F[e][i])
      BY <1>3, <3>2, <3>4 DEF False
    <3> QED
      BY <1>5, <2>2, <3>1, <3>5
  <2> QED
    BY <2>5, <2>6
<1>12. \/ \E j \in DOMAIN F[NextCall(d)] : F[d][k] = F[NextCall(d)][j]
       \/ \E j \in DOMAIN a : F[d][k] = a[j]
  BY <1>2, <1>6, FoundSplit
<1> QED
  BY <1>10, <1>11, <1>12

(* The tokens a walk visits, one after the other.                          *)
LEMMA TokensDef ==
  ASSUME NEW s, Len(s) \in Nat, NEW t,
         NEW f, f = Tokens(s, t)
  PROVE  /\ DOMAIN f = 1..(Len(s) + 1) /\ f[1] = t
         /\ \A k \in 1..Len(s) : f[k + 1] = Other(s[k], f[k])
<1> DEFINE N == Len(s) + 1
           Chain(m, g) == g = [k \in 1..m |-> IF k = 1 THEN t ELSE Other(s[k - 1], g[k - 1])]
           S == {m \in Nat : ~ \E g : Chain(m, g)}
<1>1. S = {}
  <2> SUFFICES ASSUME S # {} PROVE FALSE
    OBVIOUS
  <2>1. PICK m \in S : \A k \in S : m <= k
    BY LeastExists
  <2>2. m \in Nat
    OBVIOUS
  <2>3. CASE m = 0
    <3> DEFINE g == [k \in 1..0 |-> t]
    <3>1. Chain(0, g)
      OBVIOUS
    <3> QED
      BY <2>1, <2>3, <3>1
  <2>4. CASE m # 0
    <3>1. m - 1 \in Nat /\ m - 1 \notin S
      <4> HIDE DEF S
      <4> QED
        BY <2>1, <2>2, <2>4
    <3>2. PICK g : Chain(m - 1, g)
      BY <3>1
    <3> DEFINE h == [k \in 1..m |-> IF k = 1 THEN t ELSE Other(s[k - 1], g[k - 1])]
    <3>3. ASSUME NEW k \in 1..m, k # 1
          PROVE  h[k - 1] = g[k - 1]
      <4>1. k - 1 \in 1..m /\ k - 1 \in 1..(m - 1)
        BY <2>2, <3>3
      <4>2. /\ h[k - 1] = IF k - 1 = 1 THEN t ELSE Other(s[k - 1 - 1], g[k - 1 - 1])
            /\ g[k - 1] = IF k - 1 = 1 THEN t ELSE Other(s[k - 1 - 1], g[k - 1 - 1])
        BY <3>2, <4>1
      <4> QED
        BY <4>2
    <3>4. \A k \in 1..m : h[k] = IF k = 1 THEN t ELSE Other(s[k - 1], g[k - 1])
      OBVIOUS
    <3>5. h = [k \in 1..m |-> h[k]]
      OBVIOUS
    <3> HIDE DEF h
    <3>6. \A k \in 1..m : h[k] = IF k = 1 THEN t ELSE Other(s[k - 1], h[k - 1])
      BY <3>3, <3>4
    <3>7. Chain(m, h)
      BY <3>5, <3>6
    <3> QED
      BY <2>1, <3>7
  <2> QED
    BY <2>3, <2>4
<1>2. N \in Nat /\ N \notin S
  BY <1>1
<1>3. \E g : g = [k \in 1..(Len(s) + 1) |-> IF k = 1 THEN t ELSE Other(s[k - 1], g[k - 1])]
  BY <1>2
<1> HIDE DEF S, N
<1>4. f = [k \in 1..(Len(s) + 1) |-> IF k = 1 THEN t ELSE Other(s[k - 1], f[k - 1])]
  BY <1>3 DEF Tokens
<1>5. \A k \in 1..(Len(s) + 1) : f[k] = IF k = 1 THEN t ELSE Other(s[k - 1], f[k - 1])
  BY <1>4
<1>6. ASSUME NEW k \in 1..Len(s)
      PROVE  f[k + 1] = Other(s[k], f[k])
  <2>1. k + 1 \in 1..(Len(s) + 1) /\ k + 1 # 1 /\ k + 1 - 1 = k
    BY <1>6
  <2>2. f[k + 1] = Other(s[k + 1 - 1], f[k + 1 - 1])
    BY <1>5, <2>1
  <2> QED
    BY <2>1, <2>2
<1>7. 1 \in 1..(Len(s) + 1)
  OBVIOUS
<1> QED
  BY <1>4, <1>5, <1>6, <1>7

(* The amounts along a walk, one after the other.                          *)
LEMMA AmountsDef ==
  ASSUME NEW r, NEW type, NEW s, Len(s) \in Nat, NEW t, NEW amount,
         NEW f, f = AmountsAlong(r, type, s, t, amount)
  PROVE  /\ DOMAIN f = 1..(Len(s) + 1) /\ f[1] = amount
         /\ \A k \in 1..Len(s) : f[k + 1] = (IF f[k] = 0 THEN 0 ELSE Quote(r, type, Tokens(s, t)[k], f[k], s[k]))
<1> DEFINE N == Len(s) + 1
           Chain(m, g) == g = [k \in 1..m |-> IF k = 1 THEN amount ELSE (IF g[k - 1] = 0 THEN 0 ELSE Quote(r, type, Tokens(s, t)[k - 1], g[k - 1], s[k - 1]))]
           S == {m \in Nat : ~ \E g : Chain(m, g)}
<1>1. S = {}
  <2> SUFFICES ASSUME S # {} PROVE FALSE
    OBVIOUS
  <2>1. PICK m \in S : \A k \in S : m <= k
    BY LeastExists
  <2>2. m \in Nat
    OBVIOUS
  <2>3. CASE m = 0
    <3> DEFINE g == [k \in 1..0 |-> amount]
    <3>1. Chain(0, g)
      OBVIOUS
    <3> QED
      BY <2>1, <2>3, <3>1
  <2>4. CASE m # 0
    <3>1. m - 1 \in Nat /\ m - 1 \notin S
      <4> HIDE DEF S
      <4> QED
        BY <2>1, <2>2, <2>4
    <3>2. PICK g : Chain(m - 1, g)
      BY <3>1
    <3> DEFINE h == [k \in 1..m |-> IF k = 1 THEN amount ELSE (IF g[k - 1] = 0 THEN 0 ELSE Quote(r, type, Tokens(s, t)[k - 1], g[k - 1], s[k - 1]))]
    <3>3. ASSUME NEW k \in 1..m, k # 1
          PROVE  h[k - 1] = g[k - 1]
      <4>1. k - 1 \in 1..m /\ k - 1 \in 1..(m - 1)
        BY <2>2, <3>3
      <4>2. /\ h[k - 1] = IF k - 1 = 1 THEN amount ELSE (IF g[k - 1 - 1] = 0 THEN 0 ELSE Quote(r, type, Tokens(s, t)[k - 1 - 1], g[k - 1 - 1], s[k - 1 - 1]))
            /\ g[k - 1] = IF k - 1 = 1 THEN amount ELSE (IF g[k - 1 - 1] = 0 THEN 0 ELSE Quote(r, type, Tokens(s, t)[k - 1 - 1], g[k - 1 - 1], s[k - 1 - 1]))
        BY <3>2, <4>1
      <4> QED
        BY <4>2
    <3>4. \A k \in 1..m : h[k] = IF k = 1 THEN amount ELSE (IF g[k - 1] = 0 THEN 0 ELSE Quote(r, type, Tokens(s, t)[k - 1], g[k - 1], s[k - 1]))
      OBVIOUS
    <3>5. h = [k \in 1..m |-> h[k]]
      OBVIOUS
    <3> HIDE DEF h
    <3>6. \A k \in 1..m : h[k] = IF k = 1 THEN amount ELSE (IF h[k - 1] = 0 THEN 0 ELSE Quote(r, type, Tokens(s, t)[k - 1], h[k - 1], s[k - 1]))
      BY <3>3, <3>4
    <3>7. Chain(m, h)
      BY <3>5, <3>6
    <3> QED
      BY <2>1, <3>7
  <2> QED
    BY <2>3, <2>4
<1>2. N \in Nat /\ N \notin S
  BY <1>1
<1>3. \E g : g = [k \in 1..(Len(s) + 1) |-> IF k = 1 THEN amount ELSE (IF g[k - 1] = 0 THEN 0 ELSE Quote(r, type, Tokens(s, t)[k - 1], g[k - 1], s[k - 1]))]
  BY <1>2
<1> HIDE DEF S, N
<1>4. f = [k \in 1..(Len(s) + 1) |-> IF k = 1 THEN amount ELSE (IF f[k - 1] = 0 THEN 0 ELSE Quote(r, type, Tokens(s, t)[k - 1], f[k - 1], s[k - 1]))]
  BY <1>3 DEF AmountsAlong
<1>5. \A k \in 1..(Len(s) + 1) : f[k] = IF k = 1 THEN amount ELSE (IF f[k - 1] = 0 THEN 0 ELSE Quote(r, type, Tokens(s, t)[k - 1], f[k - 1], s[k - 1]))
  BY <1>4
<1>6. ASSUME NEW k \in 1..Len(s)
      PROVE  f[k + 1] = (IF f[k] = 0 THEN 0 ELSE Quote(r, type, Tokens(s, t)[k], f[k], s[k]))
  <2>1. k + 1 \in 1..(Len(s) + 1) /\ k + 1 # 1 /\ k + 1 - 1 = k
    BY <1>6
  <2>2. f[k + 1] = (IF f[k + 1 - 1] = 0 THEN 0 ELSE Quote(r, type, Tokens(s, t)[k + 1 - 1], f[k + 1 - 1], s[k + 1 - 1]))
    BY <1>5, <2>1
  <2> QED
    BY <2>1, <2>2
<1>7. 1 \in 1..(Len(s) + 1)
  OBVIOUS
<1> QED
  BY <1>4, <1>5, <1>6, <1>7

(* The amounts along a walk are those of any function that follows it.     *)
LEMMA ComesAlong ==
  ASSUME NEW r, NEW type, NEW s, NEW n \in Nat, n = Len(s), NEW t, NEW amount, amount # 0, NEW u, NEW result,
         Comes(r, type, s, t, amount, u, result)
  PROVE  AmountsAlong(r, type, s, t, amount)[n + 1] = result
<1>1. PICK ts, qs : /\ Leads(r, type, s, ts, qs)
                    /\ ts[1] = t /\ qs[1] = amount
                    /\ ts[n + 1] = u /\ qs[n + 1] = result
  BY DEF Comes
<1> DEFINE us == Tokens(s, t)
           bs == AmountsAlong(r, type, s, t, amount)
           S == {k \in 1..(n + 1) : ~(us[k] = ts[k] /\ bs[k] = qs[k])}
<1>2. us[1] = t /\ \A k \in 1..n : us[k + 1] = Other(s[k], us[k])
  BY TokensDef
<1>3. /\ bs[1] = amount
      /\ \A k \in 1..n : bs[k + 1] = (IF bs[k] = 0 THEN 0 ELSE Quote(r, type, us[k], bs[k], s[k]))
  BY AmountsDef
<1> HIDE DEF us, bs
<1> SUFFICES ASSUME S # {} PROVE FALSE
  <2>1. n + 1 \in 1..(n + 1)
    OBVIOUS
  <2> QED
    BY <1>1, <2>1 DEF bs
<1>4. PICK m \in S : \A k \in S : m <= k
  <2>1. S \in SUBSET Nat
    OBVIOUS
  <2> HIDE DEF S
  <2> QED
    BY <2>1, LeastExists
<1>5. m \in Nat /\ m >= 1 /\ m <= n + 1 /\ ~(us[m] = ts[m] /\ bs[m] = qs[m])
  <2>1. m \in 1..(n + 1) /\ ~(us[m] = ts[m] /\ bs[m] = qs[m])
    OBVIOUS
  <2> HIDE DEF S
  <2> QED
    BY <2>1
<1>6. m # 1
  BY <1>1, <1>2, <1>3, <1>5
<1> DEFINE k == m - 1
<1>7. k \in 1..n /\ k \in 1..(n + 1) /\ k + 1 = m /\ ~(m <= k)
  BY <1>5, <1>6
<1>8. us[k] = ts[k] /\ bs[k] = qs[k]
  <2>1. k \notin S
    <3> HIDE DEF S, k
    <3> QED
      BY <1>4, <1>7
  <2> HIDE DEF k
  <2> QED
    BY <1>7, <2>1
<1> HIDE DEF k, S
<1>9. /\ ts[k + 1] = Other(s[k], ts[k])
      /\ qs[k + 1] = Quote(r, type, ts[k], qs[k], s[k])
  BY <1>1, <1>7 DEF Leads
<1>10. qs[k] # 0
  <2>1. CASE k = 1
    BY <1>1, <2>1
  <2>2. CASE k # 1
    <3>1. k - 1 \in 1..n /\ k - 1 + 1 = k
      BY <1>7, <2>2
    <3>2. qs[k - 1 + 1] # 0
      BY <1>1, <3>1 DEF Leads
    <3> QED
      BY <3>1, <3>2
  <2> QED
    BY <2>1, <2>2
<1>11. us[k + 1] = ts[k + 1] /\ bs[k + 1] = qs[k + 1]
  BY <1>2, <1>3, <1>7, <1>8, <1>9, <1>10
<1> QED
  BY <1>5, <1>7, <1>11

(* An amount that has become nothing stays nothing.                        *)
LEMMA AlongNonzero ==
  ASSUME NEW r, NEW type, NEW s, Len(s) \in Nat, NEW t, NEW amount,
         NEW qs, qs = AmountsAlong(r, type, s, t, amount), qs[Len(s) + 1] # 0,
         NEW k \in 1..(Len(s) + 1)
  PROVE  qs[k] # 0
<1> DEFINE S == {m \in k..(Len(s) + 1) : qs[m] # 0}
<1>1. \A m \in 1..Len(s) :
          qs[m + 1] = (IF qs[m] = 0 THEN 0 ELSE Quote(r, type, Tokens(s, t)[m], qs[m], s[m]))
  BY AmountsDef
<1> SUFFICES ASSUME qs[k] = 0 PROVE FALSE
  OBVIOUS
<1>2. Len(s) + 1 \in S /\ S \in SUBSET Nat
  OBVIOUS
<1>3. PICK m \in S : \A j \in S : m <= j
  <2> HIDE DEF S
  <2> QED
    BY <1>2, LeastExists
<1>4. m \in Nat /\ k <= m /\ m <= Len(s) + 1 /\ qs[m] # 0
  OBVIOUS
<1>5. m # k
  BY <1>4
<1>6. m - 1 \in 1..Len(s) /\ m - 1 \in k..(Len(s) + 1) /\ m - 1 + 1 = m /\ ~(m <= m - 1)
  BY <1>4, <1>5
<1>7. m - 1 \notin S
  <2> HIDE DEF S
  <2> QED
    BY <1>3, <1>6
<1>8. qs[m - 1] = 0
  BY <1>6, <1>7
<1> HIDE DEF S
<1>9. qs[m - 1 + 1] = 0
  BY <1>1, <1>6, <1>8
<1> QED
  BY <1>4, <1>6, <1>9

(* A route that gives something leads from amount to amount.               *)
LEMMA RouteLeads ==
  ASSUME NEW r, NEW type, NEW s, Len(s) \in Nat, NEW t, NEW amount,
         NEW ts, ts = Tokens(s, t), \A k \in 1..Len(s) : ts[k] \in Pairs[s[k]],
         NEW qs, qs = AmountsAlong(r, type, s, t, amount), qs[Len(s) + 1] # 0
  PROVE  Leads(r, type, s, ts, qs) /\ ts[1] = t /\ qs[1] = amount
<1>1. ts[1] = t /\ \A k \in 1..Len(s) : ts[k + 1] = Other(s[k], ts[k])
  BY ONLY Len(s) \in Nat, ts = Tokens(s, t), TokensDef
<1>2. /\ qs[1] = amount
      /\ \A k \in 1..Len(s) : qs[k + 1] = (IF qs[k] = 0 THEN 0 ELSE Quote(r, type, ts[k], qs[k], s[k]))
  BY AmountsDef
<1>3. \A k \in 1..(Len(s) + 1) : qs[k] # 0
  BY AlongNonzero
<1>4. \A k \in 1..Len(s) : k \in 1..(Len(s) + 1) /\ k + 1 \in 1..(Len(s) + 1)
  OBVIOUS
<1>5. \A k \in 1..Len(s) : qs[k + 1] # 0 /\ qs[k + 1] = Quote(r, type, ts[k], qs[k], s[k])
  BY <1>2, <1>3, <1>4
<1> QED
  BY <1>1, <1>2, <1>5 DEF Leads

(* A function on the first numbers is a sequence of that length.           *)
LEMMA SeqOfFunction ==
  ASSUME NEW X, NEW n \in Nat, NEW s \in [1..n -> X]
  PROVE  s \in Seq(X) /\ Len(s) = n
<1>1. s \in Seq(X)
  BY SeqDef
<1>2. DOMAIN s = 1..Len(s) /\ Len(s) \in Nat
  BY <1>1, LenProperties
<1>3. \A k : k \in 1..Len(s) <=> k \in 1..n
  BY <1>2
<1>4. PICK l \in Nat : l = Len(s)
  BY <1>2
<1>5. /\ l = 0 \/ l \in 1..l
      /\ n = 0 \/ n \in 1..n
  BY <1>4
<1>6. l = n
  BY <1>3, <1>4, <1>5
<1> QED
  BY <1>1, <1>4, <1>6

(* A sequence turned around, once and twice.                               *)
LEMMA ReverseFacts ==
  ASSUME NEW X, NEW s \in Seq(X), NEW n, n = Len(s)
  PROVE  /\ n \in Nat /\ Reverse(s) \in Seq(X) /\ Len(Reverse(s)) = n
         /\ \A k \in 1..n : Reverse(s)[k] = s[n - k + 1]
         /\ Reverse(Reverse(s)) = s
<1>1. n \in Nat /\ \A k \in 1..n : s[k] \in X
  BY LenProperties, ElementOfSeq
<1>2. \A k \in 1..n : (n - k) + 1 \in 1..n /\ (n - ((n - k) + 1)) + 1 = k
  BY <1>1
<1>3. Reverse(s) = [k \in 1..n |-> s[(n - k) + 1]]
  BY DEF Reverse
<1> DEFINE w == Reverse(s)
<1>4. w \in [1..n -> X]
  BY <1>1, <1>2, <1>3
<1>5. \A k \in 1..n : w[k] = s[(n - k) + 1]
  BY <1>3
<1> HIDE DEF w
<1>6. w \in Seq(X) /\ Len(w) = n
  BY <1>1, <1>4, SeqOfFunction
<1> DEFINE v == Reverse(w)
<1>7. v = [k \in 1..n |-> w[(n - k) + 1]]
  BY <1>6 DEF Reverse
<1>8. v \in [1..n -> X]
  BY <1>2, <1>4, <1>7
<1>9. \A k \in 1..n : v[k] = s[k]
  BY <1>2, <1>5, <1>7
<1> HIDE DEF v
<1>10. v \in Seq(X) /\ Len(v) = n
  BY <1>1, <1>8, SeqOfFunction
<1>11. v = s
  BY <1>9, <1>10, SeqEqual
<1> QED
  BY <1>1, <1>5, <1>6, <1>11 DEF v, w

(* A route walked back visits the same tokens.                             *)
LEMMA WalkBack ==
  ASSUME NEW s \in Seq(DOMAIN Pairs), NEW n, n = Len(s), NEW from, NEW ts, ts = Tokens(s, from),
         \A k \in 1..n : ts[k] \in Pairs[s[k]],
         NEW us, us = Tokens(Reverse(s), ts[n + 1])
  PROVE  /\ Reverse(s) \in Seq(DOMAIN Pairs) /\ Len(Reverse(s)) = n
         /\ \A k \in 1..n : Reverse(s)[k] = s[n - k + 1]
         /\ \A k \in 1..(n + 1) : us[k] = ts[n + 2 - k]
         /\ \A k \in 1..n : us[k] \in Pairs[Reverse(s)[k]]
<1>1. n \in Nat /\ \A k \in 1..n : s[k] \in DOMAIN Pairs
  BY LenProperties, ElementOfSeq
<1> DEFINE w == Reverse(s)
<1>4. w \in Seq(DOMAIN Pairs) /\ Len(w) = n /\ \A k \in 1..n : w[k] = s[n - k + 1]
  BY ReverseFacts
<1> HIDE DEF w
<1>5. \A k \in 1..n : ts[k + 1] = Other(s[k], ts[k])
  BY <1>1, TokensDef
<1>6. us[1] = ts[n + 1] /\ \A k \in 1..n : us[k + 1] = Other(w[k], us[k])
  <2>1. us = Tokens(w, ts[n + 1])
    BY DEF w
  <2> QED
    BY <1>1, <1>4, <2>1, TokensDef
<1> DEFINE S == {k \in 1..(n + 1) : us[k] # ts[n + 2 - k]}
<1>7. S = {}
  <2> SUFFICES ASSUME S # {} PROVE FALSE
    OBVIOUS
  <2>1. PICK m \in S : \A k \in S : m <= k
    <3>1. S \in SUBSET Nat
      BY <1>1
    <3> HIDE DEF S
    <3> QED
      BY <3>1, LeastExists
  <2>2. m \in Nat /\ m >= 1 /\ m <= n + 1 /\ us[m] # ts[n + 2 - m]
    BY <1>1
  <2>3. m # 1
    <3> SUFFICES ASSUME m = 1 PROVE FALSE
      OBVIOUS
    <3>1. n + 2 - m = n + 1
      BY <1>1
    <3> QED
      BY <1>6, <2>2, <3>1
  <2> DEFINE k == m - 1
             j == n + 1 - k
  <2>4. /\ k \in 1..n /\ k \in 1..(n + 1) /\ k + 1 = m /\ ~(m <= k)
        /\ j \in 1..n /\ n + 2 - m = j /\ n + 2 - k = j + 1 /\ n - k + 1 = j
    BY <1>1, <2>2, <2>3
  <2>5. us[k] = ts[j + 1]
    <3>1. k \notin S
      <4> HIDE DEF S, k, j
      <4> QED
        BY <2>1, <2>4
    <3> HIDE DEF k, j
    <3> QED
      BY <2>4, <3>1
  <2> HIDE DEF k, j, S
  <2>6. us[k + 1] = Other(s[j], ts[j + 1])
    BY <1>4, <1>6, <2>4, <2>5
  <2>7. Other(s[j], Other(s[j], ts[j])) = ts[j]
    BY <1>1, <2>4, OtherOf
  <2> QED
    BY <1>5, <2>2, <2>4, <2>6, <2>7
<1>8. ASSUME NEW k \in 1..n
      PROVE  us[k] \in Pairs[w[k]]
  <2> DEFINE j == n - k + 1
  <2>1. k \in 1..(n + 1) /\ j \in 1..n /\ n + 2 - k = j + 1
    BY <1>1
  <2>2. us[k] = ts[n + 2 - k]
    BY <1>7, <2>1
  <2>3. w[k] = s[j]
    BY <1>4
  <2> HIDE DEF j
  <2>4. Other(s[j], ts[j]) \in Pairs[s[j]]
    BY <1>1, <2>1, OtherOf
  <2> QED
    BY <1>5, <2>1, <2>2, <2>3, <2>4
<1> QED
  BY <1>4, <1>7, <1>8 DEF w

-----------------------------------------------------------------------------
(* Of the trades that are inserted one by one the list of one keeps the    *)
(* best.                                                                   *)
LEMMA FirstInserted ==
  ASSUME NEW add
  PROVE  sortedInsert(<<>>, add, 1) = <<add>>
<1>1. Len(<<>>) = 0 /\ DOMAIN <<>> = {}
  OBVIOUS
<1>2. Cardinality({i \in DOMAIN <<>> : ~Before(add, <<>>[i])}) = 0
  <2>1. {i \in DOMAIN <<>> : ~Before(add, <<>>[i])} = {}
    BY <1>1
  <2> QED
    BY <2>1, FS_EmptySet
<1>3. InsertAt(<<>>, 1, add) = <<add>>
  <2>1. SubSeq(<<>>, 1, 0) = <<>>
    BY SubSeqEmpty
  <2>2. SubSeq(<<>>, 1, Len(<<>>)) = <<>>
    BY <1>1, <2>1
  <2>3. InsertAt(<<>>, 1, add) = SubSeq(<<>>, 1, 0) \o <<add>> \o SubSeq(<<>>, 1, Len(<<>>))
    BY DEF InsertAt
  <2>4. <<add>> \in Seq({add})
    OBVIOUS
  <2> QED
    BY <2>1, <2>2, <2>3, <2>4, ConcatEmptySeq
<1>4. SubSeq(<<add>>, 1, Len(<<add>>)) = <<add>>
  <2>1. <<add>> \in Seq({add})
    OBVIOUS
  <2> QED
    BY <2>1, SubSeqFull
<1>5. ~ (Len(<<>>) = 1)
  BY <1>1
<1>6. 0 + 1 = 1
  OBVIOUS
<1> QED
  BY <1>2, <1>3, <1>4, <1>5, <1>6 DEF sortedInsert

(* The next trade takes the place of the one kept when it goes before it.  *)
LEMMA NextInserted ==
  ASSUME NEW x, NEW add
  PROVE  sortedInsert(<<x>>, add, 1) = IF Before(add, x) THEN <<add>> ELSE <<x>>
<1> DEFINE kept == {i \in DOMAIN <<x>> : ~Before(add, <<x>>[i])}
           lo == Cardinality(kept)
           all == InsertAt(<<x>>, lo + 1, add)
<1>1. Len(<<x>>) = 1 /\ DOMAIN <<x>> = {1} /\ <<x>>[1] = x
  OBVIOUS
<1>2. sortedInsert(<<x>>, add, 1) = IF lo = 1 THEN <<x>> ELSE SubSeq(all, 1, 1)
  BY <1>1 DEF sortedInsert
<1>3. CASE Before(add, x)
  <2>1. kept = {}
    BY <1>1, <1>3
  <2> HIDE DEF kept
  <2>2. lo = 0
    BY <2>1, FS_EmptySet
  <2>3. all = SubSeq(<<x>>, 1, 0) \o <<add>> \o SubSeq(<<x>>, 1, Len(<<x>>))
    BY <2>2 DEF InsertAt
  <2>4. SubSeq(<<x>>, 1, 0) = <<>>
    BY SubSeqEmpty
  <2>5. <<x>> \in Seq({x, add}) /\ <<add>> \in Seq({x, add})
    OBVIOUS
  <2>6. SubSeq(<<x>>, 1, Len(<<x>>)) = <<x>>
    BY <2>5, SubSeqFull
  <2>7. all = <<add>> \o <<x>>
    BY <2>3, <2>4, <2>5, <2>6, ConcatEmptySeq
  <2> DEFINE both == <<add>> \o <<x>>
  <2>8. both \in Seq({x, add}) /\ Len(both) = 2 /\ both[1] = add
    <3>1. Len(<<add>>) = 1 /\ Len(<<x>>) = 1 /\ <<add>>[1] = add /\ 1 \in 1..2 /\ 1 + 1 = 2
      OBVIOUS
    <3> QED
      BY <2>5, <3>1, ConcatProperties
  <2> HIDE DEF lo, all, both
  <2>9. SubSeq(both, 1, 1) = <<add>>
    <3>1. SubSeq(both, 1, 1) = <<both[1]>> \o SubSeq(both, 2, 1)
      BY <2>8, SubSeqRecursiveFirst
    <3>2. SubSeq(both, 2, 1) = <<>>
      BY SubSeqEmpty
    <3> QED
      BY <2>5, <2>8, <3>1, <3>2, ConcatEmptySeq
  <2>10. sortedInsert(<<x>>, add, 1) = SubSeq(all, 1, 1)
    BY <1>2, <2>2
  <2> QED
    BY <1>3, <2>7, <2>9, <2>10 DEF both
<1>4. CASE ~Before(add, x)
  <2>1. kept = {1}
    BY <1>1, <1>4
  <2> HIDE DEF kept
  <2>2. lo = 1
    BY <2>1, FS_Singleton
  <2> HIDE DEF lo, all
  <2>3. sortedInsert(<<x>>, add, 1) = <<x>>
    BY <1>2, <2>2
  <2> QED
    BY <1>4, <2>3
<1> QED
  BY <1>3, <1>4

(* What a list of one is ordered by.                                       *)
NotWorse(a, b) == a.out > b.out \/ (a.out = b.out /\ a.in <= b.in)

Sized(a) == a.in \in Nat /\ a.out \in Nat

(* The list after each insertion.                                          *)
LEMMA BestDef ==
  ASSUME NEW trades, NEW n \in Nat, n = Len(trades)
  PROVE  \E f : /\ Best(trades, 1) = f[n] /\ f[0] = <<>>
                /\ \A k \in 1..n : f[k] = sortedInsert(f[k - 1], trades[k], 1)
<1> DEFINE Chain(m, g) == g = [k \in 0..m |-> IF k = 0 THEN <<>> ELSE sortedInsert(g[k - 1], trades[k], 1)]
           S == {m \in Nat : ~ \E g : Chain(m, g)}
<1>1. S = {}
  <2> SUFFICES ASSUME S # {} PROVE FALSE
    OBVIOUS
  <2>1. PICK m \in S : \A k \in S : m <= k
    BY LeastExists
  <2>2. m \in Nat
    OBVIOUS
  <2>3. CASE m = 0
    <3> DEFINE g == [k \in 0..0 |-> <<>>]
    <3>1. g = [k \in 0..0 |-> IF k = 0 THEN <<>> ELSE sortedInsert(g[k - 1], trades[k], 1)]
      OBVIOUS
    <3> QED
      BY <2>1, <2>3, <3>1
  <2>4. CASE m # 0
    <3>1. m - 1 \in Nat /\ m - 1 \notin S
      <4> HIDE DEF S
      <4> QED
        BY <2>1, <2>2, <2>4
    <3>2. PICK g : Chain(m - 1, g)
      BY <3>1
    <3> DEFINE h == [k \in 0..m |-> IF k = 0 THEN <<>> ELSE sortedInsert(g[k - 1], trades[k], 1)]
    <3>3. ASSUME NEW k \in 0..m, k # 0
          PROVE  h[k - 1] = g[k - 1]
      <4>1. k - 1 \in 0..m /\ k - 1 \in 0..(m - 1)
        BY <2>2, <3>3
      <4>2. /\ h[k - 1] = IF k - 1 = 0 THEN <<>> ELSE sortedInsert(g[k - 1 - 1], trades[k - 1], 1)
            /\ g[k - 1] = IF k - 1 = 0 THEN <<>> ELSE sortedInsert(g[k - 1 - 1], trades[k - 1], 1)
        BY <3>2, <4>1
      <4> QED
        BY <4>2
    <3>4. \A k \in 0..m : h[k] = IF k = 0 THEN <<>> ELSE sortedInsert(g[k - 1], trades[k], 1)
      OBVIOUS
    <3>5. h = [k \in 0..m |-> h[k]]
      OBVIOUS
    <3> HIDE DEF h
    <3>6. \A k \in 0..m : h[k] = IF k = 0 THEN <<>> ELSE sortedInsert(h[k - 1], trades[k], 1)
      BY <3>3, <3>4
    <3>7. Chain(m, h)
      BY <3>5, <3>6
    <3> QED
      BY <2>1, <3>7
  <2> QED
    BY <2>3, <2>4
<1>2. n \notin S
  BY <1>1
<1>3. \E g : g = [k \in 0..n |-> IF k = 0 THEN <<>> ELSE sortedInsert(g[k - 1], trades[k], 1)]
  BY <1>2
<1> HIDE DEF S
<1> DEFINE f == CHOOSE g : g = [k \in 0..n |-> IF k = 0 THEN <<>> ELSE sortedInsert(g[k - 1], trades[k], 1)]
<1>4. f = [k \in 0..n |-> IF k = 0 THEN <<>> ELSE sortedInsert(f[k - 1], trades[k], 1)]
  BY <1>3
<1>5. Best(trades, 1) = f[n]
  BY DEF Best
<1> HIDE DEF f
<1>6. \A k \in 0..n : f[k] = IF k = 0 THEN <<>> ELSE sortedInsert(f[k - 1], trades[k], 1)
  BY <1>4
<1>7. f[0] = <<>> /\ \A k \in 1..n : f[k] = sortedInsert(f[k - 1], trades[k], 1)
  BY <1>6
<1> QED
  BY <1>5, <1>7

(* The list of one is empty only when no trade was inserted.               *)
LEMMA BestOfOne ==
  ASSUME NEW trades, NEW n \in Nat, n = Len(trades), \A k \in 1..n : Sized(trades[k])
  PROVE  \/ n = 0 /\ Best(trades, 1) = <<>>
         \/ \E j \in 1..n : /\ Best(trades, 1) = <<trades[j]>>
                            /\ \A k \in 1..n : NotWorse(trades[j], trades[k])
<1>1. PICK f : /\ Best(trades, 1) = f[n] /\ f[0] = <<>>
               /\ \A k \in 1..n : f[k] = sortedInsert(f[k - 1], trades[k], 1)
  BY BestDef
<1> DEFINE Holds(m) == \E j \in 1..m : f[m] = <<trades[j]>> /\ \A k \in 1..m : NotWorse(trades[j], trades[k])
           S == {m \in 1..n : ~ Holds(m)}
<1>2. S = {}
  <2> SUFFICES ASSUME S # {} PROVE FALSE
    OBVIOUS
  <2>1. PICK m \in S : \A k \in S : m <= k
    <3>1. S \in SUBSET Nat
      OBVIOUS
    <3> HIDE DEF S
    <3> QED
      BY <3>1, LeastExists
  <2>2. m \in 1..n /\ ~ Holds(m)
    OBVIOUS
  <2>3. f[m] = sortedInsert(f[m - 1], trades[m], 1)
    BY <1>1, <2>2
  <2>4. NotWorse(trades[m], trades[m])
    <3>1. Sized(trades[m])
      BY <2>2
    <3> QED
      BY <3>1 DEF Sized, NotWorse
  <2>5. m # 1
    <3> SUFFICES ASSUME m = 1 PROVE FALSE
      OBVIOUS
    <3>1. f[1] = <<trades[1]>>
      BY <1>1, <2>3, FirstInserted
    <3>2. \A k \in 1..1 : k = 1
      OBVIOUS
    <3> HIDE DEF S
    <3> QED
      BY <2>2, <2>4, <3>1, <3>2
  <2>6. m - 1 \in 1..n /\ ~ (m <= m - 1) /\ 1..(m - 1) \subseteq 1..m /\ 1..m \subseteq 1..n
        /\ \A k \in 1..m : k = m \/ k \in 1..(m - 1)
    BY <2>2, <2>5
  <2>7. Holds(m - 1)
    <3>1. m - 1 \notin S
      <4> HIDE DEF S
      <4> QED
        BY <2>1, <2>6
    <3> HIDE DEF Holds
    <3> QED
      BY <2>6, <3>1
  <2>8. PICK j \in 1..(m - 1) : /\ f[m - 1] = <<trades[j]>>
                                /\ \A k \in 1..(m - 1) : NotWorse(trades[j], trades[k])
    BY <2>7
  <2> HIDE DEF S
  <2> DEFINE x == trades[j]
             add == trades[m]
  <2>9. j \in 1..m /\ m \in 1..m
    BY <2>2, <2>6
  <2>10. Sized(x) /\ Sized(add) /\ \A k \in 1..(m - 1) : Sized(trades[k])
    BY <2>6, <2>8, <2>9
  <2>11. f[m] = IF Before(add, x) THEN <<add>> ELSE <<x>>
    BY <2>3, <2>8, NextInserted
  <2>12. CASE Before(add, x)
    <3>1. NotWorse(add, x)
      BY <2>10, <2>12 DEF Before, inputOutputBefore, NotWorse, Sized
    <3>2. ASSUME NEW k \in 1..(m - 1)
          PROVE  NotWorse(add, trades[k])
      <4> DEFINE y == trades[k]
      <4>1. NotWorse(x, y) /\ Sized(y)
        BY <2>8, <2>10
      <4> HIDE DEF x, y, add
      <4>2. NotWorse(add, y)
        BY <2>10, <3>1, <4>1 DEF NotWorse, Sized
      <4> QED
        BY <4>2 DEF y
    <3>3. \A k \in 1..m : NotWorse(add, trades[k])
      BY <2>4, <2>6, <3>2
    <3>4. Holds(m)
      BY <2>9, <2>11, <2>12, <3>3
    <3> QED
      BY <2>2, <3>4
  <2>13. CASE ~ Before(add, x)
    <3>1. NotWorse(x, add)
      BY <2>10, <2>13 DEF Before, inputOutputBefore, NotWorse, Sized
    <3>2. \A k \in 1..m : NotWorse(x, trades[k])
      BY <2>6, <2>8, <3>1
    <3>3. Holds(m)
      BY <2>9, <2>11, <2>13, <3>2
    <3> QED
      BY <2>2, <3>3
  <2> QED
    BY <2>12, <2>13
<1>3. n = 0 \/ n \in 1..n
  OBVIOUS
<1>4. n # 0 => Holds(n)
  <2> HIDE DEF Holds
  <2> QED
    BY <1>2, <1>3
<1> QED
  BY <1>1, <1>4

-----------------------------------------------------------------------------
(* A walk over the pairs that visits no token twice, from one to another.  *)
WalkOver(pairs, s, ts, start, target, hops) ==
    /\ s \in Seq(DOMAIN Pairs) /\ Len(s) \in 1..hops
    /\ \A k \in 1..Len(s) : \E j \in 1..Len(pairs) : pairs[j] = s[k]
    /\ \A k \in 1..Len(s) : ts[k] \in Pairs[s[k]]
    /\ \A j, k \in 1..(Len(s) + 1) : ts[j] = ts[k] => j = k
    /\ ts[1] = start /\ ts[Len(s) + 1] = target

(* A route is such a walk.                                                 *)
LEMMA RouteFacts ==
  ASSUME NEW pairs \in Seq(DOMAIN Pairs), NEW from, NEW to, NEW hops \in Nat,
         NEW s \in Routes(pairs, from, to, hops)
  PROVE  WalkOver(pairs, s, Tokens(s, from), from, to, hops)
<1> DEFINE X == {pairs[i] : i \in DOMAIN pairs}
           ts == Tokens(s, from)
<1>1. PICK n \in 1..hops : s \in [1..n -> X]
  BY DEF Routes
<1>2. n \in Nat /\ DOMAIN pairs = 1..Len(pairs) /\ X \subseteq DOMAIN Pairs
  <2>1. DOMAIN pairs = 1..Len(pairs)
    BY LenProperties
  <2>2. \A i \in DOMAIN pairs : pairs[i] \in DOMAIN Pairs
    BY <2>1, ElementOfSeq
  <2> QED
    BY <2>1, <2>2
<1>3. \A k \in 1..n : \E j \in 1..Len(pairs) : pairs[j] = s[k]
  <2>1. ASSUME NEW k \in 1..n
        PROVE  \E j \in 1..Len(pairs) : pairs[j] = s[k]
    <3>1. s[k] \in X
      BY <1>1
    <3> QED
      BY <1>2, <3>1
  <2> QED
    BY <2>1
<1>4. s \in Seq(DOMAIN Pairs) /\ Len(s) = n
  <2>1. s \in [1..n -> DOMAIN Pairs]
    BY <1>1, <1>2
  <2> HIDE DEF X
  <2> QED
    BY <1>2, <2>1, SeqOfFunction
<1>5. DOMAIN ts = 1..(n + 1) /\ ts[1] = from
  <2>1. ts = Tokens(s, from)
    OBVIOUS
  <2> HIDE DEF ts
  <2> QED
    BY <1>2, <1>4, <2>1, TokensDef
<1>6. /\ \A k \in DOMAIN s : ts[k] \in Pairs[s[k]]
      /\ IsInjective(ts)
      /\ ts[Len(s) + 1] = to
  BY DEF Routes
<1> HIDE DEF ts
<1>7. DOMAIN s = 1..n
  BY <1>1
<1>8. \A j, k \in 1..(n + 1) : ts[j] = ts[k] => j = k
  BY <1>5, <1>6 DEF IsInjective
<1> QED
  BY <1>3, <1>4, <1>5, <1>6, <1>7, <1>8 DEF WalkOver, ts

FoundBy(r, type, pairs, start, target, amount, hops) ==
    Search(r, type, start, target)[FirstCall(pairs, start, amount, hops)]

(* The search begins with a call.                                          *)
LEMMA FirstIsCall ==
  ASSUME NEW pairs \in Seq(DOMAIN Pairs), NEW start, NEW amount \in Nat, NEW hops \in Nat
  PROVE  LET c == FirstCall(pairs, start, amount, hops) IN
         /\ c \in Calls(start)
         /\ c.pairs = pairs /\ c.i = 1 /\ c.hops = hops /\ c.token = start /\ c.amount = amount
         /\ c.current = <<>>
<1>1. <<>> \in Seq(DOMAIN Pairs) /\ 1 \in Nat \ {0}
  OBVIOUS
<1> QED
  BY <1>1 DEF FirstCall, Calls

(* What the search finds from a token and an amount are walks that lead    *)
(* from them to the target, with the amount at their end.                  *)
THEOREM FoundAreWalks ==
  ASSUME NEW r, Reserves(r), NEW type, NEW pairs \in Seq(DOMAIN Pairs), NEW start, NEW target,
         NEW amount \in Nat \ {0}, NEW hops \in Nat
  PROVE  LET found == FoundBy(r, type, pairs, start, target, amount, hops) IN
         /\ found \in Seq(Found)
         /\ \A m \in 1..Len(found) :
                AmountsAlong(r, type, found[m].walk, start, amount)[Len(found[m].walk) + 1] = found[m].amount
<1> DEFINE c == FirstCall(pairs, start, amount, hops)
           found == FoundBy(r, type, pairs, start, target, amount, hops)
<1>1. /\ c \in Calls(start) /\ c.token = start /\ c.amount = amount /\ c.current = <<>>
  BY FirstIsCall
<1> HIDE DEF c
<1>2. found = Search(r, type, start, target)[c]
  BY DEF c, FoundBy
<1> HIDE DEF found
<1>3. found \in Seq(Found)
  BY <1>1, <1>2, FoundTyped
<1>4. Comes(r, type, <<>>, start, amount, start, amount)
  <2> DEFINE ts == [k \in {1} |-> start]
             qs == [k \in {1} |-> amount]
  <2>1. Leads(r, type, <<>>, ts, qs) /\ ts[1] = start /\ qs[1] = amount
    BY DEF Leads
  <2>2. Len(<<>>) + 1 = 1
    OBVIOUS
  <2> HIDE DEF ts, qs
  <2> QED
    BY <2>1, <2>2 DEF Comes
<1>5. Comes(r, type, c.current, start, amount, c.token, c.amount)
  BY <1>1, <1>4
<1>6. ASSUME NEW m \in 1..Len(found)
      PROVE  AmountsAlong(r, type, found[m].walk, start, amount)[Len(found[m].walk) + 1] = found[m].amount
  <2>1. m \in DOMAIN found /\ found[m] \in Found
    BY <1>3, LenProperties, ElementOfSeq
  <2>2. Comes(r, type, found[m].walk, start, amount, target, found[m].amount)
    BY <1>1, <1>2, <1>5, <2>1, SearchSound
  <2> DEFINE w == found[m].walk
             q == found[m].amount
  <2>3. Comes(r, type, w, start, amount, target, q)
    BY <2>2
  <2>4. w \in Seq(DOMAIN Pairs)
    BY <2>1 DEF Found
  <2> HIDE DEF w, q
  <2>5. PICK n \in Nat : n = Len(w)
    BY <2>4, LenProperties
  <2>6. amount # 0
    OBVIOUS
  <2>7. AmountsAlong(r, type, w, start, amount)[n + 1] = q
    BY <2>3, <2>5, <2>6, ComesAlong
  <2> QED
    BY <2>5, <2>7 DEF w, q
<1> QED
  BY <1>3, <1>6 DEF found

(* Every walk over the pairs that visits no token twice is found.          *)
THEOREM WalksAreFound ==
  ASSUME NEW r, Reserves(r), NEW type, NEW pairs \in Seq(DOMAIN Pairs), NEW start, NEW target,
         NEW amount \in Nat \ {0}, NEW hops \in Nat,
         NEW s, WalkOver(pairs, s, Tokens(s, start), start, target, hops),
         AmountsAlong(r, type, s, start, amount)[Len(s) + 1] # 0
  PROVE  LET found == FoundBy(r, type, pairs, start, target, amount, hops) IN
         \E m \in 1..Len(found) : found[m].amount = AmountsAlong(r, type, s, start, amount)[Len(s) + 1]
<1> DEFINE c == FirstCall(pairs, start, amount, hops)
           found == FoundBy(r, type, pairs, start, target, amount, hops)
           ts == Tokens(s, start)
           qs == AmountsAlong(r, type, s, start, amount)
<1>1. /\ c \in Calls(start) /\ c.pairs = pairs /\ c.i = 1 /\ c.hops = hops
      /\ c.token = start /\ c.amount = amount
  <2>1. amount \in Nat /\ hops \in Nat /\ pairs \in Seq(DOMAIN Pairs)
    OBVIOUS
  <2> QED
    BY ONLY <2>1, FirstIsCall
<1>2. found = Search(r, type, start, target)[c]
  BY DEF FoundBy
<1>3. WalkOver(pairs, s, ts, start, target, hops) /\ qs[Len(s) + 1] # 0
  OBVIOUS
<1>4. ts = Tokens(s, start) /\ qs = AmountsAlong(r, type, s, start, amount)
  OBVIOUS
<1> HIDE DEF c, found, ts, qs
<1>5. Len(s) \in Nat /\ 1 \in 1..Len(s)
  BY <1>3 DEF WalkOver
<1>6. Open(c, target, s, ts)
  BY <1>1, <1>3, <1>5 DEF Open, WalkOver
<1>7. Leads(r, type, s, ts, qs) /\ qs[1] = amount
  <2>1. \A k \in 1..Len(s) : ts[k] \in Pairs[s[k]]
    BY <1>3 DEF WalkOver
  <2> QED
    BY <1>3, <1>4, <1>5, <2>1, RouteLeads
<1>8. \E m \in DOMAIN found : found[m].amount = qs[Len(s) + 1]
  BY <1>1, <1>2, <1>6, <1>7, SearchComplete
<1>9. DOMAIN found = 1..Len(found)
  BY <1>1, <1>2, FoundTyped, LenProperties
<1> QED
  BY <1>8, <1>9 DEF found, qs

(* A trade keeps the amounts it is made with.                              *)
LEMMA TradeFacts ==
  ASSUME NEW r, NEW type, NEW route, NEW in, NEW out, NEW t,
         NEW x, x = Trade(r, type, route, in, out, t)
  PROVE  x.type = type /\ x.route = route /\ x.in = in /\ x.out = out
BY DEF Trade

BestIn(b, r, pairs, from, to, amount, hops) ==
    \/ b = <<>> /\ \A s \in Routes(pairs, from, to, hops) : Gives(r, s, from, amount) = 0
    \/ \E x : /\ b = <<x>> /\ x.type = EXACT_INPUT
              /\ x.in = amount /\ x.out = Gives(r, x.route, from, amount)
              /\ \A s \in Routes(pairs, from, to, hops) : Gives(r, s, from, amount) <= x.out

(* The best trade for an exact input.                                      *)
LEMMA ExactInIsBest ==
  ASSUME NEW r, Reserves(r), NEW pairs \in Seq(DOMAIN Pairs), NEW from, NEW to,
         NEW amount \in Nat \ {0}, NEW hops \in Nat
  PROVE  BestIn(bestTradeExactIn(r, pairs, from, amount, to, hops, 1), r, pairs, from, to, amount, hops)
<1> DEFINE b == bestTradeExactIn(r, pairs, from, amount, to, hops, 1)
<1> SUFFICES BestIn(b, r, pairs, from, to, amount, hops)
  OBVIOUS
<1> DEFINE found == FoundBy(r, EXACT_INPUT, pairs, from, to, amount, hops)
           trades == [k \in 1..Len(found) |->
                         Trade(r, EXACT_INPUT, found[k].walk, amount, found[k].amount, from)]
<1>1. b = Best(trades, 1)
  BY DEF bestTradeExactIn, FoundBy
<1>2. ASSUME NEW s \in Routes(pairs, from, to, hops), Gives(r, s, from, amount) # 0
      PROVE  \E m \in 1..Len(found) : found[m].amount = Gives(r, s, from, amount)
  BY <1>2, RouteFacts, WalksAreFound DEF Gives
<1>3. /\ found \in Seq(Found)
      /\ \A m \in 1..Len(found) : found[m].amount = Gives(r, found[m].walk, from, amount)
  <2>1. /\ found \in Seq(Found)
        /\ \A m \in 1..Len(found) :
               AmountsAlong(r, EXACT_INPUT, found[m].walk, from, amount)[Len(found[m].walk) + 1]
                   = found[m].amount
    BY ONLY Reserves(r), pairs \in Seq(DOMAIN Pairs), amount \in Nat \ {0}, hops \in Nat, FoundAreWalks
  <2> QED
    BY <2>1 DEF Gives
<1> HIDE DEF found, b
<1>4. trades = [k \in 1..Len(found) |-> Trade(r, EXACT_INPUT, found[k].walk, amount, found[k].amount, from)]
  OBVIOUS
<1> HIDE DEF trades
<1>6. PICK n \in Nat : n = Len(found)
  BY <1>3, LenProperties
<1>7. Len(trades) = n
  <2> DEFINE X == {trades[k] : k \in 1..n}
  <2>1. trades \in [1..n -> X]
    BY <1>4, <1>6
  <2> HIDE DEF X
  <2> QED
    BY <2>1, SeqOfFunction
<1>8. \A k \in 1..n : /\ trades[k].type = EXACT_INPUT /\ trades[k].route = found[k].walk
                      /\ trades[k].in = amount /\ trades[k].out = found[k].amount
  <2>1. ASSUME NEW k \in 1..n
        PROVE  /\ trades[k].type = EXACT_INPUT /\ trades[k].route = found[k].walk
               /\ trades[k].in = amount /\ trades[k].out = found[k].amount
    <3>1. trades[k] = Trade(r, EXACT_INPUT, found[k].walk, amount, found[k].amount, from)
      BY <1>4, <1>6
    <3> QED
      BY <3>1, TradeFacts
  <2> QED
    BY <2>1
<1>9. \A k \in 1..n : found[k].amount \in Nat
  <2>1. \A k \in 1..n : found[k] \in Found
    BY <1>3, <1>6, ElementOfSeq
  <2> QED
    BY <2>1 DEF Found
<1>10. \A k \in 1..n : Sized(trades[k])
  BY <1>8, <1>9 DEF Sized
<1>11. CASE n = 0 /\ Best(trades, 1) = <<>>
  BY <1>1, <1>2, <1>6, <1>11 DEF BestIn
<1>12. CASE \E j \in 1..n : /\ Best(trades, 1) = <<trades[j]>>
                            /\ \A k \in 1..n : NotWorse(trades[j], trades[k])
  <2>1. PICK j \in 1..n : /\ Best(trades, 1) = <<trades[j]>>
                          /\ \A k \in 1..n : NotWorse(trades[j], trades[k])
    BY <1>12
  <2> DEFINE x == trades[j]
  <2>2. b = <<x>> /\ x.type = EXACT_INPUT /\ x.in = amount /\ x.out = Gives(r, x.route, from, amount)
    BY <1>1, <1>3, <1>6, <1>8, <2>1
  <2>3. x.out \in Nat
    BY <1>8, <1>9
  <2>4. \A k \in 1..n : found[k].amount <= x.out
    <3>1. ASSUME NEW k \in 1..n
          PROVE  found[k].amount <= x.out
      <4> DEFINE y == trades[k]
      <4>1. NotWorse(x, y) /\ y.out = found[k].amount /\ y.out \in Nat
        BY <1>8, <1>9, <2>1
      <4> HIDE DEF x, y
      <4>2. y.out <= x.out
        BY <2>3, <4>1 DEF NotWorse
      <4> QED
        BY <4>1, <4>2
    <3> QED
      BY <3>1
  <2> HIDE DEF x
  <2>5. ASSUME NEW s \in Routes(pairs, from, to, hops)
        PROVE  Gives(r, s, from, amount) <= x.out
    <3>1. CASE Gives(r, s, from, amount) = 0
      BY <2>3, <3>1
    <3>2. CASE Gives(r, s, from, amount) # 0
      BY <1>2, <1>6, <2>4, <3>2
    <3> QED
      BY <3>1, <3>2
  <2> QED
    BY <2>2, <2>5 DEF BestIn
<1> QED
  BY <1>7, <1>10, <1>11, <1>12, BestOfOne

(* So is a route walked back.                                              *)
LEMMA RouteBack ==
  ASSUME NEW pairs \in Seq(DOMAIN Pairs), NEW from, NEW to, NEW hops \in Nat,
         NEW s \in Routes(pairs, from, to, hops)
  PROVE  /\ WalkOver(pairs, Reverse(s), Tokens(Reverse(s), to), to, from, hops)
         /\ Len(Reverse(s)) = Len(s)
<1> DEFINE ts == Tokens(s, from)
           w == Reverse(s)
           us == Tokens(w, to)
           n == Len(s)
<1>1. WalkOver(pairs, s, ts, from, to, hops)
  BY RouteFacts
<1>2. ts = Tokens(s, from) /\ w = Reverse(s) /\ us = Tokens(w, to) /\ n = Len(s)
  OBVIOUS
<1> HIDE DEF ts, w, us, n
<1>3. /\ s \in Seq(DOMAIN Pairs) /\ n \in 1..hops /\ n \in Nat
      /\ \A k \in 1..n : \E j \in 1..Len(pairs) : pairs[j] = s[k]
      /\ \A k \in 1..n : ts[k] \in Pairs[s[k]]
      /\ \A j, k \in 1..(n + 1) : ts[j] = ts[k] => j = k
      /\ ts[1] = from /\ ts[n + 1] = to
  BY <1>1, <1>2 DEF WalkOver
<1>4. us = Tokens(Reverse(s), ts[n + 1])
  BY <1>2, <1>3
<1>5. /\ Reverse(s) \in Seq(DOMAIN Pairs) /\ Len(Reverse(s)) = n
      /\ \A k \in 1..n : Reverse(s)[k] = s[n - k + 1]
      /\ \A k \in 1..(n + 1) : us[k] = ts[n + 2 - k]
      /\ \A k \in 1..n : us[k] \in Pairs[Reverse(s)[k]]
  <2>1. s \in Seq(DOMAIN Pairs) /\ n = Len(s) /\ ts = Tokens(s, from)
    BY <1>2, <1>3
  <2>2. \A k \in 1..n : ts[k] \in Pairs[s[k]]
    BY <1>3
  <2> QED
    BY ONLY <2>1, <2>2, <1>4, WalkBack
<1>6. /\ w \in Seq(DOMAIN Pairs) /\ Len(w) = n
      /\ \A k \in 1..n : w[k] = s[n - k + 1]
      /\ \A k \in 1..(n + 1) : us[k] = ts[n + 2 - k]
      /\ \A k \in 1..n : us[k] \in Pairs[w[k]]
  BY <1>2, <1>5
<1>7. ASSUME NEW k \in 1..n
      PROVE  \E j \in 1..Len(pairs) : pairs[j] = w[k]
  <2>1. n - k + 1 \in 1..n
    BY <1>3
  <2>2. PICK j \in 1..Len(pairs) : pairs[j] = s[n - k + 1]
    BY <1>3, <2>1
  <2> QED
    BY <1>6, <2>2
<1>8. ASSUME NEW j \in 1..(n + 1), NEW k \in 1..(n + 1), us[j] = us[k]
      PROVE  j = k
  <2>1. n + 2 - j \in 1..(n + 1) /\ n + 2 - k \in 1..(n + 1)
    BY <1>3
  <2>2. ts[n + 2 - j] = ts[n + 2 - k]
    BY <1>6, <1>8
  <2>3. n + 2 - j = n + 2 - k
    BY <1>3, <2>1, <2>2
  <2> QED
    BY <1>3, <2>3
<1>9. us[1] = to /\ us[n + 1] = from
  <2>1. 1 \in 1..(n + 1) /\ n + 1 \in 1..(n + 1) /\ n + 2 - 1 = n + 1 /\ n + 2 - (n + 1) = 1
    BY <1>3
  <2>2. us[1] = ts[n + 2 - 1] /\ us[n + 1] = ts[n + 2 - (n + 1)]
    BY <1>6, <2>1
  <2> QED
    BY <1>3, <2>1, <2>2
<1>10. WalkOver(pairs, w, us, to, from, hops)
  BY <1>3, <1>6, <1>7, <1>8, <1>9 DEF WalkOver
<1>11. Len(w) = Len(s)
  BY <1>2, <1>6
<1> QED
  BY <1>10, <1>11 DEF w, us

BestOut(b, r, pairs, from, to, amount, hops) ==
    \/ b = <<>> /\ \A s \in Routes(pairs, from, to, hops) : Takes(r, s, to, amount) = 0
    \/ \E x : /\ b = <<x>> /\ x.type = EXACT_OUTPUT
              /\ x.out = amount /\ x.in = Takes(r, x.route, to, amount)
              /\ \A s \in Routes(pairs, from, to, hops) :
                     Takes(r, s, to, amount) = 0 \/ x.in <= Takes(r, s, to, amount)

(* The best trade for an exact output, whose search walks back.            *)
LEMMA ExactOutIsBest ==
  ASSUME NEW r, Reserves(r), NEW pairs \in Seq(DOMAIN Pairs), NEW from, NEW to,
         NEW amount \in Nat \ {0}, NEW hops \in Nat
  PROVE  BestOut(bestTradeExactOut(r, pairs, from, to, amount, hops, 1), r, pairs, from, to, amount, hops)
<1> DEFINE b == bestTradeExactOut(r, pairs, from, to, amount, hops, 1)
<1> SUFFICES BestOut(b, r, pairs, from, to, amount, hops)
  OBVIOUS
<1> DEFINE found == FoundBy(r, EXACT_OUTPUT, pairs, to, from, amount, hops)
           trades == [k \in 1..Len(found) |->
                         Trade(r, EXACT_OUTPUT, Reverse(found[k].walk), found[k].amount, amount, from)]
<1>1. b = Best(trades, 1)
  BY DEF bestTradeExactOut, FoundBy
<1>2. ASSUME NEW s \in Routes(pairs, from, to, hops), Takes(r, s, to, amount) # 0
      PROVE  \E m \in 1..Len(found) : found[m].amount = Takes(r, s, to, amount)
  <2> DEFINE w == Reverse(s)
  <2>1. WalkOver(pairs, w, Tokens(w, to), to, from, hops) /\ Len(w) = Len(s)
    BY RouteBack
  <2>2. Takes(r, s, to, amount) = AmountsAlong(r, EXACT_OUTPUT, w, to, amount)[Len(w) + 1]
    BY <2>1 DEF Takes
  <2> HIDE DEF w
  <2>3. AmountsAlong(r, EXACT_OUTPUT, w, to, amount)[Len(w) + 1] # 0
    BY <1>2, <2>2
  <2>4. \E m \in 1..Len(found) :
            found[m].amount = AmountsAlong(r, EXACT_OUTPUT, w, to, amount)[Len(w) + 1]
    BY <2>1, <2>3, WalksAreFound
  <2> QED
    BY <2>2, <2>4
<1>3. /\ found \in Seq(Found)
      /\ \A m \in 1..Len(found) :
             AmountsAlong(r, EXACT_OUTPUT, found[m].walk, to, amount)[Len(found[m].walk) + 1]
                 = found[m].amount
  BY ONLY Reserves(r), pairs \in Seq(DOMAIN Pairs), amount \in Nat \ {0}, hops \in Nat, FoundAreWalks
<1> HIDE DEF found, b
<1>4. trades = [k \in 1..Len(found) |->
                   Trade(r, EXACT_OUTPUT, Reverse(found[k].walk), found[k].amount, amount, from)]
  OBVIOUS
<1> HIDE DEF trades
<1>5. PICK n \in Nat : n = Len(found)
  BY <1>3, LenProperties
<1>6. Len(trades) = n
  <2> DEFINE X == {trades[k] : k \in 1..n}
  <2>1. trades \in [1..n -> X]
    BY <1>4, <1>5
  <2> HIDE DEF X
  <2> QED
    BY <2>1, SeqOfFunction
<1>7. \A k \in 1..n : /\ trades[k].type = EXACT_OUTPUT /\ trades[k].route = Reverse(found[k].walk)
                      /\ trades[k].in = found[k].amount /\ trades[k].out = amount
  <2>1. ASSUME NEW k \in 1..n
        PROVE  /\ trades[k].type = EXACT_OUTPUT /\ trades[k].route = Reverse(found[k].walk)
               /\ trades[k].in = found[k].amount /\ trades[k].out = amount
    <3>1. trades[k] = Trade(r, EXACT_OUTPUT, Reverse(found[k].walk), found[k].amount, amount, from)
      BY <1>4, <1>5
    <3> QED
      BY <3>1, TradeFacts
  <2> QED
    BY <2>1
<1>8. \A k \in 1..n : found[k].amount \in Nat \ {0} /\ found[k].walk \in Seq(DOMAIN Pairs)
  <2>1. \A k \in 1..n : found[k] \in Found
    BY <1>3, <1>5, ElementOfSeq
  <2> QED
    BY <2>1 DEF Found
<1>9. \A k \in 1..n : Sized(trades[k])
  BY <1>7, <1>8 DEF Sized
<1>10. CASE n = 0 /\ Best(trades, 1) = <<>>
  BY <1>1, <1>2, <1>5, <1>10 DEF BestOut
<1>11. CASE \E j \in 1..n : /\ Best(trades, 1) = <<trades[j]>>
                            /\ \A k \in 1..n : NotWorse(trades[j], trades[k])
  <2>1. PICK j \in 1..n : /\ Best(trades, 1) = <<trades[j]>>
                          /\ \A k \in 1..n : NotWorse(trades[j], trades[k])
    BY <1>11
  <2> DEFINE x == trades[j]
  <2>2. b = <<x>> /\ x.type = EXACT_OUTPUT /\ x.out = amount
    BY <1>1, <1>7, <2>1
  <2>3. x.in = Takes(r, x.route, to, amount)
    <3> DEFINE v == found[j].walk
    <3>1. v \in Seq(DOMAIN Pairs) /\ x.in = found[j].amount /\ x.route = Reverse(v)
      BY <1>7, <1>8, <2>1
    <3>2. AmountsAlong(r, EXACT_OUTPUT, v, to, amount)[Len(v) + 1] = found[j].amount
      BY <1>3, <1>5, <2>1
    <3> HIDE DEF v, x
    <3>3. Reverse(Reverse(v)) = v /\ Len(Reverse(v)) = Len(v)
      BY <3>1, ReverseFacts
    <3> QED
      BY <3>1, <3>2, <3>3 DEF Takes
  <2>4. \A k \in 1..n : x.in <= found[k].amount
    <3>1. ASSUME NEW k \in 1..n
          PROVE  x.in <= found[k].amount
      <4> DEFINE y == trades[k]
      <4>1. NotWorse(x, y) /\ y.in = found[k].amount /\ y.out = x.out /\ x.out \in Nat
        BY <1>7, <2>1
      <4> HIDE DEF x, y
      <4>2. x.in <= y.in
        BY <4>1 DEF NotWorse
      <4> QED
        BY <4>1, <4>2
    <3> QED
      BY <3>1
  <2> HIDE DEF x
  <2>5. \A s \in Routes(pairs, from, to, hops) :
            Takes(r, s, to, amount) = 0 \/ x.in <= Takes(r, s, to, amount)
    BY <1>2, <1>5, <2>4
  <2> QED
    BY <2>2, <2>3, <2>5 DEF BestOut
<1> QED
  BY <1>6, <1>9, <1>10, <1>11, BestOfOne

(* The common pairs are all there, in some order.                          *)
LEMMA CommonPairs ==
  /\ useAllCommonPairs \in Seq(DOMAIN Pairs)
  /\ {useAllCommonPairs[k] : k \in 1..Len(useAllCommonPairs)}
       = {p \in DOMAIN Pairs : Pairs[p] \subseteq Bases \cup {wrappedCurrency(c) : c \in Currencies}}
<1> DEFINE S == {p \in DOMAIN Pairs : Pairs[p] \subseteq Bases \cup {wrappedCurrency(c) : c \in Currencies}}
           n == Cardinality(S)
           f == SetToSeq(S)
<1>1. IsFiniteSet(S)
  <2>1. S \subseteq 1..Len(Pairs) /\ Len(Pairs) \in Int /\ 1 \in Int
    BY PairsAssumption
  <2> HIDE DEF S
  <2>2. IsFiniteSet(1..Len(Pairs))
    BY <2>1, FS_Interval
  <2> QED
    BY <2>1, <2>2, FS_Subset
<1>2. useAllCommonPairs = f
  BY DEF useAllCommonPairs
<1>3. S \subseteq DOMAIN Pairs
  OBVIOUS
<1> HIDE DEF S
<1>4. n \in Nat /\ \E g \in [1..n -> S] : IsInjective(g)
  BY <1>1, FS_CardinalityType DEF ExistsBijection, Bijection, Injection
<1>5. f \in [1..n -> S] /\ IsInjective(f)
  BY <1>4 DEF SetToSeq
<1>6. f \in Injection(1..n, S)
  BY <1>5 DEF Injection
<1>7. Cardinality(1..n) = Cardinality(S)
  <2>1. n = Cardinality(S)
    OBVIOUS
  <2> HIDE DEF n
  <2>2. Cardinality(1..n) = n
    BY <1>4, FS_Interval
  <2> QED
    BY <2>1, <2>2
<1> HIDE DEF f
<1>8. \A p \in S : \E k \in 1..n : f[k] = p
  <2>1. PICK m : m = n
    OBVIOUS
  <2> HIDE DEF n
  <2>2. f \in Injection(1..m, S) /\ Cardinality(1..m) = Cardinality(S)
    BY <1>6, <1>7, <2>1
  <2>3. f \in Surjection(1..m, S)
    BY <1>1, <2>2, FS_Injection
  <2> QED
    BY <2>1, <2>3 DEF Surjection
<1>9. f \in Seq(S) /\ Len(f) = n
  <2> HIDE DEF n
  <2> QED
    BY <1>4, <1>5, SeqOfFunction
<1>10. f \in Seq(DOMAIN Pairs)
  BY <1>3, <1>9, SeqMonotonic
<1>11. {f[k] : k \in 1..Len(f)} = S
  BY <1>5, <1>8, <1>9
<1> QED
  BY <1>2, <1>10, <1>11 DEF S

-----------------------------------------------------------------------------
(* The trades the page offers, in every state of the pools it may read.    *)
LEMMA TheOther ==
  ASSUME NEW c \in Currencies
  PROVE  (CHOOSE d \in Currencies : d # c) \in Currencies
BY SwapAssumption DEF Currencies

(* The page takes the first trade of the list, if any.                     *)
LEMMA HeadOfOne ==
  ASSUME NEW b
  PROVE  /\ b = <<>> => Head1(b) = NoTrade
         /\ \A x : b = <<x>> => Head1(b) = x
<1>1. ASSUME NEW x, b = <<x>>
      PROVE  Head1(b) = x
  <2>1. <<x>> # <<>> /\ <<x>>[1] = x
    OBVIOUS
  <2> QED
    BY <1>1, <2>1 DEF Head1
<1> QED
  BY <1>1 DEF Head1

(* The reserves of every state of the pools are amounts.                   *)
LEMMA ReservesOf ==
  ASSUME NEW w \in DOMAIN Worlds
  PROVE  Reserves(Worlds[w])
BY SwapAssumption DEF Reserves

(* A trade is not the absence of one.                                      *)
LEMMA IsATrade ==
  ASSUME NEW x, x.type = EXACT_INPUT \/ x.type = EXACT_OUTPUT
  PROVE  x # NoTrade
<1>1. NoTrade.type = "none"
  BY DEF NoTrade
<1>2. x.type # "none"
  BY DEF EXACT_INPUT, EXACT_OUTPUT
<1> QED
  BY <1>1, <1>2

(* What the page offers for an exact input, whatever it has read.          *)
LEMMA ExactInOffer ==
  ASSUME NEW w \in DOMAIN Worlds, NEW from, NEW to, NEW a \in Amounts
  PROVE  LET x == useTradeExactIn(w, from, a, to)
             r == Worlds[w]
         IN  /\ x # NoTrade => x.in = a /\ x.out = Gives(r, x.route, from, a)
             /\ \A s \in Routes(useAllCommonPairs, from, to, 3) :
                    Gives(r, s, from, a) <= IF x = NoTrade THEN 0 ELSE x.out
<1> DEFINE r == Worlds[w]
           b == bestTradeExactIn(r, useAllCommonPairs, from, a, to, 3, 1)
           x == useTradeExactIn(w, from, a, to)
<1>1. Reserves(r) /\ useAllCommonPairs \in Seq(DOMAIN Pairs) /\ a \in Nat \ {0} /\ 3 \in Nat
  BY ReservesOf, CommonPairs, SwapAssumption
<1>2. x = Head1(b)
  BY DEF useTradeExactIn
<1>3. \/ b = <<>> /\ \A s \in Routes(useAllCommonPairs, from, to, 3) : Gives(r, s, from, a) = 0
      \/ \E y : /\ b = <<y>> /\ y.type = EXACT_INPUT
                /\ y.in = a /\ y.out = Gives(r, y.route, from, a)
                /\ \A s \in Routes(useAllCommonPairs, from, to, 3) : Gives(r, s, from, a) <= y.out
  <2> HIDE DEF r
  <2>1. BestIn(b, r, useAllCommonPairs, from, to, a, 3)
    BY ONLY <1>1, ExactInIsBest
  <2> HIDE DEF b
  <2> QED
    BY <2>1 DEF BestIn
<1> HIDE DEF r, b, x
<1>4. CASE b = <<>> /\ \A s \in Routes(useAllCommonPairs, from, to, 3) : Gives(r, s, from, a) = 0
  <2>1. x = NoTrade
    BY <1>2, <1>4, HeadOfOne
  <2> QED
    BY <1>4, <2>1 DEF x, r
<1>5. ASSUME NEW y, b = <<y>>, y.type = EXACT_INPUT, y.in = a, y.out = Gives(r, y.route, from, a),
             \A s \in Routes(useAllCommonPairs, from, to, 3) : Gives(r, s, from, a) <= y.out
      PROVE  /\ x # NoTrade => x.in = a /\ x.out = Gives(r, x.route, from, a)
             /\ \A s \in Routes(useAllCommonPairs, from, to, 3) :
                    Gives(r, s, from, a) <= IF x = NoTrade THEN 0 ELSE x.out
  <2>1. x = y
    BY <1>2, <1>5, HeadOfOne
  <2>2. y # NoTrade
    BY <1>5, IsATrade
  <2> QED
    BY <1>5, <2>1, <2>2
<1> QED
  BY <1>3, <1>4, <1>5 DEF x, r

(* What the page offers for an exact output, whatever it has read.         *)
LEMMA ExactOutOffer ==
  ASSUME NEW w \in DOMAIN Worlds, NEW from, NEW to, NEW a \in Amounts
  PROVE  LET x == useTradeExactOut(w, from, to, a)
             r == Worlds[w]
         IN  /\ x # NoTrade => x.out = a /\ x.in = Takes(r, x.route, to, a)
             /\ \A s \in Routes(useAllCommonPairs, from, to, 3) :
                    Takes(r, s, to, a) = 0 \/ (x # NoTrade /\ x.in <= Takes(r, s, to, a))
<1> DEFINE r == Worlds[w]
           b == bestTradeExactOut(r, useAllCommonPairs, from, to, a, 3, 1)
           x == useTradeExactOut(w, from, to, a)
<1>1. Reserves(r) /\ useAllCommonPairs \in Seq(DOMAIN Pairs) /\ a \in Nat \ {0} /\ 3 \in Nat
  BY ReservesOf, CommonPairs, SwapAssumption
<1>2. x = Head1(b)
  BY DEF useTradeExactOut
<1>3. \/ b = <<>> /\ \A s \in Routes(useAllCommonPairs, from, to, 3) : Takes(r, s, to, a) = 0
      \/ \E y : /\ b = <<y>> /\ y.type = EXACT_OUTPUT
                /\ y.out = a /\ y.in = Takes(r, y.route, to, a)
                /\ \A s \in Routes(useAllCommonPairs, from, to, 3) :
                       Takes(r, s, to, a) = 0 \/ y.in <= Takes(r, s, to, a)
  <2> HIDE DEF r
  <2>1. BestOut(b, r, useAllCommonPairs, from, to, a, 3)
    BY ONLY <1>1, ExactOutIsBest
  <2> HIDE DEF b
  <2> QED
    BY <2>1 DEF BestOut
<1> HIDE DEF r, b, x
<1>4. CASE b = <<>> /\ \A s \in Routes(useAllCommonPairs, from, to, 3) : Takes(r, s, to, a) = 0
  <2>1. x = NoTrade
    BY <1>2, <1>4, HeadOfOne
  <2> QED
    BY <1>4, <2>1 DEF x, r
<1>5. ASSUME NEW y, b = <<y>>, y.type = EXACT_OUTPUT, y.out = a, y.in = Takes(r, y.route, to, a),
             \A s \in Routes(useAllCommonPairs, from, to, 3) :
                 Takes(r, s, to, a) = 0 \/ y.in <= Takes(r, s, to, a)
      PROVE  /\ x # NoTrade => x.out = a /\ x.in = Takes(r, x.route, to, a)
             /\ \A s \in Routes(useAllCommonPairs, from, to, 3) :
                    Takes(r, s, to, a) = 0 \/ (x # NoTrade /\ x.in <= Takes(r, s, to, a))
  <2>1. x = y
    BY <1>2, <1>5, HeadOfOne
  <2>2. y # NoTrade
    BY <1>5, IsATrade
  <2> QED
    BY <1>5, <2>1, <2>2
<1> QED
  BY <1>3, <1>4, <1>5 DEF x, r

(* Together, for both directions and every amount.                         *)
LEMMA NoneBetter ==
  ASSUME NEW w \in DOMAIN Worlds, NEW input \in Currencies
  PROVE  noneBetter[w][input]
<1> DEFINE from == wrappedCurrency(input)
           to == wrappedCurrency(CHOOSE c \in Currencies : c # input)
           r == Worlds[w]
           Good(i, o, a) ==
               /\ i # NoTrade => i.in = a /\ i.out = Gives(r, i.route, from, a)
               /\ o # NoTrade => o.out = a /\ o.in = Takes(r, o.route, to, a)
               /\ \A s \in Routes(useAllCommonPairs, from, to, 3) :
                      LET in == Takes(r, s, to, a) IN
                      /\ Gives(r, s, from, a) <= IF i = NoTrade THEN 0 ELSE i.out
                      /\ in = 0 \/ (o # NoTrade /\ o.in <= in)
<1>1. noneBetter[w][input] =
          \A a \in Amounts : Good(bestTrades[w][input][INPUT][a], bestTrades[w][input][OUTPUT][a], a)
  BY DEF noneBetter
<1>2. bestTrades[w][input] =
          [field \in {INPUT, OUTPUT} |-> [a \in Amounts |->
              IF field = INPUT THEN useTradeExactIn(w, from, a, to) ELSE useTradeExactOut(w, from, to, a)]]
  BY DEF bestTrades
<1> HIDE DEF from, to, Good
<1>3. INPUT # OUTPUT
  BY DEF INPUT, OUTPUT
<1>4. ASSUME NEW a \in Amounts
      PROVE  /\ bestTrades[w][input][INPUT][a] = useTradeExactIn(w, from, a, to)
             /\ bestTrades[w][input][OUTPUT][a] = useTradeExactOut(w, from, to, a)
  BY <1>2, <1>3
<1>5. ASSUME NEW a \in Amounts
      PROVE  Good(useTradeExactIn(w, from, a, to), useTradeExactOut(w, from, to, a), a)
  <2> DEFINE i == useTradeExactIn(w, from, a, to)
             o == useTradeExactOut(w, from, to, a)
  <2>1. /\ i # NoTrade => i.in = a /\ i.out = Gives(r, i.route, from, a)
        /\ \A s \in Routes(useAllCommonPairs, from, to, 3) :
               Gives(r, s, from, a) <= IF i = NoTrade THEN 0 ELSE i.out
    BY ExactInOffer
  <2>2. /\ o # NoTrade => o.out = a /\ o.in = Takes(r, o.route, to, a)
        /\ \A s \in Routes(useAllCommonPairs, from, to, 3) :
               Takes(r, s, to, a) = 0 \/ (o # NoTrade /\ o.in <= Takes(r, s, to, a))
    BY ExactOutOffer
  <2> HIDE DEF i, o, r
  <2>3. Good(i, o, a)
    BY <2>1, <2>2 DEF Good
  <2> QED
    BY <2>3 DEF i, o
<1> QED
  BY <1>1, <1>4, <1>5

(* The pools the page has read are one of their states, and what it        *)
(* trades is one of the two currencies.                                    *)
FormOK ==
    /\ world \in DOMAIN Worlds
    /\ seen = [world |-> seen.world, allowed |-> seen.allowed] /\ seen.world \in DOMAIN Worlds
    /\ form = [input |-> form.input, field |-> form.field, typed |-> form.typed]
    /\ form.input \in Currencies

(* It is so at first.                                                      *)
LEMMA FormStarts ==
  SiteInit => FormOK
BY SwapAssumption DEF SiteInit, Init, FormOK, Currencies

(* Steps that leave the pools and the form alone keep it.                  *)
LEMMA FormSame ==
  ASSUME FormOK, UNCHANGED <<world, seen, form>>
  PROVE  FormOK'
BY DEF FormOK

(* Every step of the page keeps it.                                        *)
LEMMA FormStep ==
  ASSUME FormOK, Next
  PROVE  FormOK'
<1>1. ASSUME NEW f, NEW a, typeInput(f, a)
      PROVE  FormOK'
  BY <1>1 DEF typeInput, FormOK, chain
<1>2. ASSUME NEW submitted, switchCurrencies(submitted)
      PROVE  FormOK'
  <2>1. (CHOOSE c \in Currencies : c # form.input) \in Currencies
    BY TheOther DEF FormOK
  <2> DEFINE other == CHOOSE c \in Currencies : c # form.input
  <2>2. form' = [form EXCEPT !.input = other, !.field = Flip(@)]
    BY <1>2 DEF switchCurrencies
  <2>3. other \in Currencies
    BY <2>1
  <2> HIDE DEF other
  <2>4. form' = [input |-> other, field |-> Flip(form.field), typed |-> form.typed]
    BY <2>2 DEF FormOK
  <2>5. /\ form' = [input |-> form'.input, field |-> form'.field, typed |-> form'.typed]
        /\ form'.input \in Currencies
    BY <2>3, <2>4
  <2>6. UNCHANGED <<world, seen>>
    BY <1>2 DEF switchCurrencies, chain
  <2> QED
    BY <2>5, <2>6 DEF FormOK, Currencies
<1>3. CASE handleInputSelect \/ handleOutputSelect
  BY <1>2, <1>3 DEF handleInputSelect, handleOutputSelect
<1>4. CASE openModal
  BY <1>4, FormSame DEF openModal, chain
<1>5. CASE handleAcceptChanges
  BY <1>5, FormSame DEF handleAcceptChanges, chain
<1>6. CASE handleConfirmDismiss
  <2>1. \/ form' = form
        \/ form' = [input |-> form.input, field |-> INPUT, typed |-> 0]
    BY <1>6 DEF handleConfirmDismiss, FormOK
  <2> QED
    BY <1>6, <2>1 DEF handleConfirmDismiss, FormOK, chain
<1>7. CASE handleSwap
  BY <1>7, FormSame DEF handleSwap, chain
<1>8. ASSUME NEW p, estimate(p) \/ reject(p) \/ send(p) \/ answer(p)
      PROVE  FormOK'
  BY <1>8, FormSame DEF estimate, reject, send, answer, chain
<1>9. CASE approve \/ clearAllTransactions
  BY <1>9, FormSame DEF approve, clearAllTransactions, chain
<1>10. ASSUME NEW h, finalizeTransaction(h) \/ Mine(h)
       PROVE  FormOK'
  BY <1>10, FormSame DEF finalizeTransaction, Mine, chain
<1>11. CASE Move
  BY <1>11 DEF Move, FormOK
<1>12. CASE Read
  <2>1. \/ seen' = [world |-> world, allowed |-> seen.allowed]
        \/ seen' = [world |-> seen.world, allowed |-> allowed]
    BY <1>12 DEF Read, FormOK
  <2> QED
    BY <1>12, <2>1 DEF Read, FormOK, chain
<1> QED
  BY <1>1, <1>3, <1>4, <1>5, <1>6, <1>7, <1>8, <1>9, <1>10, <1>11, <1>12 DEF Next

(* Every step of the site keeps it.                                        *)
LEMMA FormKeeps ==
  FormOK /\ [SiteNext]_<<path, vars, removalVars>> => FormOK'
<1>1. ASSUME FormOK, UNCHANGED vars
      PROVE  FormOK'
  BY <1>1, FormSame DEF vars
<1> QED
  BY <1>1, FormStep DEF SiteNext

(* The swap page offers the best trade there is; see BestTradeIsBest.      *)
THEOREM BestTradesAreBest == SiteSpec => []BestTradeIsBest
<1>1. FormOK => BestTradeIsBest
  BY NoneBetter DEF FormOK, BestTradeIsBest
<1> QED
  BY <1>1, FormStarts, FormKeeps, PTL DEF SiteSpec

=============================================================================
