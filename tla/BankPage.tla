------------------------------ MODULE BankPage ------------------------------
(***************************************************************************)
(* TokenBank/frontend: the five pages through which a user pays tokens     *)
(* into a bank and takes them out again.  "v1" approves and deposits;      *)
(* beside that "v2" transfers with a callback, "eip712" deposits with a    *)
(* signed permit, "permit2" with one that Permit2 checks; "7702" deposits  *)
(* through the Delegate contract.  On each page one user calls the token,  *)
(* the bank and the contract between them (TokenBank/contracts).           *)
(*                                                                         *)
(* A button starts a call: the wallet asks, sends it, the chain executes   *)
(* it, and the page learns of that from the receipt.  What the page knows  *)
(* of the chain it has read at some time, and reads again when an effect   *)
(* asks for it.  The fields of the approval, the deposit and the           *)
(* withdrawal are filled in at the click.  A callback of the browser, the  *)
(* render it causes and the effects of that render are one step.  Amounts  *)
(* are small numbers; what is granted to Permit2 or to the Delegate, a     *)
(* million tokens, is TRUE or FALSE.  The account and its network stay,    *)
(* the page is neither left nor hidden, which would have everything read   *)
(* again, permits do not expire, and a request to a node is tried again    *)
(* until it is answered.                                                   *)
(***************************************************************************)
EXTENDS Naturals, Sequences

CONSTANTS Pages,     \* of "v1", "v2", "eip712", "permit2" and "7702"
          Wealth,    \* the tokens the user has at first
          Amounts,   \* the amounts the user types
          MaxCalls   \* bound: calls the user starts

VARIABLES
    kind,       \* the page
    contracts,  \* [token, bank, allowance, other, nonce]: what each query would return
    seen,       \* what the page holds of it
    due,        \* the queries that are being read
    input,      \* the amount in the field of the direct deposit, 0 when empty
    calls,      \* every call started: [hook, args, status]
    hook,       \* for each useWriteContract the call it shows, 0 for none
    mempool,    \* the calls sent and not yet executed
    signing,    \* the permit the wallet is asked to sign
    permit      \* permitSignature: amount and deadline of the permit asked for

bankVars == <<kind, contracts, seen, due, input, calls, hook, mempool, signing, permit>>
form == <<kind, input>>
sign == <<signing, permit>>

Queries == {"token", "bank", "allowance", "other", "nonce"}
WriteHooks == {"approve", "deposit", "direct", "withdraw"}
NoPermit == [amount |-> 0, nonce |-> 0, deadline |-> 0]
Signs == {"eip712", "permit2"}      \* the pages that ask for a permit

BankInit ==
    /\ kind \in Pages
    /\ \E other \in BOOLEAN :
        /\ other => kind \in {"permit2", "7702"}
        /\ contracts = [token |-> Wealth, bank |-> 0, allowance |-> 0, other |-> other, nonce |-> 0]
    /\ seen = contracts /\ due = {}
    /\ input = 0
    /\ calls = <<>> /\ hook = [h \in WriteHooks |-> 0] /\ mempool = <<>>
    /\ signing = NoPermit /\ permit = NoPermit

-----------------------------------------------------------------------------
(* What a hook shows of its call.                                          *)
Status(cs, hs, h) == IF hs[h] = 0 THEN "idle" ELSE cs[hs[h]].status
isPending(h) == Status(calls, hook, h) = "asked"
isConfirming(h) == Status(calls, hook, h) \in {"sent", "executed", "reverted"}
Successes(cs, hs) == {h \in WriteHooks : Status(cs, hs, h) = "success"}
busy(h) == isPending(h) \/ isConfirming(h)

(* The effects of a page, which run when one of the flags they depend on   *)
(* has changed.                                                            *)
Deposits == {"deposit", "direct"}
depositEffect_OwnFlag(old, new) == "deposit" \in new \ old
depositEffect(old, new) == (old \cap Deposits) # (new \cap Deposits) /\ (new \cap Deposits) # {}
withdrawEffect(old, new) == "withdraw" \in new \ old
approveEffect(old, new) == "approve" \in new \ old

Refetched(old, new) ==
    (IF approveEffect(old, new) THEN {IF kind = "7702" THEN "other" ELSE "allowance"} ELSE {})
    \cup (IF depositEffect(old, new)
          THEN {"token", "bank"} \cup (IF kind = "7702" THEN {} ELSE {"allowance"}) ELSE {})
    \cup (IF withdrawEffect(old, new) THEN {"token", "bank"} ELSE {})

Effects ==
    LET old == Successes(calls, hook)
        new == Successes(calls', hook')
    IN  /\ due' = due \cup Refetched(old, new)
        /\ input' = IF depositEffect(old, new) THEN 0 ELSE input
        /\ permit' = IF depositEffect(old, new) /\ kind \in Signs THEN NoPermit ELSE permit

(* writeContract: the hook forgets its call and shows the new one.         *)
Write(h, what, args) ==
    /\ calls' = Append(calls, [hook |-> h, what |-> what, args |-> args, status |-> "asked"])
    /\ hook' = [hook EXCEPT ![h] = Len(calls) + 1]

Click(h, what, args) ==
    /\ Len(calls) < MaxCalls
    /\ Write(h, what, args) /\ Effects
    /\ UNCHANGED <<kind, contracts, seen, mempool, signing>>

-----------------------------------------------------------------------------
(* The handlers of the page's fields and buttons.                          *)
setAmount(amount) ==
    /\ kind # "v1" /\ input' = amount
    /\ UNCHANGED <<kind, contracts, seen, due, calls, hook, mempool, sign>>

Amount(a) == [NoPermit EXCEPT !.amount = a]

handleApprove(a) ==
    /\ kind # "7702" /\ ~busy("approve")
    /\ Click("approve", "approve", Amount(a))

(* Permit2's approval goes through the hook of the other approval, but its *)
(* button looks at a hook that is never used.                              *)
handleApprovePermit2 ==
    /\ kind = "permit2" /\ ~seen.other
    /\ Click("approve", "grant", NoPermit)

handleApproveDelegate ==
    /\ kind = "7702" /\ ~seen.other /\ ~busy("approve")
    /\ Click("approve", "grant", NoPermit)

handleDeposit(a) ==
    /\ kind # "7702" /\ ~busy("deposit")
    /\ Click("deposit", "deposit", Amount(a))

handleDirectDeposit ==
    /\ kind = "v2" /\ ~busy("direct") /\ input # 0
    /\ Click("direct", "direct", Amount(input))

handleBatchDeposit ==
    /\ kind = "7702" /\ seen.other /\ ~busy("direct") /\ input # 0
    /\ Click("direct", "direct", Amount(input))

handleWithdraw(a) ==
    /\ kind # "7702" /\ ~busy("withdraw")
    /\ Click("withdraw", "withdraw", Amount(a))

(* The permit to sign names the nonce the page has read; that of Permit2   *)
(* is the time, as is the deadline.                                        *)
handlePermitDeposit ==
    /\ kind \in Signs /\ (kind = "permit2" => seen.other)
    /\ signing = NoPermit /\ ~busy("direct") /\ input # 0
    /\ Len(calls) < MaxCalls
    /\ LET time == Len(calls) + 1
           message == [amount |-> input, deadline |-> time,
                       nonce |-> IF kind = "eip712" THEN seen.nonce ELSE time]
       IN  signing' = message /\ permit' = message
    /\ UNCHANGED <<form, contracts, seen, due, calls, hook, mempool>>

-----------------------------------------------------------------------------
(* When the signature is received, it is sent with what was kept of its    *)
(* permit.  The next request to sign forgets the signature.                *)
Sent_Typed == [permit EXCEPT !.amount = input]
Sent == permit

Signed ==
    /\ signing # NoPermit
    /\ signing' = NoPermit
    /\ IF permit # NoPermit
       THEN Write("direct", "permit", [amount |-> Sent.amount, deadline |-> Sent.deadline,
                                       nonce |-> signing.nonce, signed |-> signing])
       ELSE UNCHANGED <<calls, hook>>
    /\ Effects
    /\ UNCHANGED <<kind, contracts, seen, mempool>>

Refused ==
    /\ signing # NoPermit /\ signing' = NoPermit
    /\ UNCHANGED <<form, contracts, seen, due, calls, hook, mempool, permit>>

(* The wallet sends a call, or the user rejects it there.                  *)
Send(i) ==
    /\ calls[i].status = "asked"
    /\ calls' = [calls EXCEPT ![i].status = "sent"] /\ mempool' = Append(mempool, i)
    /\ UNCHANGED <<form, contracts, seen, due, hook, sign>>

Reject(i) ==
    /\ calls[i].status = "asked"
    /\ calls' = [calls EXCEPT ![i].status = "failed"]
    /\ UNCHANGED <<form, contracts, seen, due, hook, mempool, sign>>

-----------------------------------------------------------------------------
(* The contracts.                                                          *)
PaidIn(c, a) == [c EXCEPT !.token = @ - a, !.bank = @ + a]

(* The bank a page names, and how it can be paid into.  The page of the    *)
(* Delegate names the first bank, CONTRACTS.TokenBank, not TokenBankV3.    *)
Bank ==
    CASE kind \in {"v1", "7702"} -> "TokenBank"     [] kind = "v2"      -> "TokenBankV2"
      [] kind = "eip712"         -> "TokenBankPermit" [] kind = "permit2" -> "TokenBankPermit2"

PaidThrough(bank) ==
    {"deposit"} \cup
    CASE bank = "TokenBankV2"     -> {"tokensReceived"} [] bank = "TokenBankV3" -> {"depositFor"}
      [] bank = "TokenBankPermit" -> {"permitDeposit"}
      [] bank = "TokenBankPermit2" -> {"depositWithPermit2"}
      [] OTHER -> {}

(* The contracts between the user and the bank, which have the bank credit *)
(* the user; both revert when it does not.                                 *)
transferWithCallback(a) == contracts.token >= a /\ "tokensReceived" \in PaidThrough(Bank)
depositToBank(a) ==
    contracts.other /\ contracts.token >= a /\ "depositFor" \in PaidThrough(Bank)

(* A permit must be signed as sent; the token's name its next nonce.       *)
PermitHolds(args) ==
    /\ args.signed.amount = args.amount /\ args.signed.deadline = args.deadline
    /\ kind = "eip712" => args.signed.nonce = contracts.nonce
    /\ kind = "permit2" => contracts.other

Allowed(call) ==
    LET a == call.args.amount IN
    CASE call.what \in {"approve", "grant"} -> TRUE
      [] call.what = "deposit"  -> contracts.allowance >= a /\ contracts.token >= a
      [] call.what = "direct"   -> IF kind = "7702" THEN depositToBank(a) ELSE transferWithCallback(a)
      [] call.what = "permit"   -> PermitHolds(call.args) /\ contracts.token >= a
      [] call.what = "withdraw" -> contracts.bank >= a

Result(call) ==
    LET a == call.args.amount IN
    CASE call.what = "approve"  -> [contracts EXCEPT !.allowance = a]
      [] call.what = "grant"    -> [contracts EXCEPT !.other = TRUE]
      [] call.what = "deposit"  -> [PaidIn(contracts, a) EXCEPT !.allowance = @ - a]
      [] call.what = "direct"   -> PaidIn(contracts, a)
      [] call.what = "permit"   -> IF kind = "permit2" THEN PaidIn(contracts, a)
                                   ELSE [PaidIn(contracts, a) EXCEPT !.allowance = 0, !.nonce = @ + 1]
      [] call.what = "withdraw" -> [contracts EXCEPT !.token = @ + a, !.bank = @ - a]

(* The transactions of an account are executed in the order they were sent.*)
Execute ==
    /\ mempool # <<>> /\ mempool' = Tail(mempool)
    /\ LET call == calls[Head(mempool)] IN
        IF Allowed(call)
        THEN contracts' = Result(call) /\ calls' = [calls EXCEPT ![Head(mempool)].status = "executed"]
        ELSE UNCHANGED contracts /\ calls' = [calls EXCEPT ![Head(mempool)].status = "reverted"]
    /\ UNCHANGED <<form, seen, due, hook, sign>>

(* useWaitForTransactionReceipt: of the call the hook shows.               *)
Receipt(h) ==
    /\ Status(calls, hook, h) \in {"executed", "reverted"}
    /\ calls' = [calls EXCEPT ![hook[h]].status = IF @ = "executed" THEN "success" ELSE "failed"]
    /\ UNCHANGED <<kind, contracts, seen, hook, mempool, signing>>
    /\ Effects

Read(q) ==
    /\ q \in due /\ due' = due \ {q}
    /\ seen' = [seen EXCEPT ![q] = contracts[q]]
    /\ UNCHANGED <<form, contracts, calls, hook, mempool, sign>>

-----------------------------------------------------------------------------
BankNext ==
    \/ \E a \in Amounts :
        handleApprove(a) \/ handleDeposit(a) \/ handleWithdraw(a) \/ setAmount(a)
    \/ setAmount(0)
    \/ handleApprovePermit2 \/ handleApproveDelegate
    \/ handleDirectDeposit \/ handleBatchDeposit \/ handlePermitDeposit
    \/ Signed \/ Refused
    \/ \E i \in DOMAIN calls : Send(i) \/ Reject(i)
    \/ Execute
    \/ \E h \in WriteHooks : Receipt(h)
    \/ \E q \in Queries : Read(q)

(* The chain executes, receipts and answers arrive; the user and the       *)
(* wallet may rest for ever.                                               *)
BankFairness ==
    /\ WF_bankVars(Execute)
    /\ \A h \in WriteHooks : WF_bankVars(Receipt(h))
    /\ \A q \in Queries : WF_bankVars(Read(q))

BankSpec == BankInit /\ [][BankNext]_bankVars /\ BankFairness

-----------------------------------------------------------------------------
(* However calls overlap, what the page shows of the balances ends up what *)
(* they are, and of the allowance, but on the page where one approval can  *)
(* hide another.                                                           *)
BalancesSettle ==
    <>[](/\ seen.token = contracts.token /\ seen.bank = contracts.bank
         /\ kind # "permit2" => seen.allowance = contracts.allowance)

(* A deposit by permit is sent with the amount and the deadline that were  *)
(* signed, whatever was typed or went through while the wallet asked; and  *)
(* no signature is sent twice.                                             *)
PermitAsSigned ==
    \A i \in DOMAIN calls : calls[i].what = "permit" =>
        /\ calls[i].args.amount = calls[i].args.signed.amount
        /\ calls[i].args.deadline = calls[i].args.signed.deadline
        /\ \A j \in DOMAIN calls : calls[j].what = "permit" /\ calls[j].args.signed = calls[i].args.signed
                                       => i = j
=============================================================================
