----------------------------- MODULE CallOption ------------------------------
(***************************************************************************)
(* CallOptionToken.sol: options on an asset the issuer deposits, one token *)
(* for each UnderlyingAmount of it, to be exercised at the strike price    *)
(* until they expire.                                                      *)
(*                                                                         *)
(* A transaction is one action.  The asset (ether or a token) and the      *)
(* payment token are different and move exactly what they are asked to;    *)
(* what accounts hold of them is not modelled, a payment they cannot make  *)
(* being a call that reverts.                                              *)
(***************************************************************************)
EXTENDS Sums

CONSTANTS Users,             \* the accounts that hold options
          Issuer,
          UnderlyingAmount,  \* of the asset, for one option
          StrikePrice,       \* in the payment token, for one option
          ExpirationDate,
          MaxDeposit,        \* bound on what is deposited or given in all
          MaxPaid,           \* bound on what the contract is paid
          MaxTime            \* bound on the time explored

ASSUME UsersAssumption == IsFiniteSet(Users) /\ Issuer \in Users
ASSUME TermsAssumption ==
    /\ UnderlyingAmount \in Nat \ {0} /\ StrikePrice \in Nat /\ ExpirationDate \in Nat
    /\ MaxDeposit \in Nat /\ MaxPaid \in Nat /\ MaxTime \in Nat

VARIABLES now,                       \* block.timestamp
          balances, totalSupply, allowances,
          expired,
          totalUnderlyingDeposited,
          heldUnderlying,            \* what the contract has of the asset
          heldPayment                \* and of the payment token

vars == <<now, balances, totalSupply, allowances, expired, totalUnderlyingDeposited,
          heldUnderlying, heldPayment>>

tokenVars == <<totalSupply, expired, totalUnderlyingDeposited, heldUnderlying, heldPayment>>

Init ==
    /\ now = 0 /\ totalSupply = 0 /\ expired = FALSE
    /\ balances = [u \in Users |-> 0]
    /\ allowances = [u \in Users |-> [v \in Users |-> 0]]
    /\ totalUnderlyingDeposited = 0 /\ heldUnderlying = 0 /\ heldPayment = 0

-----------------------------------------------------------------------------
notExpired == now < ExpirationDate /\ ~expired
isExpired == now >= ExpirationDate \/ expired

(* Debited, then credited: moving options to oneself changes nothing. *)
Moved(from, to, n) ==
    [balances EXCEPT ![from] = balances[from] - n,
                     ![to] = IF to = from THEN balances[to] ELSE balances[to] + n]

transfer(from, to, n) ==
    /\ n <= balances[from]
    /\ balances' = Moved(from, to, n)
    /\ UNCHANGED <<now, allowances, tokenVars>>

transferFrom(spender, from, to, n) ==
    /\ n <= balances[from] /\ n <= allowances[from][spender]
    /\ balances' = Moved(from, to, n)
    /\ allowances' = [allowances EXCEPT ![from] =
                         [allowances[from] EXCEPT ![spender] = allowances[from][spender] - n]]
    /\ UNCHANGED <<now, tokenVars>>

approve(owner, spender, n) ==
    /\ allowances' = [allowances EXCEPT ![owner] = [allowances[owner] EXCEPT ![spender] = n]]
    /\ UNCHANGED <<now, balances, tokenVars>>

(* Mutant: rounded up. *)
OptionsForRoundedUp(deposit) == (deposit + UnderlyingAmount - 1) \div UnderlyingAmount

(* The options a deposit backs; what is left of it backs none. *)
OptionsFor(deposit) == deposit \div UnderlyingAmount

issueOptions(deposit) ==
    /\ notExpired
    /\ OptionsFor(deposit) > 0
    /\ heldUnderlying + deposit <= MaxDeposit
    /\ totalSupply' = totalSupply + OptionsFor(deposit)
    /\ balances' = [balances EXCEPT ![Issuer] = balances[Issuer] + OptionsFor(deposit)]
    /\ totalUnderlyingDeposited' = totalUnderlyingDeposited + deposit
    /\ heldUnderlying' = heldUnderlying + deposit
    /\ UNCHANGED <<now, allowances, expired, heldPayment>>

(* The issuer, at any time, pays in and nothing else happens. *)
createTradingPair(n, payment) ==
    /\ n <= balances[Issuer]
    /\ heldPayment + payment <= MaxPaid
    /\ heldPayment' = heldPayment + payment
    /\ UNCHANGED <<now, balances, totalSupply, allowances, expired, totalUnderlyingDeposited,
                   heldUnderlying>>

(* A tenth of the strike price, whole units only. *)
Premium(n) == (n * StrikePrice * 10) \div 100

buyOptions(u, n) ==
    /\ notExpired
    /\ n > 0 /\ n <= balances[Issuer]
    /\ heldPayment + Premium(n) <= MaxPaid
    /\ balances' = Moved(Issuer, u, n)
    /\ heldPayment' = heldPayment + Premium(n)
    /\ UNCHANGED <<now, totalSupply, allowances, expired, totalUnderlyingDeposited,
                   heldUnderlying>>

(* Mutant: the price of one option is paid, whatever the number. *)
exerciseAtOnePrice(u, n) ==
    /\ notExpired
    /\ n > 0 /\ n <= balances[u]
    /\ heldPayment + StrikePrice <= MaxPaid
    /\ n * UnderlyingAmount <= totalUnderlyingDeposited
    /\ n * UnderlyingAmount <= heldUnderlying
    /\ heldPayment' = heldPayment + StrikePrice
    /\ balances' = [balances EXCEPT ![u] = balances[u] - n]
    /\ totalSupply' = totalSupply - n
    /\ totalUnderlyingDeposited' = totalUnderlyingDeposited - n * UnderlyingAmount
    /\ heldUnderlying' = heldUnderlying - n * UnderlyingAmount
    /\ UNCHANGED <<now, allowances, expired>>

exerciseOptions(u, n) ==
    /\ notExpired
    /\ n > 0 /\ n <= balances[u]
    /\ heldPayment + n * StrikePrice <= MaxPaid
    /\ n * UnderlyingAmount <= totalUnderlyingDeposited
    /\ n * UnderlyingAmount <= heldUnderlying
    /\ n <= totalSupply
    /\ heldPayment' = heldPayment + n * StrikePrice
    /\ balances' = [balances EXCEPT ![u] = balances[u] - n]
    /\ totalSupply' = totalSupply - n
    /\ totalUnderlyingDeposited' = totalUnderlyingDeposited - n * UnderlyingAmount
    /\ heldUnderlying' = heldUnderlying - n * UnderlyingAmount
    /\ UNCHANGED <<now, allowances, expired>>

(* The issuer takes what was deposited and every payment.  The holders     *)
(* keep their balances: only the issuer's own is set to zero.              *)
expireOptions ==
    /\ isExpired /\ ~expired
    /\ totalUnderlyingDeposited <= heldUnderlying
    /\ expired' = TRUE
    /\ heldUnderlying' = heldUnderlying - totalUnderlyingDeposited
    /\ totalUnderlyingDeposited' = 0
    /\ heldPayment' = 0
    /\ totalSupply' = 0
    /\ balances' = [balances EXCEPT ![Issuer] = 0]
    /\ UNCHANGED <<now, allowances>>

(* Ether or tokens sent without a call. *)
receive(value) ==
    /\ heldUnderlying + value <= MaxDeposit
    /\ heldUnderlying' = heldUnderlying + value
    /\ UNCHANGED <<now, balances, totalSupply, allowances, expired, totalUnderlyingDeposited,
                   heldPayment>>

Tick ==
    /\ now < MaxTime
    /\ now' = now + 1
    /\ UNCHANGED <<balances, totalSupply, allowances, expired, totalUnderlyingDeposited,
                   heldUnderlying, heldPayment>>

Amounts == 0..(MaxDeposit \div UnderlyingAmount)

Next ==
    \/ \E from, to \in Users, n \in Amounts :
          \/ transfer(from, to, n)
          \/ approve(from, to, n)
          \/ \E spender \in Users : transferFrom(spender, from, to, n)
    \/ \E deposit \in 1..MaxDeposit : issueOptions(deposit) \/ receive(deposit)
    \/ \E n \in Amounts, payment \in 0..MaxPaid : createTradingPair(n, payment)
    \/ \E u \in Users, n \in Amounts : buyOptions(u, n) \/ exerciseOptions(u, n)
    \/ expireOptions
    \/ Tick

Spec == Init /\ [][Next]_vars

-----------------------------------------------------------------------------
(* The state is well formed; the issuer settles only after the expiry, and *)
(* until then the supply is the sum of the balances.                       *)
TypeOK ==
    /\ now \in Nat /\ expired \in BOOLEAN
    /\ balances \in [Users -> Nat] /\ totalSupply \in Nat
    /\ allowances \in [Users -> [Users -> Nat]]
    /\ totalUnderlyingDeposited \in Nat /\ heldUnderlying \in Nat /\ heldPayment \in Nat
    /\ expired => now >= ExpirationDate
    /\ ~expired => totalSupply = SumOf(balances)

(* Whoever holds options before the expiry can exercise them, and all of   *)
(* them together: what the contract has is enough, and no deposit counted  *)
(* twice, rounding or settlement takes it away.                            *)
OptionsBacked ==
    now < ExpirationDate =>
        /\ SumOf(balances) * UnderlyingAmount <= totalUnderlyingDeposited
        /\ totalUnderlyingDeposited <= heldUnderlying

(* Before the expiry the asset leaves only against options of one holder,  *)
(* each at its amount, and for no less than the strike price of each.      *)
ReleasedAgainstStrike ==
    [][now < ExpirationDate /\ heldUnderlying' < heldUnderlying =>
          \E u \in Users :
             LET n == balances[u] - balances'[u]
             IN  /\ heldUnderlying - heldUnderlying' = n * UnderlyingAmount
                 /\ heldPayment' - heldPayment >= n * StrikePrice
                 /\ \A w \in Users \ {u} : balances'[w] = balances[w]]_vars

=============================================================================
